---------------------------- MODULE PackerProofs ----------------------------
(***************************************************************************)
(* Proofs about Packer and the builder of UnixFs.                          *)
(***************************************************************************)
EXTENDS Packer, FiniteSetTheorems, SequenceTheorems, TLAPS

\* A set of numbers that is not empty has a least.
LEMMA LeastNat ==
  ASSUME NEW T \in SUBSET Nat, T # {}
  PROVE  \E m \in T : \A k \in T : m <= k
<1>1. PICK m \in T : \A k \in T : ~(<<k, m>> \in OpToRel(<, Nat))
  BY NatLessThanWellFounded, WFMin
<1>2. ASSUME NEW k \in T PROVE m <= k
  <2>1. <<k, m>> \in Nat \X Nat /\ ~(<<k, m>> \in OpToRel(<, Nat))
    BY <1>1
  <2>2. ~(k < m)
    BY <2>1 DEF OpToRel
  <2>. QED
    BY <2>2
<1>. QED
  BY <1>2

(***************************************************************************)
(* Sequences.                                                              *)
(***************************************************************************)
IsSeq(q) == q \in Seq(ToSet(q))

\* A function on 1..m is a sequence of its values.
LEMMA ValuesAreSeq ==
  ASSUME NEW q, NEW m \in Nat, q = [k \in 1..m |-> q[k]]
  PROVE  IsSeq(q) /\ Len(q) = m /\ DOMAIN q = 1..m
<1>1. DOMAIN q = 1..m
  OBVIOUS
<1>2. \A k \in 1..m : q[k] \in ToSet(q)
  BY <1>1 DEF ToSet
<1>. QED
  BY <1>1, <1>2 DEF IsSeq

\* A sequence is its length and its elements.
LEMMA SeqParts ==
  ASSUME NEW q, IsSeq(q)
  PROVE  Len(q) \in Nat /\ DOMAIN q = 1..Len(q) /\ q = [k \in 1..Len(q) |-> q[k]]
BY DEF IsSeq

\* Sequences of the same length and the same elements are the same.
LEMMA SameSeq ==
  ASSUME NEW q, NEW r, IsSeq(q), IsSeq(r), Len(q) = Len(r), \A k \in 1..Len(q) : q[k] = r[k]
  PROVE  q = r
<1>1. q = [k \in 1..Len(q) |-> q[k]] /\ r = [k \in 1..Len(q) |-> r[k]]
  BY SeqParts
<1>. QED
  BY <1>1

\* No elements are a sequence.
LEMMA NoneSeq == IsSeq(<<>>) /\ Len(<<>>) = 0
BY EmptySeq DEF IsSeq

\* The sequence of length 0 is the empty one.
LEMMA EmptyIs == ASSUME NEW q, IsSeq(q), Len(q) = 0 PROVE q = <<>>
BY DEF IsSeq

\* One element is a sequence.
LEMMA OneSeq ==
  ASSUME NEW x
  PROVE  IsSeq(<<x>>) /\ Len(<<x>>) = 1 /\ <<x>>[1] = x /\ DOMAIN <<x>> = 1..1
<1>1. Len(<<x>>) = 1 /\ DOMAIN <<x>> = 1..1 /\ <<x>>[1] = x
  OBVIOUS
<1>2. IsSeq(<<x>>)
  BY <1>1 DEF ToSet, IsSeq
<1>. QED
  BY <1>1, <1>2

\* One sequence after another.
LEMMA Joined ==
  ASSUME NEW q, NEW r, IsSeq(q), IsSeq(r)
  PROVE  /\ IsSeq(q \o r) /\ Len(q \o r) = Len(q) + Len(r)
         /\ \A k \in 1..Len(q) : (q \o r)[k] = q[k]
         /\ \A k \in 1..Len(r) : (q \o r)[Len(q) + k] = r[k]
<1>1. Len(q) \in Nat /\ Len(r) \in Nat
  BY SeqParts
<1>2. q \o r = [k \in 1..(Len(q) + Len(r)) |-> IF k <= Len(q) THEN q[k] ELSE r[k - Len(q)]]
  <2> DEFINE S == ToSet(q) \cup ToSet(r)
  <2>1. q \in Seq(S) /\ r \in Seq(S)
    BY SeqMonotonic DEF IsSeq
  <2> HIDE DEF S
  <2>2. /\ q \o r \in Seq(S) /\ Len(q \o r) = Len(q) + Len(r)
        /\ \A k \in 1..(Len(q) + Len(r)) : (q \o r)[k] = IF k <= Len(q) THEN q[k] ELSE r[k - Len(q)]
    BY <2>1, ConcatProperties
  <2> DEFINE t == q \o r
  <2>3. t = [k \in 1..(Len(q) + Len(r)) |-> t[k]]
    <3>1. t \in Seq(S) /\ Len(t) = Len(q) + Len(r)
      BY <2>2
    <3> HIDE DEF t
    <3>. QED
      BY <3>1, LenProperties
  <2>. QED
    BY <2>2, <2>3
<1> DEFINE s == q \o r
<1>3. s = [k \in 1..(Len(q) + Len(r)) |-> s[k]]
  BY <1>2
<1>4. ASSUME NEW k \in 1..Len(q) PROVE s[k] = q[k]
  BY <1>1, <1>2
<1>5. ASSUME NEW k \in 1..Len(r) PROVE s[Len(q) + k] = r[k]
  <2>1. Len(q) + k \in 1..(Len(q) + Len(r)) /\ ~(Len(q) + k <= Len(q)) /\ (Len(q) + k) - Len(q) = k
    BY <1>1
  <2>. QED
    BY <1>2, <2>1
<1> HIDE DEF s
<1>6. IsSeq(s) /\ Len(s) = Len(q) + Len(r)
  BY <1>1, <1>3, ValuesAreSeq
<1>. QED
  BY <1>4, <1>5, <1>6 DEF s

\* A sequence with one more element.
LEMMA Appended ==
  ASSUME NEW q, NEW x, IsSeq(q)
  PROVE  /\ Append(q, x) = q \o <<x>>
         /\ IsSeq(Append(q, x)) /\ Len(Append(q, x)) = Len(q) + 1 /\ DOMAIN Append(q, x) = 1..(Len(q) + 1)
         /\ \A k \in 1..Len(q) : Append(q, x)[k] = q[k]
         /\ Append(q, x)[Len(q) + 1] = x
<1>1. Append(q, x) = q \o <<x>>
  BY DEF IsSeq
<1>2. IsSeq(<<x>>) /\ Len(<<x>>) = 1 /\ <<x>>[1] = x
  BY OneSeq
<1>3. /\ IsSeq(q \o <<x>>) /\ Len(q \o <<x>>) = Len(q) + 1
      /\ \A k \in 1..Len(q) : (q \o <<x>>)[k] = q[k]
      /\ \A k \in 1..1 : (q \o <<x>>)[Len(q) + k] = <<x>>[k]
  BY <1>2, Joined
<1>4. DOMAIN Append(q, x) = 1..(Len(q) + 1)
  BY <1>1, <1>3, SeqParts
<1>. QED
  BY <1>1, <1>2, <1>3, <1>4

\* The part of s after its first a elements, up to the b-th.
Part(s, a, b) == SubSeq(s, a + 1, b)

\* The elements of a part.
LEMMA PartIs ==
  ASSUME NEW s, NEW a \in Nat, NEW b \in Nat, a <= b
  PROVE  /\ IsSeq(Part(s, a, b)) /\ Len(Part(s, a, b)) = b - a
         /\ \A k \in 1..(b - a) : Part(s, a, b)[k] = s[a + k]
<1> DEFINE q == Part(s, a, b)
<1>1. q = [k \in 1..(1 + b - (a + 1)) |-> s[k + (a + 1) - 1]]
  BY DEF Part
<1>2. b - a \in Nat /\ 1 + b - (a + 1) = b - a
  OBVIOUS
<1>3. q = [k \in 1..(b - a) |-> s[a + k]]
  <2>1. \A k \in 1..(b - a) : k + (a + 1) - 1 = a + k
    OBVIOUS
  <2>. QED
    BY <1>1, <1>2, <2>1
<1>4. q = [k \in 1..(b - a) |-> q[k]] /\ \A k \in 1..(b - a) : q[k] = s[a + k]
  BY <1>3
<1> HIDE DEF q
<1>5. IsSeq(q) /\ Len(q) = b - a
  BY <1>2, <1>4, ValuesAreSeq
<1>. QED
  BY <1>4, <1>5 DEF q

\* A part from a place to itself is empty.
LEMMA PartOfNone == ASSUME NEW s, NEW a \in Nat PROVE Part(s, a, a) = <<>>
BY SubSeqEmpty DEF Part

\* A part and the next element are a part.
LEMMA PartGrows ==
  ASSUME NEW s, NEW a \in Nat, NEW b \in Nat, a <= b
  PROVE  Part(s, a, b) \o <<s[b + 1]>> = Part(s, a, b + 1)
<1> DEFINE q == Part(s, a, b)
           r == Part(s, a, b + 1)
           x == s[b + 1]
<1>1. /\ IsSeq(q) /\ Len(q) = b - a
      /\ \A k \in 1..(b - a) : q[k] = s[a + k]
  BY PartIs
<1>2. /\ IsSeq(r) /\ Len(r) = b + 1 - a
      /\ \A k \in 1..(b + 1 - a) : r[k] = s[a + k]
  <2> DEFINE y == b + 1
  <2>1. y \in Nat /\ a <= y
    OBVIOUS
  <2> HIDE DEF y
  <2>2. /\ IsSeq(Part(s, a, y)) /\ Len(Part(s, a, y)) = y - a
        /\ \A k \in 1..(y - a) : Part(s, a, y)[k] = s[a + k]
    BY <2>1, PartIs
  <2>. QED
    BY <2>2 DEF y
<1> HIDE DEF q, r
<1>2b. b - a \in Nat
  OBVIOUS
<1>3. /\ q \o <<x>> = Append(q, x)
      /\ IsSeq(Append(q, x)) /\ Len(Append(q, x)) = b - a + 1
      /\ \A k \in 1..(b - a) : Append(q, x)[k] = q[k]
      /\ Append(q, x)[b - a + 1] = x
  <2>1. q \o <<x>> = Append(q, x) /\ IsSeq(Append(q, x))
    BY <1>1, Appended
  <2>2. Len(Append(q, x)) = Len(q) + 1
    BY <1>1, Appended
  <2>3. \A k \in 1..Len(q) : Append(q, x)[k] = q[k]
    BY <1>1, Appended
  <2>4. Append(q, x)[Len(q) + 1] = x
    BY <1>1, Appended
  <2>. QED
    BY <1>1, <2>1, <2>2, <2>3, <2>4
<1>4. ASSUME NEW k \in 1..(b - a + 1) PROVE Append(q, x)[k] = r[k]
  <2>0. k <= b - a \/ k = b - a + 1
    OBVIOUS
  <2>1. CASE k <= b - a
    <3>1. k \in 1..(b - a) /\ k \in 1..(b + 1 - a)
      BY <2>1
    <3>. QED
      BY <1>1, <1>2, <1>3, <3>1
  <2>2. CASE k = b - a + 1
    <3>1. k \in 1..(b + 1 - a) /\ a + k = b + 1
      BY <2>2
    <3>2. r[k] = s[b + 1]
      BY <1>2, <3>1
    <3>3. Append(q, x)[k] = x
      BY <1>3, <2>2
    <3>. QED
      BY <3>2, <3>3
  <2>. QED
    BY <2>0, <2>1, <2>2
<1>5. Append(q, x) = r
  <2>1. Len(Append(q, x)) = Len(r) /\ Len(r) = b - a + 1
    BY <1>2, <1>3
  <2>. QED
    BY <1>2, <1>3, <1>4, <2>1, SameSeq
<1>. QED
  BY <1>3, <1>5 DEF q, r

(***************************************************************************)
(* What a recursive function comes to: every one of this system has turns  *)
(* of one of these kinds.                                                  *)
(***************************************************************************)
Turn(kind, now, v) ==
  CASE kind = "sum" -> now + v
    [] kind = "layer" -> Above(now)
    [] kind = "order" -> OrdersAbove(now, v)
    [] kind = "flatten" -> now \o v
    [] kind = "climb" -> Climb(now, v)
    [] kind = "chunk" -> PushChunk(now, v)
    [] kind = "close" -> Close(now, v)
    [] kind = "leaf" -> AddLeaf(now, v)
    [] kind = "section" -> AddSection(now, v)

\* after[n] is what n turns come to, for each n up to m.
Turns(after, kind, base, values, m) ==
  after = [n \in 0..m |-> IF n = 0 THEN base ELSE Turn(kind, after[n - 1], values[n])]

\* For every number of turns there is a function that gives each turn's value.
LEMMA TurnsExist ==
  ASSUME NEW kind, NEW base, NEW values, NEW n \in Nat
  PROVE  \E after : Turns(after, kind, base, values, n)
<1> DEFINE Bad == {m \in 0..n : ~\E after : Turns(after, kind, base, values, m)}
<1>1. ASSUME NEW m \in Bad, m = 0 PROVE FALSE
  <2>1. Turns([x \in 0..0 |-> base], kind, base, values, 0)
    BY DEF Turns
  <2>. QED
    BY <1>1, <2>1
<1>2. ASSUME NEW m \in 1..n, NEW f, Turns(f, kind, base, values, m - 1)
      PROVE  \E after : Turns(after, kind, base, values, m)
  <2> DEFINE g == [x \in 0..m |-> IF x = 0 THEN base ELSE Turn(kind, f[x - 1], values[x])]
  <2>1. ASSUME NEW x \in 1..m PROVE g[x - 1] = f[x - 1]
    BY <1>2 DEF Turns
  <2>2. ASSUME NEW x \in 0..m PROVE g[x] = IF x = 0 THEN base ELSE Turn(kind, g[x - 1], values[x])
    <3>1. CASE x = 0
      BY <3>1
    <3>2. CASE x # 0
      <4>1. x \in 1..m /\ g[x] = Turn(kind, f[x - 1], values[x])
        BY <3>2
      <4>2. g[x - 1] = f[x - 1]
        BY <2>1, <4>1
      <4> HIDE DEF g
      <4>. QED
        BY <3>2, <4>1, <4>2
    <3>. QED
      BY <3>1, <3>2
  <2> HIDE DEF g
  <2>3. g = [x \in 0..m |-> g[x]]
    BY DEF g
  <2>4. g = [x \in 0..m |-> IF x = 0 THEN base ELSE Turn(kind, g[x - 1], values[x])]
    BY <2>2, <2>3, Zenon
  <2>. QED
    BY <2>4 DEF Turns
<1>3. Bad = {}
  <2> SUFFICES ASSUME Bad # {} PROVE FALSE
    OBVIOUS
  <2>1. PICK m \in Bad : \A k \in Bad : m <= k
    <3>1. Bad \in SUBSET Nat
      OBVIOUS
    <3> HIDE DEF Bad
    <3>. QED
      BY <3>1, LeastNat
  <2>2. m \in 1..n /\ m - 1 \in 0..n /\ ~(m <= m - 1)
    BY <1>1
  <2>3. m - 1 \notin Bad
    <3> HIDE DEF Bad
    <3>. QED
      BY <2>1, <2>2
  <2>. QED
    BY <1>2, <2>2, <2>3
<1>. QED
  BY <1>3

\* What Turns says, turn by turn.
LEMMA TurnsAre ==
  ASSUME NEW after, NEW kind, NEW base, NEW values, NEW m \in Nat, Turns(after, kind, base, values, m)
  PROVE  /\ after[0] = base
         /\ \A n \in 1..m : n - 1 \in 0..m /\ after[n] = Turn(kind, after[n - 1], values[n])
<1>1. \A n \in 0..m : after[n] = IF n = 0 THEN base ELSE Turn(kind, after[n - 1], values[n])
  BY DEF Turns
<1>2. 0 \in 0..m /\ \A n \in 1..m : n \in 0..m /\ n # 0 /\ n - 1 \in 0..m
  OBVIOUS
<1>. QED
  BY <1>1, <1>2

\* push's loop over the levels comes to the last of its turns.
LEMMA ClimbLoop ==
  ASSUME NEW base, NEW values, Len(values) \in Nat
  PROVE  \E after : /\ Turns(after, "climb", base, values, Len(values))
                    /\ Loop(Climb, base, values) = after[Len(values)]
<1> DEFINE Next1(after) == [n \in 0..Len(values) |->
                    IF n = 0 THEN base
                    ELSE CHOOSE next \in {Climb(now, values[n]) : now \in {after[n - 1]}} : TRUE]
           done == CHOOSE after : after = Next1(after)
<1>1. ASSUME NEW now, NEW v PROVE Turn("climb", now, v) = Climb(now, v)
  BY DEF Turn
<1>2. ASSUME NEW after, NEW n
      PROVE  (CHOOSE next \in {Climb(now, values[n]) : now \in {after[n - 1]}} : TRUE)
                = Turn("climb", after[n - 1], values[n])
  <2>1. (CHOOSE next \in {Climb(now, values[n]) : now \in {after[n - 1]}} : TRUE) = Climb(after[n - 1], values[n])
    OBVIOUS
  <2>. QED
    BY <1>1, <2>1
<1>3. ASSUME NEW after
      PROVE  Next1(after) = [n \in 0..Len(values) |->
                 IF n = 0 THEN base ELSE Turn("climb", after[n - 1], values[n])]
  BY <1>2, Zenon
<1>4. PICK f : Turns(f, "climb", base, values, Len(values))
  BY TurnsExist
<1>5. f = Next1(f)
  BY <1>3, <1>4, Zenon DEF Turns
<1> HIDE DEF Next1
<1>6. done = Next1(done)
  BY <1>5, Zenon
<1>7. Turns(done, "climb", base, values, Len(values))
  BY <1>3, <1>6, Zenon DEF Turns
<1>8. Loop(Climb, base, values) = done[Len(values)]
  BY DEF Loop, Next1
<1>. QED
  BY <1>7, <1>8

\* push_chunk for every chunk comes to the last of its turns.
LEMMA ChunkLoop ==
  ASSUME NEW base, NEW values, Len(values) \in Nat
  PROVE  \E after : /\ Turns(after, "chunk", base, values, Len(values))
                    /\ Loop(PushChunk, base, values) = after[Len(values)]
<1> DEFINE Next1(after) == [n \in 0..Len(values) |->
                    IF n = 0 THEN base
                    ELSE CHOOSE next \in {PushChunk(now, values[n]) : now \in {after[n - 1]}} : TRUE]
           done == CHOOSE after : after = Next1(after)
<1>1. ASSUME NEW now, NEW v PROVE Turn("chunk", now, v) = PushChunk(now, v)
  BY DEF Turn
<1>2. ASSUME NEW after, NEW n
      PROVE  (CHOOSE next \in {PushChunk(now, values[n]) : now \in {after[n - 1]}} : TRUE)
                = Turn("chunk", after[n - 1], values[n])
  <2>1. (CHOOSE next \in {PushChunk(now, values[n]) : now \in {after[n - 1]}} : TRUE) = PushChunk(after[n - 1], values[n])
    OBVIOUS
  <2>. QED
    BY <1>1, <2>1
<1>3. ASSUME NEW after
      PROVE  Next1(after) = [n \in 0..Len(values) |->
                 IF n = 0 THEN base ELSE Turn("chunk", after[n - 1], values[n])]
  BY <1>2, Zenon
<1>4. PICK f : Turns(f, "chunk", base, values, Len(values))
  BY TurnsExist
<1>5. f = Next1(f)
  BY <1>3, <1>4, Zenon DEF Turns
<1> HIDE DEF Next1
<1>6. done = Next1(done)
  BY <1>5, Zenon
<1>7. Turns(done, "chunk", base, values, Len(values))
  BY <1>3, <1>6, Zenon DEF Turns
<1>8. Loop(PushChunk, base, values) = done[Len(values)]
  BY DEF Loop, Next1
<1>. QED
  BY <1>7, <1>8

\* finish's loop over the levels comes to the last of its turns.
LEMMA CloseLoop ==
  ASSUME NEW base, NEW values, Len(values) \in Nat
  PROVE  \E after : /\ Turns(after, "close", base, values, Len(values))
                    /\ Loop(Close, base, values) = after[Len(values)]
<1> DEFINE Next1(after) == [n \in 0..Len(values) |->
                    IF n = 0 THEN base
                    ELSE CHOOSE next \in {Close(now, values[n]) : now \in {after[n - 1]}} : TRUE]
           done == CHOOSE after : after = Next1(after)
<1>1. ASSUME NEW now, NEW v PROVE Turn("close", now, v) = Close(now, v)
  BY DEF Turn
<1>2. ASSUME NEW after, NEW n
      PROVE  (CHOOSE next \in {Close(now, values[n]) : now \in {after[n - 1]}} : TRUE)
                = Turn("close", after[n - 1], values[n])
  <2>1. (CHOOSE next \in {Close(now, values[n]) : now \in {after[n - 1]}} : TRUE) = Close(after[n - 1], values[n])
    OBVIOUS
  <2>. QED
    BY <1>1, <2>1
<1>3. ASSUME NEW after
      PROVE  Next1(after) = [n \in 0..Len(values) |->
                 IF n = 0 THEN base ELSE Turn("close", after[n - 1], values[n])]
  BY <1>2, Zenon
<1>4. PICK f : Turns(f, "close", base, values, Len(values))
  BY TurnsExist
<1>5. f = Next1(f)
  BY <1>3, <1>4, Zenon DEF Turns
<1> HIDE DEF Next1
<1>6. done = Next1(done)
  BY <1>5, Zenon
<1>7. Turns(done, "close", base, values, Len(values))
  BY <1>3, <1>6, Zenon DEF Turns
<1>8. Loop(Close, base, values) = done[Len(values)]
  BY DEF Loop, Next1
<1>. QED
  BY <1>7, <1>8

\* Assembler.add for every leaf comes to the last of its turns.
LEMMA LeafLoop ==
  ASSUME NEW base, NEW values, Len(values) \in Nat
  PROVE  \E after : /\ Turns(after, "leaf", base, values, Len(values))
                    /\ Loop(AddLeaf, base, values) = after[Len(values)]
<1> DEFINE Next1(after) == [n \in 0..Len(values) |->
                    IF n = 0 THEN base
                    ELSE CHOOSE next \in {AddLeaf(now, values[n]) : now \in {after[n - 1]}} : TRUE]
           done == CHOOSE after : after = Next1(after)
<1>1. ASSUME NEW now, NEW v PROVE Turn("leaf", now, v) = AddLeaf(now, v)
  BY DEF Turn
<1>2. ASSUME NEW after, NEW n
      PROVE  (CHOOSE next \in {AddLeaf(now, values[n]) : now \in {after[n - 1]}} : TRUE)
                = Turn("leaf", after[n - 1], values[n])
  <2>1. (CHOOSE next \in {AddLeaf(now, values[n]) : now \in {after[n - 1]}} : TRUE) = AddLeaf(after[n - 1], values[n])
    OBVIOUS
  <2>. QED
    BY <1>1, <2>1
<1>3. ASSUME NEW after
      PROVE  Next1(after) = [n \in 0..Len(values) |->
                 IF n = 0 THEN base ELSE Turn("leaf", after[n - 1], values[n])]
  BY <1>2, Zenon
<1>4. PICK f : Turns(f, "leaf", base, values, Len(values))
  BY TurnsExist
<1>5. f = Next1(f)
  BY <1>3, <1>4, Zenon DEF Turns
<1> HIDE DEF Next1
<1>6. done = Next1(done)
  BY <1>5, Zenon
<1>7. Turns(done, "leaf", base, values, Len(values))
  BY <1>3, <1>6, Zenon DEF Turns
<1>8. Loop(AddLeaf, base, values) = done[Len(values)]
  BY DEF Loop, Next1
<1>. QED
  BY <1>7, <1>8

\* block for every emitted node comes to the last of its turns.
LEMMA SectionLoop ==
  ASSUME NEW base, NEW values, Len(values) \in Nat
  PROVE  \E after : /\ Turns(after, "section", base, values, Len(values))
                    /\ Loop(AddSection, base, values) = after[Len(values)]
<1> DEFINE Next1(after) == [n \in 0..Len(values) |->
                    IF n = 0 THEN base
                    ELSE CHOOSE next \in {AddSection(now, values[n]) : now \in {after[n - 1]}} : TRUE]
           done == CHOOSE after : after = Next1(after)
<1>1. ASSUME NEW now, NEW v PROVE Turn("section", now, v) = AddSection(now, v)
  BY DEF Turn
<1>2. ASSUME NEW after, NEW n
      PROVE  (CHOOSE next \in {AddSection(now, values[n]) : now \in {after[n - 1]}} : TRUE)
                = Turn("section", after[n - 1], values[n])
  <2>1. (CHOOSE next \in {AddSection(now, values[n]) : now \in {after[n - 1]}} : TRUE) = AddSection(after[n - 1], values[n])
    OBVIOUS
  <2>. QED
    BY <1>1, <2>1
<1>3. ASSUME NEW after
      PROVE  Next1(after) = [n \in 0..Len(values) |->
                 IF n = 0 THEN base ELSE Turn("section", after[n - 1], values[n])]
  BY <1>2, Zenon
<1>4. PICK f : Turns(f, "section", base, values, Len(values))
  BY TurnsExist
<1>5. f = Next1(f)
  BY <1>3, <1>4, Zenon DEF Turns
<1> HIDE DEF Next1
<1>6. done = Next1(done)
  BY <1>5, Zenon
<1>7. Turns(done, "section", base, values, Len(values))
  BY <1>3, <1>6, Zenon DEF Turns
<1>8. Loop(AddSection, base, values) = done[Len(values)]
  BY DEF Loop, Next1
<1>. QED
  BY <1>7, <1>8

\* A set with 0 in it, and with every number its successor, up to m.
LEMMA Ascent ==
  ASSUME NEW T, NEW m \in Nat, 0 \in T,
         \A k \in 0..m : k \in T /\ k < m => k + 1 \in T
  PROVE  \A k \in 0..m : k \in T
<1> DEFINE Bad == {k \in 0..m : k \notin T}
<1> SUFFICES ASSUME Bad # {} PROVE FALSE
  OBVIOUS
<1>1. PICK k \in Bad : \A j \in Bad : k <= j
  <2>1. Bad \in SUBSET Nat
    OBVIOUS
  <2> HIDE DEF Bad
  <2>. QED
    BY <2>1, LeastNat
<1>2. k \in 0..m /\ k # 0
  OBVIOUS
<1> DEFINE j == k - 1
<1>3. j \in 0..m /\ ~(k <= j) /\ j < m /\ j + 1 = k
  BY <1>2
<1>4. j \in T
  <2> HIDE DEF j
  <2>. QED
    BY <1>1, <1>3
<1>5. j + 1 \in T
  <2> HIDE DEF j
  <2>. QED
    BY <1>3, <1>4
<1>. QED
  BY <1>3, <1>5

(***************************************************************************)
(* Sums.                                                                   *)
(***************************************************************************)
\* SumsOf is its turns.
LEMMA SumTurns ==
  ASSUME NEW s, Len(s) \in Nat
  PROVE  Turns(SumsOf(s), "sum", 0, s, Len(s))
<1> DEFINE Next1(after) == [i \in 0..Len(s) |-> IF i = 0 THEN 0 ELSE after[i - 1] + s[i]]
           done == CHOOSE after : after = Next1(after)
<1>1. ASSUME NEW now, NEW v PROVE Turn("sum", now, v) = now + v
  BY DEF Turn
<1>2. ASSUME NEW after
      PROVE  Next1(after) = [n \in 0..Len(s) |-> IF n = 0 THEN 0 ELSE Turn("sum", after[n - 1], s[n])]
  BY <1>1, Zenon
<1>3. PICK f : Turns(f, "sum", 0, s, Len(s))
  BY TurnsExist
<1>4. f = Next1(f)
  BY <1>2, <1>3, Zenon DEF Turns
<1> HIDE DEF Next1
<1>5. done = Next1(done)
  BY <1>4, Zenon
<1>6. Turns(done, "sum", 0, s, Len(s))
  BY <1>2, <1>5, Zenon DEF Turns
<1>7. SumsOf(s) = done
  BY DEF SumsOf, Next1
<1>. QED
  BY <1>6, <1>7

\* A sum more than a sum before it.
LEMMA SumStep ==
  ASSUME NEW s, s \in Seq(Nat \ {0})
  PROVE  /\ SumsOf(s)[0] = 0
         /\ \A i \in 0..Len(s) : SumsOf(s)[i] \in Nat
         /\ \A i \in 1..Len(s) : i - 1 \in 0..Len(s) /\ SumsOf(s)[i] = SumsOf(s)[i - 1] + s[i]
<1> DEFINE sum == SumsOf(s)
<1>1. Len(s) \in Nat /\ \A i \in 1..Len(s) : s[i] \in Nat
  OBVIOUS
<1>2. ASSUME NEW now, NEW v PROVE Turn("sum", now, v) = now + v
  BY DEF Turn
<1>3. /\ sum[0] = 0
      /\ \A n \in 1..Len(s) : n - 1 \in 0..Len(s) /\ sum[n] = Turn("sum", sum[n - 1], s[n])
  <2>1. Turns(sum, "sum", 0, s, Len(s))
    BY <1>1, SumTurns
  <2> HIDE DEF sum
  <2>. QED
    BY <1>1, <2>1, TurnsAre
<1>4. \A n \in 1..Len(s) : n - 1 \in 0..Len(s) /\ sum[n] = sum[n - 1] + s[n]
  BY <1>2, <1>3
<1> DEFINE T == {i \in Nat : sum[i] \in Nat}
<1>5. \A i \in 0..Len(s) : i \in T
  <2>1. 0 \in T
    BY <1>3
  <2>2. ASSUME NEW k \in 0..Len(s), k \in T, k < Len(s) PROVE k + 1 \in T
    <3> HIDE DEF sum
    <3>1. k + 1 \in 1..Len(s) /\ k + 1 - 1 = k
      BY <1>1, <2>2
    <3>2. sum[k + 1] = sum[k] + s[k + 1] /\ s[k + 1] \in Nat /\ sum[k] \in Nat
      BY <1>1, <1>4, <2>2, <3>1
    <3>. QED
      BY <3>2
  <2> HIDE DEF T
  <2>. QED
    BY <1>1, <2>1, <2>2, Ascent
<1>. QED
  BY <1>3, <1>4, <1>5

\* Sums of elements above 0 ascend.
LEMMA SumsAscend ==
  ASSUME NEW s, s \in Seq(Nat \ {0}), NEW i \in 0..Len(s), NEW j \in 0..Len(s)
  PROVE  /\ i < j => SumsOf(s)[i] < SumsOf(s)[j]
         /\ i <= j => SumsOf(s)[i] <= SumsOf(s)[j]
<1> DEFINE sum == SumsOf(s)
<1>1. /\ \A k \in 0..Len(s) : sum[k] \in Nat
      /\ \A k \in 1..Len(s) : k - 1 \in 0..Len(s) /\ sum[k] = sum[k - 1] + s[k]
  BY SumStep
<1>2. Len(s) \in Nat /\ \A k \in 1..Len(s) : s[k] \in Nat /\ s[k] > 0
  OBVIOUS
<1> HIDE DEF sum
<1> DEFINE T == {k \in Nat : i < k /\ k <= Len(s) => sum[i] < sum[k]}
<1>3. \A k \in 0..Len(s) : k \in T
  <2>1. 0 \in T
    OBVIOUS
  <2>2. ASSUME NEW k \in 0..Len(s), k \in T, k < Len(s) PROVE k + 1 \in T
    <3>1. k + 1 \in 1..Len(s) /\ k + 1 - 1 = k
      BY <1>2, <2>2
    <3>2. sum[k + 1] = sum[k] + s[k + 1] /\ s[k + 1] \in Nat /\ s[k + 1] > 0 /\ sum[k] \in Nat /\ sum[i] \in Nat
      BY <1>1, <1>2, <2>2, <3>1
    <3>3. i < k => sum[i] < sum[k]
      BY <2>2
    <3>4. i < k + 1 => i < k \/ i = k
      OBVIOUS
    <3>. QED
      BY <3>2, <3>3, <3>4
  <2> HIDE DEF T
  <2>. QED
    BY <1>2, <2>1, <2>2, Ascent
<1>4. i < j => sum[i] < sum[j]
  BY <1>3
<1>5. i <= j => i = j \/ i < j
  OBVIOUS
<1>6. sum[i] \in Nat /\ sum[j] \in Nat
  BY <1>1
<1>. QED
  BY <1>4, <1>5, <1>6 DEF sum

(***************************************************************************)
(* Groups of a size, and quotients.                                        *)
(***************************************************************************)
\* A quotient and its rest.
LEMMA Division ==
  ASSUME NEW a \in Nat, NEW f \in Nat \ {0}
  PROVE  a \div f \in Nat /\ f * (a \div f) <= a /\ a < f * (a \div f) + f
OBVIOUS

\* A quotient rounded up.
LEMMA RoundedUp ==
  ASSUME NEW a \in Nat, NEW f \in Nat \ {0}
  PROVE  /\ (a + f - 1) \div f \in Nat
         /\ a <= f * ((a + f - 1) \div f)
         /\ f * ((a + f - 1) \div f) < a + f
<1> DEFINE c == (a + f - 1) \div f
           p == f * c
<1>1. a + f - 1 \in Nat
  OBVIOUS
<1>2. c \in Nat /\ f * c <= a + f - 1 /\ a + f - 1 < f * c + f
  BY <1>1, Division
<1>3. p \in Int
  BY <1>2
<1> HIDE DEF p, c
<1>4. p <= a + f - 1 /\ a + f - 1 < p + f
  BY <1>2 DEF p
<1>5. a <= p /\ p < a + f
  BY <1>3, <1>4
<1>. QED
  BY <1>2, <1>5 DEF p, c

\* Products of one factor compare as the other factors do.
LEMMA Products ==
  ASSUME NEW f \in Nat \ {0}, NEW c \in Nat, NEW d \in Nat
  PROVE  /\ f * c \in Nat
         /\ f * (c + 1) = f * c + f
         /\ f * c < f * d + f => c <= d
         /\ f * c < f * d => c < d
         /\ c < d => f * c + f <= f * d
         /\ c <= d => f * c <= f * d
         /\ c <= f * c
<1>1. f * c \in Nat /\ f * (c + 1) = f * c + f
  OBVIOUS
<1>2. f * c < f * d + f => c <= d
  OBVIOUS
<1>3. f * c < f * d => c < d
  OBVIOUS
<1>4. c < d => f * c + f <= f * d
  OBVIOUS
<1>5. c <= d => f * c <= f * d
  OBVIOUS
<1>6. c <= f * c
  OBVIOUS
<1>. QED
  BY <1>1, <1>2, <1>3, <1>4, <1>5, <1>6

\* There are fewer groups than elements.
LEMMA FewerGroups ==
  ASSUME NEW f \in Nat \ {0, 1}, NEW a \in Nat, NEW c \in Nat, f * c < a + f, a > 1
  PROVE  c < a
<1>1. SUFFICES ASSUME c >= a PROVE FALSE
  OBVIOUS
<1>2. f * a <= f * c
  BY <1>1
<1>3. f * a < a + f
  BY <1>2
<1>4. (f - 1) * (a - 1) >= 1
  OBVIOUS
<1>5. (f - 1) * (a - 1) = f * a - f - a + 1
  OBVIOUS
<1>. QED
  BY <1>3, <1>4, <1>5

(***************************************************************************)
(* Layers.                                                                 *)
(***************************************************************************)
\* Layers is its turns.
LEMMA LayerTurns ==
  ASSUME NEW chunks, Len(chunks) \in Nat
  PROVE  Turns(Layers(chunks), "layer", [i \in DOMAIN chunks |-> Leaf(chunks[i])], chunks, Len(chunks))
<1> DEFINE base == [i \in DOMAIN chunks |-> Leaf(chunks[i])]
           Next1(after) == [n \in 0..Len(chunks) |-> IF n = 0 THEN base ELSE Above(after[n - 1])]
           done == CHOOSE after : after = Next1(after)
<1>0. Layers(chunks) = done
  BY DEF Layers
<1> HIDE DEF base
<1>1. ASSUME NEW now, NEW v PROVE Turn("layer", now, v) = Above(now)
  BY DEF Turn
<1>2. ASSUME NEW after
      PROVE  Next1(after) = [n \in 0..Len(chunks) |-> IF n = 0 THEN base ELSE Turn("layer", after[n - 1], chunks[n])]
  BY <1>1, Zenon
<1>3. PICK f : Turns(f, "layer", base, chunks, Len(chunks))
  BY TurnsExist
<1>4. f = Next1(f)
  BY <1>2, <1>3, Zenon DEF Turns
<1> HIDE DEF Next1
<1>5. done = Next1(done)
  BY <1>4, Zenon
<1>6. Turns(done, "layer", base, chunks, Len(chunks))
  BY <1>2, <1>5, Zenon DEF Turns
<1>. QED
  BY <1>0, <1>6 DEF base

\* The layers of chunks are those above its leaves, in turn.
LEMMA LayersAre ==
  ASSUME NEW chunks, IsSeq(chunks)
  PROVE  /\ Layers(chunks)[0] = [i \in 1..Len(chunks) |-> Leaf(chunks[i])]
         /\ \A n \in 1..Len(chunks) : n - 1 \in 0..Len(chunks) /\ Layers(chunks)[n] = Above(Layers(chunks)[n - 1])
         /\ DOMAIN Layers(chunks) = 0..Len(chunks)
<1> DEFINE L == Layers(chunks)
           base == [i \in DOMAIN chunks |-> Leaf(chunks[i])]
<1>1. Len(chunks) \in Nat /\ DOMAIN chunks = 1..Len(chunks)
  BY SeqParts
<1>2. ASSUME NEW now, NEW v PROVE Turn("layer", now, v) = Above(now)
  BY DEF Turn
<1>3. Turns(L, "layer", base, chunks, Len(chunks))
  BY <1>1, LayerTurns
<1> HIDE DEF L, base
<1>4. /\ L[0] = base
      /\ \A n \in 1..Len(chunks) : n - 1 \in 0..Len(chunks) /\ L[n] = Turn("layer", L[n - 1], chunks[n])
  BY <1>1, <1>3, TurnsAre
<1>5. DOMAIN L = 0..Len(chunks)
  BY <1>3 DEF Turns
<1>6. base = [i \in 1..Len(chunks) |-> Leaf(chunks[i])]
  BY <1>1 DEF base
<1>. QED
  BY <1>2, <1>4, <1>5, <1>6 DEF L

\* A layer above another.
LEMMA AboveIs ==
  ASSUME NEW layer, IsSeq(layer)
  PROVE  /\ IsSeq(Above(layer))
         /\ Len(layer) <= Fanout * Len(Above(layer))
         /\ Fanout * Len(Above(layer)) < Len(layer) + Fanout
         /\ \A i \in 1..Len(Above(layer)) : Above(layer)[i] = Parent(Siblings(layer, i))
<1> DEFINE c == (Len(layer) + Fanout - 1) \div Fanout
           q == Above(layer)
<1>1. Len(layer) \in Nat /\ Fanout \in Nat \ {0}
  BY SeqParts, UnixFsAssumption
<1>2. c \in Nat /\ Len(layer) <= Fanout * c /\ Fanout * c < Len(layer) + Fanout
  BY <1>1, RoundedUp
<1>3. q = [i \in 1..c |-> Parent(Siblings(layer, i))]
  BY DEF Above
<1> HIDE DEF c
<1>4. q = [i \in 1..c |-> q[i]] /\ \A i \in 1..c : q[i] = Parent(Siblings(layer, i))
  BY <1>3
<1> HIDE DEF q
<1>5. IsSeq(q) /\ Len(q) = c
  BY <1>2, <1>4, ValuesAreSeq
<1>. QED
  BY <1>2, <1>4, <1>5 DEF q

\* The children of a node of a layer.
LEMMA SiblingsAre ==
  ASSUME NEW s, IsSeq(s), NEW p \in Nat, NEW e, Fanout * p <= Len(s),
         e = IF Fanout * p + Fanout <= Len(s) THEN Fanout * p + Fanout ELSE Len(s)
  PROVE  Siblings(s, p + 1) = Part(s, Fanout * p, e)
<1>1. Len(s) \in Nat /\ Fanout \in Nat \ {0}
  BY SeqParts, UnixFsAssumption
<1>2. (p + 1 - 1) * Fanout = Fanout * p /\ (p + 1) * Fanout = Fanout * p + Fanout
  BY <1>1
<1> DEFINE f == Fanout * p + Fanout
<1>3. f \in Nat
  BY <1>1
<1> HIDE DEF f
<1>4. Min({f, Len(s)}) = IF f <= Len(s) THEN f ELSE Len(s)
  BY <1>1, <1>3 DEF Min
<1> DEFINE i == p + 1
           x == (i - 1) * Fanout
           y == i * Fanout
           z == Min({y, Len(s)})
<1>5. x = Fanout * p /\ y = f
  BY <1>2 DEF f
<1>6. Siblings(s, i) = SubSeq(s, x + 1, z)
  BY DEF Siblings
<1> HIDE DEF x, i
<1>7. z = e
  BY <1>4, <1>5 DEF f
<1> HIDE DEF z
<1>. QED
  BY <1>5, <1>6, <1>7 DEF Part, i

\* A layer and the one below it.
LEMMA LayerAbove ==
  ASSUME NEW chunks, IsSeq(chunks), NEW n \in 1..Len(chunks), IsSeq(Layers(chunks)[n - 1])
  PROVE  /\ IsSeq(Layers(chunks)[n])
         /\ Len(Layers(chunks)[n - 1]) <= Fanout * Len(Layers(chunks)[n])
         /\ Fanout * Len(Layers(chunks)[n]) < Len(Layers(chunks)[n - 1]) + Fanout
         /\ \A i \in 1..Len(Layers(chunks)[n]) : Layers(chunks)[n][i] = Parent(Siblings(Layers(chunks)[n - 1], i))
<1> DEFINE below == Layers(chunks)[n - 1]
           above == Layers(chunks)[n]
<1>1. above = Above(below)
  BY LayersAre
<1>2. IsSeq(below)
  OBVIOUS
<1> HIDE DEF below, above
<1>3. /\ IsSeq(Above(below))
      /\ Len(below) <= Fanout * Len(Above(below))
      /\ Fanout * Len(Above(below)) < Len(below) + Fanout
      /\ \A i \in 1..Len(Above(below)) : Above(below)[i] = Parent(Siblings(below, i))
  BY <1>2, AboveIs
<1>. QED
  BY <1>1, <1>3 DEF below, above

\* Every layer has nodes, and fewer than the one below until one is left.
LEMMA LayerSizes ==
  ASSUME NEW chunks, IsSeq(chunks), Len(chunks) > 0
  PROVE  \A n \in 0..Len(chunks) :
            /\ IsSeq(Layers(chunks)[n]) /\ Len(Layers(chunks)[n]) \in Nat
            /\ Len(Layers(chunks)[n]) >= 1
            /\ Len(Layers(chunks)[n]) = 1 \/ Len(Layers(chunks)[n]) + n <= Len(chunks)
<1> DEFINE L == Layers(chunks)
           K == Len(chunks)
           T == {n \in Nat : /\ IsSeq(L[n]) /\ Len(L[n]) \in Nat /\ Len(L[n]) >= 1
                             /\ Len(L[n]) = 1 \/ Len(L[n]) + n <= K}
<1>1. K \in Nat /\ K > 0 /\ Fanout \in Nat \ {0, 1}
  BY SeqParts, UnixFsAssumption
<1>2. 0 \in T
  <2>1. L[0] = [i \in 1..K |-> Leaf(chunks[i])]
    BY LayersAre
  <2> DEFINE q == L[0]
  <2>2. q = [i \in 1..K |-> q[i]]
    BY <2>1
  <2> HIDE DEF q, L
  <2>3. IsSeq(q) /\ Len(q) = K
    BY <1>1, <2>2, ValuesAreSeq
  <2>. QED
    BY <1>1, <2>3 DEF q
<1>3. ASSUME NEW n \in 0..K, n \in T, n < K PROVE n + 1 \in T
  <2> DEFINE m == n + 1
             a == Len(L[n])
             c == Len(L[m])
  <2>1. m \in 1..K /\ m - 1 = n /\ m \in Nat
    BY <1>1, <1>3
  <2>2. IsSeq(L[n]) /\ a \in Nat /\ a >= 1 /\ (a = 1 \/ a + n <= K)
    BY <1>3
  <2>3. IsSeq(L[m]) /\ a <= Fanout * c /\ Fanout * c < a + Fanout
    <3>1. IsSeq(Layers(chunks)[m - 1])
      BY <2>1, <2>2
    <3>2. IsSeq(chunks) /\ m \in 1..Len(chunks)
      BY <2>1
    <3> HIDE DEF m
    <3>3. /\ IsSeq(Layers(chunks)[m]) 
          /\ Len(Layers(chunks)[m - 1]) <= Fanout * Len(Layers(chunks)[m])
          /\ Fanout * Len(Layers(chunks)[m]) < Len(Layers(chunks)[m - 1]) + Fanout
      BY <3>1, <3>2, LayerAbove
    <3>. QED
      BY <2>1, <3>3
  <2>4. c \in Nat
    BY <2>3, SeqParts
  <2> HIDE DEF m, a, c, L
  <2>5. c >= 1
    <3>1. CASE c = 0
      <4>1. Fanout * c = 0
        BY <1>1, <3>1
      <4>. QED
        BY <2>2, <2>3, <4>1
    <3>. QED
      BY <2>4, <3>1
  <2>6. c = 1 \/ c + m <= K
    <3>1. CASE a = 1
      <4>1. Fanout * c < Fanout * 1 + Fanout
        <5>1. Fanout * 1 = Fanout /\ Fanout * c < 1 + Fanout /\ Fanout > 1
          BY <1>1, <2>3, <3>1
        <5>2. Fanout * c \in Nat
          BY <1>1, <2>4
        <5>. QED
          BY <1>1, <5>1, <5>2
      <4>2. c <= 1
        BY <1>1, <2>4, <4>1, Products
      <4>. QED
        BY <2>4, <2>5, <4>2
    <3>2. CASE a # 1
      <4>1. a > 1 /\ a + n <= K
        BY <2>2, <3>2
      <4>2. c < a
        BY <1>1, <2>2, <2>3, <2>4, <4>1, FewerGroups
      <4>. QED
        BY <1>1, <2>1, <2>2, <2>4, <4>1, <4>2
    <3>. QED
      BY <3>1, <3>2
  <2>7. m \in T
    BY <2>1, <2>3, <2>4, <2>5, <2>6 DEF c
  <2>. QED
    BY <2>7 DEF m
<1>4. \A n \in 0..K : n \in T
  <2> HIDE DEF T, K
  <2>. QED
    BY <1>1, <1>2, <1>3, Ascent
<1>. QED
  BY <1>4

\* The root's layer is the lowest with one node.
LEMMA HeightIs ==
  ASSUME NEW chunks, IsSeq(chunks), Len(chunks) > 0
  PROVE  /\ Height(chunks) \in 0..Len(chunks)
         /\ Len(Layers(chunks)[Height(chunks)]) = 1
         /\ \A m \in 0..(Height(chunks) - 1) : Len(Layers(chunks)[m]) > 1
<1> DEFINE L == Layers(chunks)
           K == Len(chunks)
           T == {n \in 0..K : Len(L[n]) = 1}
           Lowest(n) == Len(L[n]) = 1 /\ \A m \in 0..(n - 1) : Len(L[m]) > 1
<1>1. K \in Nat
  BY SeqParts
<1>2. \A n \in 0..K : Len(L[n]) \in Nat /\ Len(L[n]) >= 1 /\ (Len(L[n]) = 1 \/ Len(L[n]) + n <= K)
  BY LayerSizes
<1>3. DOMAIN L = 0..K
  BY LayersAre
<1>4. \E n \in DOMAIN L : Lowest(n)
  <2> HIDE DEF L, K
  <2>1. T # {}
    <3>1. K \in 0..K
      BY <1>1
    <3>2. Len(L[K]) \in Nat /\ Len(L[K]) >= 1 /\ (Len(L[K]) = 1 \/ Len(L[K]) + K <= K)
      BY <1>2, <3>1
    <3>3. Len(L[K]) = 1
      BY <1>1, <3>2
    <3>. QED
      BY <3>1, <3>3
  <2>2. PICK n \in T : \A k \in T : n <= k
    <3>1. T \in SUBSET Nat
      OBVIOUS
    <3> HIDE DEF T
    <3>. QED
      BY <2>1, <3>1, LeastNat
  <2>3. n \in 0..K /\ Len(L[n]) = 1
    OBVIOUS
  <2>4. ASSUME NEW m \in 0..(n - 1) PROVE Len(L[m]) > 1
    <3>1. m \in 0..K /\ ~(n <= m)
      BY <1>1, <2>3
    <3>2. m \notin T
      <4> HIDE DEF T
      <4>. QED
        BY <2>2, <3>1
    <3>3. Len(L[m]) # 1
      BY <3>1, <3>2
    <3>4. Len(L[m]) \in Nat /\ Len(L[m]) >= 1
      BY <1>2, <3>1
    <3> DEFINE x == Len(L[m])
    <3> HIDE DEF x
    <3>5. x \in Nat /\ x >= 1 /\ x # 1
      BY <3>3, <3>4 DEF x
    <3>6. x > 1
      BY <3>5
    <3>. QED
      BY <3>6 DEF x
  <2>. QED
    BY <1>3, <2>3, <2>4
<1>5. Height(chunks) = CHOOSE n \in DOMAIN L : Lowest(n)
  BY DEF Height
<1> HIDE DEF Lowest
<1>6. Height(chunks) \in DOMAIN L /\ Lowest(Height(chunks))
  BY <1>4, <1>5
<1>. QED
  BY <1>3, <1>6 DEF Lowest

(***************************************************************************)
(* Concatenations.                                                         *)
(***************************************************************************)
\* The empty sequence adds nothing.
LEMMA WithNone ==
  ASSUME NEW q, IsSeq(q)
  PROVE  q \o <<>> = q /\ <<>> \o q = q
<1>1. q \in Seq(ToSet(q))
  BY DEF IsSeq
<1>. QED
  BY <1>1, ConcatEmptySeq

\* Joining is associative.
LEMMA Regrouped ==
  ASSUME NEW q, NEW r, NEW s, IsSeq(q), IsSeq(r), IsSeq(s)
  PROVE  (q \o r) \o s = q \o (r \o s)
<1> DEFINE S == ToSet(q) \cup ToSet(r) \cup ToSet(s)
<1>1. q \in Seq(ToSet(q)) /\ r \in Seq(ToSet(r)) /\ s \in Seq(ToSet(s))
  BY DEF IsSeq
<1>2. ToSet(q) \subseteq S /\ ToSet(r) \subseteq S /\ ToSet(s) \subseteq S
  OBVIOUS
<1> HIDE DEF S
<1>3. q \in Seq(S) /\ r \in Seq(S) /\ s \in Seq(S)
  BY <1>1, <1>2
<1>. QED
  BY <1>3, ConcatAssociative

\* FlattenSeq of none is none.
LEMMA FlattenNone == FlattenSeq(<<>>) = <<>>
<1>1. Len(<<>>) = 0
  BY NoneSeq
<1>. QED
  BY <1>1 DEF FlattenSeq

\* What FlattenSeq computes, a sequence of q at a time.
Flattened(f, q) ==
  f = [i \in 1..Len(q) |-> IF i = 1 THEN q[i] ELSE f[i - 1] \o q[i]]

\* FlattenSeq is what the last of the sequences is joined to.
LEMMA FlattenIs ==
  ASSUME NEW q, Len(q) \in Nat, Len(q) > 0
  PROVE  \E f : Flattened(f, q) /\ FlattenSeq(q) = f[Len(q)]
<1> DEFINE n == Len(q)
           Next1(f) == [i \in 1..Len(q) |-> IF i = 1 THEN q[i] ELSE f[i - 1] \o q[i]]
           done == CHOOSE f : f = Next1(f)
           rest == [k \in 1..(n - 1) |-> q[k + 1]]
           m == n - 1
<1>1. m \in Nat /\ n \in Nat
  OBVIOUS
<1>2. PICK after : Turns(after, "flatten", q[1], rest, m)
  BY <1>1, TurnsExist
<1>3. after[0] = q[1] /\ \A k \in 1..m : k - 1 \in 0..m /\ after[k] = after[k - 1] \o q[k + 1]
  <2>1. ASSUME NEW now, NEW v PROVE Turn("flatten", now, v) = now \o v
    BY DEF Turn
  <2>2. \A k \in 1..m : rest[k] = q[k + 1]
    OBVIOUS
  <2> HIDE DEF rest, m
  <2>3. m \in Nat /\ Turns(after, "flatten", q[1], rest, m)
    BY <1>1, <1>2
  <2>4. after[0] = q[1] /\ \A k \in 1..m : k - 1 \in 0..m /\ after[k] = Turn("flatten", after[k - 1], rest[k])
    BY ONLY <2>3, TurnsAre
  <2>. QED
    BY <2>1, <2>2, <2>4
<1> DEFINE f == [i \in 1..n |-> after[i - 1]]
<1>4. Flattened(f, q)
  <2>1. ASSUME NEW i \in 1..n PROVE f[i] = IF i = 1 THEN q[i] ELSE f[i - 1] \o q[i]
    <3>1. f[i] = after[i - 1]
      OBVIOUS
    <3>2. CASE i = 1
      BY <1>3, <3>1, <3>2
    <3>3. CASE i # 1
      <4> DEFINE k == i - 1
      <4>1. k \in 1..m /\ k + 1 = i /\ k \in 1..n
        BY <1>1, <3>3
      <4>2. f[k] = after[k - 1]
        BY <4>1
      <4>3. after[k] = after[k - 1] \o q[k + 1]
        BY <1>3, <4>1
      <4>. QED
        BY <3>1, <3>3, <4>1, <4>2, <4>3
    <3>. QED
      BY <3>2, <3>3
  <2>2. f = [i \in 1..n |-> f[i]]
    OBVIOUS
  <2> HIDE DEF f
  <2>. QED
    BY <2>1, <2>2 DEF Flattened
<1>5. f = Next1(f)
  BY <1>4, Zenon DEF Flattened
<1> HIDE DEF Next1, f
<1>6. done = Next1(done)
  BY <1>5, Zenon
<1>7. Flattened(done, q)
  BY <1>6, Zenon DEF Flattened, Next1
<1>8. FlattenSeq(q) = done[Len(q)]
  BY <1>1 DEF FlattenSeq, Next1
<1>. QED
  BY <1>7, <1>8

\* A sequence of q is joined to those before it.
LEMMA FlattenedAre ==
  ASSUME NEW f, NEW q, Len(q) \in Nat, Flattened(f, q)
  PROVE  \A i \in 1..Len(q) : f[i] = IF i = 1 THEN q[i] ELSE f[i - 1] \o q[i]
BY DEF Flattened

\* One more sequence is appended.
LEMMA FlattenGrows ==
  ASSUME NEW q, IsSeq(q), NEW x, IsSeq(x)
  PROVE  FlattenSeq(q \o <<x>>) = FlattenSeq(q) \o x
<1> DEFINE r == q \o <<x>>
           n == Len(q)
<1>1. n \in Nat /\ Len(r) = n + 1 /\ r[n + 1] = x
  <2>1. Append(q, x) = q \o <<x>>
    BY Appended
  <2>2. Len(Append(q, x)) = Len(q) + 1
    BY Appended
  <2>3. Append(q, x)[Len(q) + 1] = x
    BY Appended
  <2>. QED
    BY <2>1, <2>2, <2>3, SeqParts
<1>2. \A i \in 1..n : r[i] = q[i]
  <2>1. Append(q, x) = q \o <<x>>
    BY Appended
  <2>2. \A i \in 1..Len(q) : Append(q, x)[i] = q[i]
    BY Appended
  <2>. QED
    BY <2>1, <2>2
<1> HIDE DEF r, n
<1>3. PICK g : Flattened(g, r) /\ FlattenSeq(r) = g[Len(r)]
  BY <1>1, FlattenIs
<1>4. \A i \in 1..(n + 1) : g[i] = IF i = 1 THEN r[i] ELSE g[i - 1] \o r[i]
  <2>1. \A i \in 1..Len(r) : g[i] = IF i = 1 THEN r[i] ELSE g[i - 1] \o r[i]
    BY <1>1, <1>3, FlattenedAre
  <2>. QED
    BY <1>1, <2>1
<1>5. CASE n = 0
  <2>1. q = <<>>
    BY <1>5, EmptyIs DEF n
  <2>2. FlattenSeq(r) = x
    BY <1>1, <1>3, <1>4, <1>5
  <2>3. FlattenSeq(q) = <<>>
    BY <2>1, FlattenNone
  <2>. QED
    BY <2>2, <2>3, WithNone DEF r
<1>6. CASE n # 0
  <2>1. PICK f : Flattened(f, q) /\ FlattenSeq(q) = f[Len(q)]
    BY <1>1, <1>6, FlattenIs DEF n
  <2>2. \A i \in 1..n : f[i] = IF i = 1 THEN q[i] ELSE f[i - 1] \o q[i]
    BY <1>1, <2>1, FlattenedAre DEF n
  <2> DEFINE T == {i \in Nat : i = 0 \/ f[i] = g[i]}
  <2>3. 0 \in T
    OBVIOUS
  <2>4. ASSUME NEW i \in 0..n, i \in T, i < n PROVE i + 1 \in T
    <3> DEFINE k == i + 1
    <3>1. k \in 1..n /\ k \in 1..(n + 1) /\ k - 1 = i /\ k \in Nat
      BY <1>1, <2>4
    <3>2. f[k] = IF k = 1 THEN q[k] ELSE f[k - 1] \o q[k]
      BY <2>2, <3>1
    <3>3. g[k] = IF k = 1 THEN q[k] ELSE g[k - 1] \o q[k]
      BY <1>2, <1>4, <3>1
    <3>4. k # 1 => f[k - 1] = g[k - 1]
      BY <2>4, <3>1
    <3> HIDE DEF k
    <3>5. f[k] = g[k]
      BY <3>2, <3>3, <3>4
    <3>6. k \in T
      BY <3>1, <3>5
    <3>. QED
      BY <3>6 DEF k
  <2>5. n \in T
    <3> HIDE DEF T
    <3>1. \A k \in 0..n : k \in T
      BY <1>1, <2>3, <2>4, Ascent
    <3>. QED
      BY <1>1, <3>1
  <2>6. f[n] = g[n]
    BY <1>6, <2>5
  <2>7. g[n + 1] = g[n] \o x
    <3> DEFINE k == n + 1
    <3>1. k \in 1..(n + 1) /\ k # 1 /\ k - 1 = n
      BY <1>1, <1>6
    <3>2. g[k] = g[k - 1] \o r[k]
      BY <1>4, <3>1
    <3>. QED
      BY <1>1, <3>1, <3>2
  <2>. QED
    BY <1>1, <1>3, <2>1, <2>6, <2>7 DEF n, r
<1>. QED
  BY <1>5, <1>6

\* A part that is one longer.
LEMMA FlattenPart ==
  ASSUME NEW s, NEW a \in Nat, NEW b \in Nat, a <= b, IsSeq(s[b + 1])
  PROVE  FlattenSeq(Part(s, a, b + 1)) = FlattenSeq(Part(s, a, b)) \o s[b + 1]
<1> DEFINE q == Part(s, a, b)
           x == s[b + 1]
<1>1. q \o <<x>> = Part(s, a, b + 1)
  BY PartGrows
<1>2. IsSeq(q)
  BY PartIs
<1>3. IsSeq(x)
  OBVIOUS
<1> HIDE DEF q, x
<1>4. FlattenSeq(q \o <<x>>) = FlattenSeq(q) \o x
  BY <1>2, <1>3, FlattenGrows
<1>. QED
  BY <1>1, <1>4 DEF q, x

\* What is flattened is a sequence.
LEMMA FlattenPartIs ==
  ASSUME NEW s, NEW a \in Nat, NEW b \in Nat, a <= b, \A k \in (a + 1)..b : IsSeq(s[k])
  PROVE  IsSeq(FlattenSeq(Part(s, a, b)))
<1> DEFINE n == b - a
           T == {i \in Nat : IsSeq(FlattenSeq(Part(s, a, a + i)))}
<1>1. n \in Nat
  OBVIOUS
<1>2. 0 \in T
  <2>1. a + 0 = a /\ FlattenSeq(Part(s, a, a)) = <<>>
    BY PartOfNone, FlattenNone
  <2>. QED
    BY <2>1, NoneSeq
<1>3. ASSUME NEW i \in 0..n, i \in T, i < n PROVE i + 1 \in T
  <2> DEFINE e == a + i
             k == i + 1
  <2>1. e \in Nat /\ a <= e /\ e + 1 \in (a + 1)..b /\ a + k = e + 1 /\ k \in Nat
    BY <1>3
  <2>2. IsSeq(FlattenSeq(Part(s, a, e)))
    BY <1>3
  <2> HIDE DEF e, k
  <2>3. IsSeq(s[e + 1])
    BY <2>1
  <2>4. FlattenSeq(Part(s, a, e + 1)) = FlattenSeq(Part(s, a, e)) \o s[e + 1]
    BY <2>1, <2>3, FlattenPart
  <2>5. IsSeq(FlattenSeq(Part(s, a, e + 1)))
    <3> DEFINE q == FlattenSeq(Part(s, a, e))
               x == s[e + 1]
    <3>1. IsSeq(q) /\ IsSeq(x) /\ FlattenSeq(Part(s, a, e + 1)) = q \o x
      BY <2>2, <2>3, <2>4
    <3> HIDE DEF q, x
    <3>2. IsSeq(q \o x)
      BY <3>1, Joined
    <3>. QED
      BY <3>1, <3>2
  <2>6. k \in T
    BY <2>1, <2>5
  <2>. QED
    BY <2>6 DEF k
<1>4. n \in T
  <2> HIDE DEF T
  <2>1. \A k \in 0..n : k \in T
    BY <1>1, <1>2, <1>3, Ascent
  <2>. QED
    BY <1>1, <2>1
<1>5. a + n = b
  OBVIOUS
<1>. QED
  BY <1>4, <1>5

(***************************************************************************)
(* The orders of a layer's nodes.                                          *)
(***************************************************************************)
\* Orders is its turns.
LEMMA OrderTurns ==
  ASSUME NEW chunks, Len(chunks) \in Nat
  PROVE  Turns(Orders(chunks), "order", [i \in DOMAIN chunks |-> <<Leaf(chunks[i])>>], Layers(chunks), Len(chunks))
<1> DEFINE base == [i \in DOMAIN chunks |-> <<Leaf(chunks[i])>>]
           Next1(after) == [n \in 0..Len(chunks) |->
                              IF n = 0 THEN base ELSE OrdersAbove(after[n - 1], Layers(chunks)[n])]
           done == CHOOSE after : after = Next1(after)
<1>1. ASSUME NEW now, NEW v PROVE Turn("order", now, v) = OrdersAbove(now, v)
  BY DEF Turn
<1> HIDE DEF base
<1>2. ASSUME NEW after
      PROVE  Next1(after) = [n \in 0..Len(chunks) |->
                               IF n = 0 THEN base ELSE Turn("order", after[n - 1], Layers(chunks)[n])]
  BY <1>1, Zenon
<1>3. PICK f : Turns(f, "order", base, Layers(chunks), Len(chunks))
  BY TurnsExist
<1>4. f = Next1(f)
  BY <1>2, <1>3, Zenon DEF Turns
<1> HIDE DEF Next1
<1>5. done = Next1(done)
  BY <1>4, Zenon
<1>6. Turns(done, "order", base, Layers(chunks), Len(chunks))
  BY <1>2, <1>5, Zenon DEF Turns
<1>7. Orders(chunks) = done
  BY DEF Orders, Next1, base
<1>. QED
  BY <1>6, <1>7 DEF base

\* The orders of a layer from those of the layer below.
LEMMA OrdersAboveIs ==
  ASSUME NEW orders, NEW layer, IsSeq(layer)
  PROVE  /\ IsSeq(OrdersAbove(orders, layer)) /\ Len(OrdersAbove(orders, layer)) = Len(layer)
         /\ \A i \in 1..Len(layer) :
               OrdersAbove(orders, layer)[i] = Append(FlattenSeq(Siblings(orders, i)), layer[i])
<1> DEFINE q == OrdersAbove(orders, layer)
           n == Len(layer)
<1>1. n \in Nat /\ DOMAIN layer = 1..n
  BY SeqParts
<1>2. q = [i \in 1..n |-> q[i]] /\ \A i \in 1..n : q[i] = Append(FlattenSeq(Siblings(orders, i)), layer[i])
  BY <1>1 DEF OrdersAbove
<1> HIDE DEF q, n
<1>3. IsSeq(q) /\ Len(q) = n
  BY <1>1, <1>2, ValuesAreSeq
<1>. QED
  BY <1>2, <1>3 DEF q, n

\* The orders of a layer: those of the children, then the node.
LEMMA OrdersAre ==
  ASSUME NEW chunks, IsSeq(chunks), Len(chunks) > 0
  PROVE  /\ \A i \in 1..Len(chunks) : Orders(chunks)[0][i] = <<Leaf(chunks[i])>>
         /\ \A n \in 1..Len(chunks) : \A i \in 1..Len(Layers(chunks)[n]) :
               Orders(chunks)[n][i] = Append(FlattenSeq(Siblings(Orders(chunks)[n - 1], i)), Layers(chunks)[n][i])
         /\ \A n \in 0..Len(chunks) : /\ IsSeq(Orders(chunks)[n])
                                      /\ Len(Orders(chunks)[n]) = Len(Layers(chunks)[n])
<1> DEFINE K == Len(chunks)
           L == Layers(chunks)
           O == Orders(chunks)
           base == [i \in DOMAIN chunks |-> <<Leaf(chunks[i])>>]
<1>1. K \in Nat /\ DOMAIN chunks = 1..K
  BY SeqParts
<1>2. \A n \in 0..K : IsSeq(L[n]) /\ Len(L[n]) \in Nat
  BY LayerSizes
<1>3. O[0] = base /\ \A n \in 1..K : n - 1 \in 0..K /\ O[n] = OrdersAbove(O[n - 1], L[n])
  <2>1. ASSUME NEW now, NEW v PROVE Turn("order", now, v) = OrdersAbove(now, v)
    BY DEF Turn
  <2>2. K \in Nat /\ Turns(O, "order", base, L, K)
    BY <1>1, OrderTurns
  <2> HIDE DEF O, base, L, K
  <2>3. O[0] = base /\ \A n \in 1..K : n - 1 \in 0..K /\ O[n] = Turn("order", O[n - 1], L[n])
    BY ONLY <2>2, TurnsAre
  <2>. QED
    BY <2>1, <2>3
<1>4. base = [i \in 1..K |-> base[i]] /\ \A i \in 1..K : base[i] = <<Leaf(chunks[i])>>
  BY <1>1
<1> HIDE DEF base, O
<1>5. IsSeq(O[0]) /\ Len(O[0]) = Len(L[0])
  <2>1. IsSeq(base) /\ Len(base) = K
    <3> HIDE DEF K
    <3>. QED
      BY <1>1, <1>4, ValuesAreSeq
  <2>2. Len(L[0]) = K
    <3>1. L[0] = [i \in 1..K |-> Leaf(chunks[i])]
      BY LayersAre
    <3> DEFINE q == L[0]
    <3>2. q = [i \in 1..K |-> q[i]]
      BY <3>1
    <3> HIDE DEF q, K
    <3>3. Len(q) = K
      BY <1>1, <3>2, ValuesAreSeq
    <3>. QED
      BY <3>3 DEF q
  <2>. QED
    BY <1>3, <2>1, <2>2
<1>6. \A i \in 1..K : O[0][i] = <<Leaf(chunks[i])>>
  BY <1>3, <1>4
<1> HIDE DEF L, K
<1>7. ASSUME NEW n \in 1..K
      PROVE  /\ IsSeq(O[n]) /\ Len(O[n]) = Len(L[n])
             /\ \A i \in 1..Len(L[n]) : O[n][i] = Append(FlattenSeq(Siblings(O[n - 1], i)), L[n][i])
  <2>1. IsSeq(L[n])
    BY <1>1, <1>2
  <2>2. O[n] = OrdersAbove(O[n - 1], L[n])
    BY <1>3
  <2> DEFINE layer == L[n]
             orders == O[n - 1]
  <2> HIDE DEF layer, orders
  <2>3. IsSeq(layer) /\ O[n] = OrdersAbove(orders, layer)
    BY <2>1, <2>2 DEF layer, orders
  <2>4. /\ IsSeq(OrdersAbove(orders, layer)) /\ Len(OrdersAbove(orders, layer)) = Len(layer)
        /\ \A i \in 1..Len(layer) :
               OrdersAbove(orders, layer)[i] = Append(FlattenSeq(Siblings(orders, i)), layer[i])
    BY <2>3, OrdersAboveIs
  <2>. QED
    BY <2>3, <2>4 DEF layer, orders
<1>8. ASSUME NEW n \in 0..K PROVE IsSeq(O[n]) /\ Len(O[n]) = Len(L[n])
  <2>1. n = 0 \/ n \in 1..K
    BY <1>1
  <2>. QED
    BY <1>5, <1>7, <2>1
<1>. QED
  BY <1>6, <1>7, <1>8 DEF O, L, K

\* The order of a node is that of its children, left to right, and the node.
LEMMA OrderAbove ==
  ASSUME NEW chunks, IsSeq(chunks), Len(chunks) > 0, NEW n \in 1..Len(chunks), NEW p \in Nat,
         p < Len(Layers(chunks)[n]), NEW e, Fanout * p <= Len(Layers(chunks)[n - 1]),
         e = IF Fanout * p + Fanout <= Len(Layers(chunks)[n - 1]) THEN Fanout * p + Fanout
             ELSE Len(Layers(chunks)[n - 1])
  PROVE  Orders(chunks)[n][p + 1]
            = Append(FlattenSeq(Part(Orders(chunks)[n - 1], Fanout * p, e)), Layers(chunks)[n][p + 1])
<1> DEFINE s == Orders(chunks)[n - 1]
           i == p + 1
<1>1. n - 1 \in 0..Len(chunks) /\ Len(chunks) \in Nat
  BY SeqParts
<1>2. IsSeq(s) /\ Len(s) = Len(Layers(chunks)[n - 1])
  BY <1>1, OrdersAre
<1>3. i \in 1..Len(Layers(chunks)[n])
  <2>1. Len(Layers(chunks)[n]) \in Nat
    <3>1. n \in 0..Len(chunks)
      BY <1>1
    <3>. QED
      BY <3>1, LayerSizes
  <2>. QED
    BY <2>1
<1>4. Orders(chunks)[n][i] = Append(FlattenSeq(Siblings(s, i)), Layers(chunks)[n][i])
  BY <1>3, OrdersAre
<1> HIDE DEF s
<1>5. Siblings(s, p + 1) = Part(s, Fanout * p, e)
  BY <1>2, SiblingsAre
<1>. QED
  BY <1>4, <1>5 DEF s

\* The orders are sequences.
LEMMA OrderIsSeq ==
  ASSUME NEW chunks, IsSeq(chunks), Len(chunks) > 0
  PROVE  \A n \in 0..Len(chunks) : \A i \in 1..Len(Layers(chunks)[n]) : IsSeq(Orders(chunks)[n][i])
<1> DEFINE K == Len(chunks)
           L == Layers(chunks)
           O == Orders(chunks)
           T == {n \in Nat : \A i \in 1..Len(L[n]) : IsSeq(O[n][i])}
<1>1. K \in Nat /\ Fanout \in Nat \ {0, 1}
  BY SeqParts, UnixFsAssumption
<1>2. \A n \in 0..K : IsSeq(L[n]) /\ Len(L[n]) \in Nat
  BY LayerSizes
<1>3. \A n \in 0..K : IsSeq(O[n]) /\ Len(O[n]) = Len(L[n])
  BY OrdersAre
<1>4. 0 \in T
  <2>1. Len(L[0]) = K
    <3>1. L[0] = [i \in 1..K |-> Leaf(chunks[i])]
      BY LayersAre
    <3> DEFINE q == L[0]
    <3>2. q = [i \in 1..K |-> q[i]]
      BY <3>1
    <3> HIDE DEF q, K
    <3>3. Len(q) = K
      BY <1>1, <3>2, ValuesAreSeq
    <3>. QED
      BY <3>3 DEF q
  <2>2. ASSUME NEW i \in 1..Len(L[0]) PROVE IsSeq(O[0][i])
    <3>1. O[0][i] = <<Leaf(chunks[i])>>
      BY <2>1, OrdersAre
    <3>. QED
      BY <3>1, OneSeq
  <2>. QED
    BY <2>2
<1>5. ASSUME NEW k \in 0..K, k \in T, k < K PROVE k + 1 \in T
  <2> DEFINE n == k + 1
             d == Len(L[k])
             c == Len(L[n])
  <2>1. n \in 1..K /\ n \in 0..K /\ n - 1 = k /\ n \in Nat
    BY <1>1, <1>5
  <2>2. d \in Nat /\ c \in Nat /\ IsSeq(L[k]) /\ IsSeq(L[n])
    BY <1>2, <2>1
  <2>3. d <= Fanout * c /\ Fanout * c < d + Fanout
    <3>1. IsSeq(Layers(chunks)[n - 1])
      BY <2>1, <2>2
    <3> HIDE DEF n
    <3>2. /\ Len(Layers(chunks)[n - 1]) <= Fanout * Len(Layers(chunks)[n])
          /\ Fanout * Len(Layers(chunks)[n]) < Len(Layers(chunks)[n - 1]) + Fanout
      BY <2>1, <3>1, LayerAbove
    <3>. QED
      BY <2>1, <3>2
  <2>4. \A i \in 1..d : IsSeq(O[k][i])
    BY <1>5
  <2>5. ASSUME NEW i \in 1..c PROVE IsSeq(O[n][i])
    <3> DEFINE p == i - 1
               a == Fanout * p
               e == IF a + Fanout <= d THEN a + Fanout ELSE d
               q == FlattenSeq(Part(O[k], a, e))
    <3> HIDE DEF c, d, n
    <3>1. p \in Nat /\ p + 1 = i /\ p < c
      BY <2>2
    <3>2. a \in Nat /\ a < d
      <4>1. Fanout * p \in Nat
        BY <1>1, <3>1, Products
      <4>2. p < c => Fanout * p + Fanout <= Fanout * c
        BY <1>1, <2>2, <3>1, Products
      <4>3. Fanout * c \in Nat
        BY <1>1, <2>2, Products
      <4> DEFINE y == Fanout * c
      <4> HIDE DEF p, y
      <4>. QED
        BY <1>1, <2>2, <2>3, <3>1, <4>1, <4>2, <4>3 DEF y
    <3>3. e \in Nat /\ a <= e /\ e <= d
      <4> HIDE DEF a
      <4>. QED
        BY <1>1, <2>2, <3>2
    <3>4. O[n][p + 1] = Append(q, L[n][p + 1])
      <4>1. /\ IsSeq(chunks) /\ Len(chunks) > 0 /\ n \in 1..Len(chunks) /\ p \in Nat
            /\ p < Len(Layers(chunks)[n]) /\ Fanout * p <= Len(Layers(chunks)[n - 1])
            /\ e = IF Fanout * p + Fanout <= Len(Layers(chunks)[n - 1]) THEN Fanout * p + Fanout
                   ELSE Len(Layers(chunks)[n - 1])
        BY <2>1, <2>2, <3>1, <3>2 DEF c, d
      <4> HIDE DEF p, e
      <4>2. Orders(chunks)[n][p + 1]
              = Append(FlattenSeq(Part(Orders(chunks)[n - 1], Fanout * p, e)), Layers(chunks)[n][p + 1])
        BY ONLY <4>1, OrderAbove
      <4>. QED
        BY <2>1, <4>2 DEF e
    <3>5. IsSeq(q)
      <4>1. \A j \in (a + 1)..e : IsSeq(O[k][j])
        <5> HIDE DEF a, e
        <5>1. \A j \in (a + 1)..e : j \in 1..d
          BY <2>2, <3>2, <3>3
        <5>. QED
          BY <2>4, <5>1
      <4> HIDE DEF a, e, O
      <4>. QED
        BY <3>2, <3>3, <4>1, FlattenPartIs
    <3> HIDE DEF q
    <3>6. IsSeq(Append(q, L[n][p + 1]))
      BY <3>5, Appended
    <3>. QED
      BY <3>1, <3>4, <3>6
  <2>6. n \in T
    BY <2>1, <2>5
  <2>. QED
    BY <2>6
<1>6. \A n \in 0..K : n \in T
  <2> HIDE DEF T, K
  <2>. QED
    BY <1>1, <1>4, <1>5, Ascent
<1>. QED
  BY <1>6

(***************************************************************************)
(* The builder.                                                            *)
(***************************************************************************)
\* A sequence with another element in a place.
Put(q, m, v) == [q EXCEPT ![m] = v]

\* A sequence with another element in a place.
LEMMA Replaced ==
  ASSUME NEW q, IsSeq(q), NEW m \in 1..Len(q), NEW v
  PROVE  /\ IsSeq(Put(q, m, v)) /\ Len(Put(q, m, v)) = Len(q)
         /\ Put(q, m, v)[m] = v
         /\ \A k \in 1..Len(q) : k # m => Put(q, m, v)[k] = q[k]
<1> DEFINE r == Put(q, m, v)
<1>1. Len(q) \in Nat /\ DOMAIN q = 1..Len(q)
  BY SeqParts
<1>2. r = [k \in 1..Len(q) |-> IF k = m THEN v ELSE q[k]]
  BY <1>1 DEF Put
<1>3. r = [k \in 1..Len(q) |-> r[k]] /\ r[m] = v /\ \A k \in 1..Len(q) : k # m => r[k] = q[k]
  BY <1>1, <1>2
<1> HIDE DEF r
<1>4. IsSeq(r) /\ Len(r) = Len(q)
  BY <1>1, <1>3, ValuesAreSeq
<1>. QED
  BY <1>3, <1>4 DEF r

BuilderOf(pending, pushed, emitted, up) ==
  [pending |-> pending, pushed |-> pushed, emitted |-> emitted, up |-> up]

IsBuilder(b) ==
  /\ b = BuilderOf(b.pending, b.pushed, b.emitted, b.up)
  /\ IsSeq(b.pending) /\ IsSeq(b.pushed) /\ Len(b.pending) = Len(b.pushed)

\* The fields of a builder.
LEMMA BuilderParts ==
  ASSUME NEW p, NEW q, NEW e, NEW u
  PROVE  /\ BuilderOf(p, q, e, u).pending = p /\ BuilderOf(p, q, e, u).pushed = q
         /\ BuilderOf(p, q, e, u).emitted = e /\ BuilderOf(p, q, e, u).up = u
BY DEF BuilderOf

Emitted(b, emitted, up) == [b EXCEPT !.emitted = emitted, !.up = up]
Waiting(b, pending) == [b EXCEPT !.pending = pending]

\* A builder with other emitted nodes and another link on its way.
LEMMA BuilderChanged ==
  ASSUME NEW p, NEW q, NEW e, NEW u, NEW x, NEW y
  PROVE  Emitted(BuilderOf(p, q, e, u), x, y) = BuilderOf(p, q, x, y)
<1>2. [BuilderOf(p, q, e, u) EXCEPT !.emitted = x] = BuilderOf(p, q, x, u)
  BY DEF BuilderOf
<1>3. [BuilderOf(p, q, x, u) EXCEPT !.up = y] = BuilderOf(p, q, x, y)
  BY DEF BuilderOf
<1>4. [BuilderOf(p, q, e, u) EXCEPT !.emitted = x, !.up = y]
         = [[BuilderOf(p, q, e, u) EXCEPT !.emitted = x] EXCEPT !.up = y]
  BY Zenon
<1>. QED
  BY <1>2, <1>3, <1>4 DEF Emitted

\* A builder with other waiting links.
LEMMA WaitingChanged ==
  ASSUME NEW p, NEW q, NEW e, NEW u, NEW x
  PROVE  Waiting(BuilderOf(p, q, e, u), x) = BuilderOf(x, q, e, u)
BY DEF BuilderOf, Waiting

\* emit, field by field.
LEMMA Emitting ==
  ASSUME NEW p, NEW q, NEW e, NEW u, NEW node
  PROVE  Emit(BuilderOf(p, q, e, u), node) = BuilderOf(p, q, Append(e, node), <<node>>)
<1> DEFINE b == BuilderOf(p, q, e, u)
<1>1. b.emitted = e
  BY BuilderParts
<1> HIDE DEF b
<1>2. Emit(b, node) = Emitted(b, Append(b.emitted, node), <<node>>)
  BY DEF Emit, Emitted
<1>3. Emit(b, node) = Emitted(b, Append(e, node), <<node>>)
  BY <1>1, <1>2
<1>. QED
  BY <1>3, BuilderChanged DEF b

\* reduce, field by field.
LEMMA Reducing ==
  ASSUME NEW p, NEW q, NEW e, NEW u, NEW m
  PROVE  Reduce(BuilderOf(p, q, e, u), m)
            = BuilderOf(Put(p, m, <<>>), q, Append(e, Parent(p[m])), <<Parent(p[m])>>)
<1> DEFINE b == BuilderOf(p, q, e, u)
           c == [b EXCEPT !.pending[m] = <<>>]
<1>1. b.pending = p
  BY BuilderParts
<1> HIDE DEF b
<1>2. c = Waiting(b, Put(b.pending, m, <<>>))
  BY DEF Waiting, Put
<1>3. c = Waiting(b, Put(p, m, <<>>))
  BY <1>1, <1>2
<1> HIDE DEF c
<1>4. c = BuilderOf(Put(p, m, <<>>), q, e, u)
  BY <1>3, WaitingChanged DEF b
<1>5. Reduce(b, m) = Emit(c, Parent(b.pending[m]))
  BY DEF Reduce, c
<1>6. Reduce(b, m) = Emit(BuilderOf(Put(p, m, <<>>), q, e, u), Parent(p[m]))
  BY <1>1, <1>4, <1>5
<1>. QED
  BY <1>6, Emitting DEF b

\* Nodes that came to a level.
Came(b, m) == IF m \in 1..Len(b.pending) THEN b.pushed[m] ELSE 0

\* The links that wait on a level with the one on its way there.
Joining(b, m) == IF m = Len(b.pending) + 1 THEN b.up ELSE b.pending[m] \o b.up

\* What goes on up when w waits on a level.
GoesUp(w) == IF Len(w) < Fanout THEN <<>> ELSE <<Parent(w)>>

\* What a link that reaches a level does there: it waits, or makes it full.
LEMMA ReachIs ==
  ASSUME NEW b, IsBuilder(b), NEW m \in 1..(Len(b.pending) + 1), IsSeq(Joining(b, m))
  PROVE  /\ IsBuilder(Reach(b, m))
         /\ Len(Reach(b, m).pending) = IF m = Len(b.pending) + 1 THEN Len(b.pending) + 1 ELSE Len(b.pending)
         /\ \A x \in 1..Len(b.pending) : x # m => /\ Reach(b, m).pending[x] = b.pending[x]
                                                  /\ Reach(b, m).pushed[x] = b.pushed[x]
         /\ Reach(b, m).pushed[m] = Came(b, m) + 1
         /\ Reach(b, m).pending[m] = IF Len(Joining(b, m)) < Fanout THEN Joining(b, m) ELSE <<>>
         /\ Reach(b, m).up = GoesUp(Joining(b, m))
         /\ Reach(b, m).emitted = IF Len(Joining(b, m)) < Fanout THEN b.emitted ELSE Append(b.emitted, Parent(Joining(b, m)))
<1> DEFINE w == Joining(b, m)
<1>0. IsSeq(w) /\ w = IF m = Len(b.pending) + 1 THEN b.up ELSE b.pending[m] \o b.up
  BY DEF Joining
<1> HIDE DEF w
<1> DEFINE N == Len(b.pending)
           held == IF m > N
                   THEN [b EXCEPT !.pending = Append(@, b.up), !.pushed = Append(@, 1), !.up = <<>>]
                   ELSE [b EXCEPT !.pending[m] = @ \o b.up, !.pushed[m] = @ + 1, !.up = <<>>]
           p == IF m = N + 1 THEN Append(b.pending, b.up) ELSE Put(b.pending, m, w)
           q == IF m = N + 1 THEN Append(b.pushed, 1) ELSE Put(b.pushed, m, b.pushed[m] + 1)
           M == IF m = N + 1 THEN N + 1 ELSE N
<1>1. N \in Nat /\ Len(b.pushed) = N /\ IsSeq(b.pending) /\ IsSeq(b.pushed) /\ Fanout \in Nat /\ Len(w) \in Nat
  BY <1>0, SeqParts, UnixFsAssumption DEF IsBuilder
<1>2. b = BuilderOf(b.pending, b.pushed, b.emitted, b.up)
  BY DEF IsBuilder
<1>3. held = BuilderOf(p, q, b.emitted, <<>>)
  <2>1. CASE m = N + 1
    <3>1. held = [b EXCEPT !.pending = Append(@, b.up), !.pushed = Append(@, 1), !.up = <<>>]
      BY <1>1, <2>1
    <3>2. p = Append(b.pending, b.up) /\ q = Append(b.pushed, 1)
      BY <2>1
    <3> HIDE DEF p, q, held
    <3>3. held = BuilderOf(Append(b.pending, b.up), Append(b.pushed, 1), b.emitted, <<>>)
      BY <1>2, <3>1 DEF BuilderOf
    <3>. QED
      BY <3>2, <3>3
  <2>2. CASE m # N + 1
    <3>1. held = [b EXCEPT !.pending[m] = @ \o b.up, !.pushed[m] = @ + 1, !.up = <<>>]
      BY <1>1, <2>2
    <3>2. p = [b.pending EXCEPT ![m] = b.pending[m] \o b.up] /\ q = [b.pushed EXCEPT ![m] = b.pushed[m] + 1]
      BY <1>0, <2>2 DEF Put
    <3> HIDE DEF p, q, held
    <3>3. held = BuilderOf([b.pending EXCEPT ![m] = b.pending[m] \o b.up],
                           [b.pushed EXCEPT ![m] = b.pushed[m] + 1], b.emitted, <<>>)
      BY <1>2, <3>1 DEF BuilderOf
    <3>. QED
      BY <3>2, <3>3
  <2>. QED
    BY <2>1, <2>2
<1>4. /\ IsSeq(p) /\ IsSeq(q) /\ Len(p) = M /\ Len(q) = M
      /\ p[m] = w /\ q[m] = Came(b, m) + 1
      /\ \A x \in 1..N : x # m => p[x] = b.pending[x] /\ q[x] = b.pushed[x]
  <2>1. CASE m = N + 1
    <3>1. p = Append(b.pending, b.up) /\ q = Append(b.pushed, 1) /\ M = N + 1
      BY <2>1
    <3> HIDE DEF p, q, M
    <3>2. IsSeq(p) /\ Len(p) = N + 1
      BY <1>1, <3>1, Appended
    <3>2a. \A x \in 1..N : p[x] = b.pending[x]
      BY <1>1, <3>1, Appended
    <3>2b. p[N + 1] = b.up
      BY <1>1, <3>1, Appended
    <3>3. IsSeq(q) /\ Len(q) = Len(b.pushed) + 1
      BY <1>1, <3>1, Appended
    <3>3a. q[Len(b.pushed) + 1] = 1
      BY <1>1, <3>1, Appended
    <3>4. \A x \in 1..Len(b.pushed) : q[x] = b.pushed[x]
      BY <1>1, <3>1, Appended
    <3>5. Came(b, m) = 0
      BY <1>1, <2>1 DEF Came
    <3>. QED
      BY <1>0, <1>1, <2>1, <3>1, <3>2, <3>2a, <3>2b, <3>3, <3>3a, <3>4, <3>5
  <2>2. CASE m # N + 1
    <3> DEFINE v == b.pushed[m] + 1
               p2 == Put(b.pending, m, w)
               q2 == Put(b.pushed, m, v)
    <3>1. p = p2 /\ q = q2 /\ M = N
      BY <2>2
    <3>2. m \in 1..N /\ m \in 1..Len(b.pushed)
      BY <1>1, <2>2
    <3> HIDE DEF v, p, q, M
    <3>3. IsSeq(p2) /\ Len(p2) = N
      <4>1. IsSeq(b.pending) /\ m \in 1..Len(b.pending)
        BY <1>1, <3>2
      <4>. QED
        BY ONLY <4>1, Replaced
    <3>3a. p2[m] = w
      BY <1>1, <3>2, Replaced
    <3>3b. \A x \in 1..N : x # m => p2[x] = b.pending[x]
      BY <1>1, <3>2, Replaced
    <3>4. IsSeq(q2) /\ Len(q2) = Len(b.pushed)
      BY <1>1, <3>2, Replaced
    <3>4a. q2[m] = v
      BY <1>1, <3>2, Replaced
    <3>5. \A x \in 1..Len(b.pushed) : x # m => q2[x] = b.pushed[x]
      BY <1>1, <3>2, Replaced
    <3>6. Came(b, m) = b.pushed[m]
      BY <3>2 DEF Came
    <3> HIDE DEF p2, q2
    <3>. QED
      BY <1>1, <3>1, <3>2, <3>3, <3>3a, <3>3b, <3>4, <3>4a, <3>5, <3>6 DEF v
  <2>. QED
    BY <2>1, <2>2
<1>5. Reach(b, m) = IF Len(held.pending[m]) < Fanout THEN held ELSE Reduce(held, m)
  BY DEF Reach
<1>6. held.pending[m] = w
  <2> HIDE DEF held, p, q
  <2>. QED
    BY <1>3, <1>4, BuilderParts
<1>7. m \in 1..M
  BY <1>1
<1> HIDE DEF held, p, q, M
<1> DEFINE R == Reach(b, m)
<1>8. CASE Len(w) < Fanout
  <2>1. R = BuilderOf(p, q, b.emitted, <<>>)
    BY <1>3, <1>5, <1>6, <1>8
  <2> HIDE DEF R
  <2>2. R.pending = p /\ R.pushed = q /\ R.emitted = b.emitted /\ R.up = <<>>
    BY <2>1, BuilderParts
  <2>3. IsBuilder(R)
    BY <1>4, <2>1, <2>2 DEF IsBuilder
  <2>4. Len(R.pending) = M
    BY <1>4, <2>2
  <2>5. \A x \in 1..N : x # m => R.pending[x] = b.pending[x] /\ R.pushed[x] = b.pushed[x]
    BY <1>4, <2>2
  <2>6. R.pushed[m] = Came(b, m) + 1 /\ R.pending[m] = w
    BY <1>4, <2>2
  <2>8. Len(R.pending) = IF m = N + 1 THEN N + 1 ELSE N
    BY <2>4 DEF M
  <2>. QED
    BY <1>8, <2>2, <2>3, <2>5, <2>6, <2>8 DEF R, GoesUp, w
<1>9. CASE ~(Len(w) < Fanout)
  <2> DEFINE r == Put(p, m, <<>>)
             e == Append(b.emitted, Parent(w))
  <2>1. R = Reduce(BuilderOf(p, q, b.emitted, <<>>), m)
    BY <1>3, <1>5, <1>6, <1>9
  <2> HIDE DEF R
  <2>1a. Reduce(BuilderOf(p, q, b.emitted, <<>>), m)
            = BuilderOf(r, q, Append(b.emitted, Parent(p[m])), <<Parent(p[m])>>)
    BY Reducing
  <2>1b. R = BuilderOf(r, q, e, <<Parent(w)>>)
    BY <1>4, <2>1, <2>1a
  <2>2a. IsSeq(p) /\ m \in 1..Len(p) /\ Len(p) = M
    BY <1>4, <1>7
  <2>2b. IsSeq(r) /\ Len(r) = M
    BY <2>2a, Replaced
  <2>2c. r[m] = <<>>
    BY <2>2a, Replaced
  <2>2. \A x \in 1..M : x # m => r[x] = p[x]
    BY <2>2a, Replaced
  <2> HIDE DEF r, e
  <2>3. R.pending = r /\ R.pushed = q /\ R.emitted = e /\ R.up = <<Parent(w)>>
    BY <2>1b, BuilderParts
  <2>4. IsBuilder(R)
    BY <1>4, <2>1b, <2>2b, <2>3 DEF IsBuilder
  <2>5. Len(R.pending) = M
    BY <2>2b, <2>3
  <2>6. \A x \in 1..N : x # m => R.pending[x] = b.pending[x] /\ R.pushed[x] = b.pushed[x]
    <3>1. \A x \in 1..N : x \in 1..M
      BY <1>1 DEF M
    <3>. QED
      BY <1>4, <2>2, <2>3, <3>1
  <2>7. R.pushed[m] = Came(b, m) + 1 /\ R.pending[m] = <<>>
    BY <1>4, <2>2c, <2>3
  <2>8. Len(R.pending) = IF m = N + 1 THEN N + 1 ELSE N
    BY <2>5 DEF M
  <2>. QED
    BY <1>9, <2>3, <2>4, <2>6, <2>7, <2>8 DEF R, e, GoesUp, w
<1>. QED
  BY <1>8, <1>9

\* The groups of a level that have a parent, when one of them may be on its way to
\* level m (to none, when m is 0).
Grouped(b, x, m) == IF x + 1 = m THEN Came(b, x + 1) + 1 ELSE Came(b, x + 1)

\* A level holds the nodes of its layer that came after the last group with a parent.
LevelIs(b, chunks, x, groups) ==
  /\ x - 1 \in 0..Len(chunks)
  /\ b.pushed[x] <= Len(Layers(chunks)[x - 1])
  /\ Fanout * groups <= b.pushed[x] /\ b.pushed[x] < Fanout * groups + Fanout
  /\ b.pending[x] = Part(Layers(chunks)[x - 1], Fanout * groups, b.pushed[x])

Shaped(b) == IsBuilder(b) /\ \A x \in 1..Len(b.pending) : b.pushed[x] \in Nat \ {0}

\* The orders of the nodes of a level that came after the last group with a parent.
Flat(chunks, x, groups, came) == FlattenSeq(Part(Orders(chunks)[x - 1], Fanout * groups, came))

\* The blocks emitted, cut where those of each level begin: a level's nodes that wait
\* come after all that is above them, and the node on its way to level m after them.
Cuts(b, chunks, l, m, e) ==
  /\ e[Len(b.pending) + 1] = <<>>
  /\ \A x \in l..Len(b.pending) :
        IsSeq(e[x]) /\ e[x] = e[x + 1] \o Flat(chunks, x, Grouped(b, x, m), b.pushed[x])
  /\ m = 0 => b.emitted = e[l]
  /\ m # 0 => /\ b.emitted = e[l] \o Orders(chunks)[m - 1][Came(b, m) + 1]
              /\ \A x \in l..(m - 1) : e[x] = e[m] /\ Flat(chunks, x, Grouped(b, x, m), b.pushed[x]) = <<>>

Traced(b, chunks, l, m) == \E e : Cuts(b, chunks, l, m, e)

\* The levels from l up are as they should, and a node is on its way to level m, the
\* next of its layer; no node is, when m is 0.
Rising(b, chunks, l, m) ==
  /\ Shaped(b) /\ Traced(b, chunks, l, m)
  /\ \A x \in l..Len(b.pending) : LevelIs(b, chunks, x, Grouped(b, x, m))
  /\ m = 0 => b.up = <<>>
  /\ m # 0 => /\ m \in l..(Len(b.pending) + 1) /\ m - 1 \in 0..Len(chunks)
              /\ Came(b, m) < Len(Layers(chunks)[m - 1])
              /\ b.up = <<Layers(chunks)[m - 1][Came(b, m) + 1]>>

\* The node on its way, that after P others, reaches level m of b, and with it its group's
\* parent is on its way (h is m + 1, and node the parent) or is not (h is 0).
Reached(b, R, chunks, l, m, N, M, P, g, h, node) ==
  /\ l \in Nat \ {0} /\ m \in Nat \ {0} /\ N \in Nat /\ M \in Nat /\ P \in Nat /\ g \in Nat /\ h \in {0, m + 1}
  /\ N = Len(b.pending) /\ m \in l..(N + 1) /\ m - 1 \in 0..Len(chunks)
  /\ Len(R.pending) = M /\ (m <= N => M = N) /\ (~(m <= N) => M = m)
  /\ P = Came(b, m) /\ g = Came(b, m + 1) /\ Fanout * g <= P /\ P < Len(Layers(chunks)[m - 1])
  /\ R.pushed[m] = P + 1
  /\ \A x \in l..N : x # m => R.pushed[x] = b.pushed[x] /\ Grouped(R, x, h) = Grouped(b, x, m)
  /\ h = 0 => Grouped(R, m, h) = g /\ R.emitted = b.emitted
  /\ h # 0 => /\ m <= N /\ Grouped(R, m, h) = g + 1 /\ Came(R, h) = g /\ P + 1 = Fanout * g + Fanout
              /\ R.emitted = Append(b.emitted, node)
              /\ Orders(chunks)[m][g + 1] = Append(Flat(chunks, m, g, P + 1), node)

\* The blocks emitted stay cut.
LEMMA TraceStep ==
  ASSUME NEW chunks, IsSeq(chunks), Len(chunks) > 0, NEW b, NEW R, NEW l, NEW m, NEW N, NEW M,
         NEW P, NEW g, NEW h, NEW node, Traced(b, chunks, l, m),
         Reached(b, R, chunks, l, m, N, M, P, g, h, node)
  PROVE  Traced(R, chunks, l, h)
<1> USE DEF Reached
<1> DEFINE O == Orders(chunks)[m - 1]
           last == O[P + 1]
           below == Flat(chunks, m, g, P)
           y == Flat(chunks, m, g, P + 1)
           z == Flat(chunks, m, Grouped(R, m, h), P + 1)
           F(x) == Flat(chunks, x, Grouped(b, x, m), b.pushed[x])
           G(x) == Flat(chunks, x, Grouped(R, x, h), R.pushed[x])
<1>1. PICK e : Cuts(b, chunks, l, m, e)
  BY DEF Traced
<1> DEFINE f == IF m <= N THEN e[m + 1] ELSE <<>>
<1>2. /\ e[N + 1] = <<>>
      /\ \A x \in l..N : IsSeq(e[x]) /\ e[x] = e[x + 1] \o F(x)
      /\ b.emitted = e[l] \o last
      /\ \A x \in l..(m - 1) : e[x] = e[m] /\ F(x) = <<>>
  <2>1. m # 0
    OBVIOUS
  <2>. QED
    BY <1>1, <2>1 DEF Cuts
<1>0. l \in Nat \ {0} /\ m \in Nat \ {0} /\ N \in Nat /\ P \in Nat /\ g \in Nat
      /\ m \in l..(N + 1) /\ (m <= N \/ m = N + 1) /\ M \in Nat
      /\ (m <= N => M = N) /\ (~(m <= N) => M = m)
  OBVIOUS
<1>3. Len(chunks) \in Nat /\ Fanout \in Nat \ {0, 1} /\ Fanout * g \in Nat
  BY SeqParts, UnixFsAssumption, Products
<1>4. IsSeq(last)
  <2>1. Len(Layers(chunks)[m - 1]) \in Nat
    BY LayerSizes
  <2>2. P + 1 \in 1..Len(Layers(chunks)[m - 1])
    BY <2>1
  <2>. QED
    BY <2>2, OrderIsSeq
<1>5. \A x \in l..(N + 1) : IsSeq(e[x])
  <2>1. \A x \in l..(N + 1) : x \in l..N \/ x = N + 1
    BY ONLY <1>0
  <2>. QED
    BY <1>2, <2>1, NoneSeq
<1> HIDE DEF F, G, last
<1>6. IsSeq(f)
  <2>1. m <= N => m + 1 \in l..(N + 1)
    OBVIOUS
  <2>. QED
    BY <1>5, <2>1, NoneSeq
<1>7. e[m] = f \o below
  <2>1. CASE m <= N
    <3>1. m \in l..N /\ m \in 1..N
      BY <2>1
    <3>2. Grouped(b, m, m) = g /\ b.pushed[m] = P
      BY <3>1 DEF Grouped, Came
    <3>3. e[m] = e[m + 1] \o F(m)
      BY <1>2, <3>1
    <3>. QED
      BY <2>1, <3>2, <3>3 DEF F
  <2>2. CASE ~(m <= N)
    <3>1. m = N + 1 /\ m \notin 1..N /\ m + 1 \notin 1..N
      BY <2>2
    <3>2. P = 0 /\ g = 0
      BY <3>1 DEF Came
    <3>3. Fanout * 0 = 0
      BY <1>3
    <3>4. below = <<>>
      BY <3>2, <3>3, PartOfNone, FlattenNone DEF Flat
    <3>5. <<>> \o <<>> = <<>>
      BY NoneSeq, WithNone
    <3>. QED
      BY <1>2, <2>2, <3>1, <3>4, <3>5
  <2>. QED
    BY <2>1, <2>2
<1>8. e[l] = e[m]
  <2>1. l = m \/ l \in l..(m - 1)
    OBVIOUS
  <2>. QED
    BY <1>2, <2>1
<1>9. y = below \o last /\ IsSeq(below) /\ IsSeq(y)
  <2> DEFINE a == Fanout * g
  <2>1. a \in Nat /\ a <= P
    BY <1>3
  <2>2. \A k \in (a + 1)..P : IsSeq(O[k])
    <3>1. Len(Layers(chunks)[m - 1]) \in Nat
      BY LayerSizes
    <3> HIDE DEF a
    <3>2. \A k \in (a + 1)..P : k \in 1..Len(Layers(chunks)[m - 1])
      BY <2>1, <3>1
    <3>. QED
      BY <3>2, OrderIsSeq
  <2>3. IsSeq(O[P + 1])
    BY <1>4 DEF last
  <2> HIDE DEF a, O
  <2>4. FlattenSeq(Part(O, a, P + 1)) = FlattenSeq(Part(O, a, P)) \o O[P + 1]
    BY <2>1, <2>3, FlattenPart
  <2>5. IsSeq(FlattenSeq(Part(O, a, P)))
    BY <2>1, <2>2, FlattenPartIs
  <2>6. y = below \o last /\ IsSeq(below)
    BY <2>4, <2>5 DEF Flat, a, O, last
  <2> HIDE DEF y, below
  <2>7. IsSeq(below \o last)
    BY <1>4, <2>6, Joined
  <2>. QED
    BY <2>6, <2>7
<1> HIDE DEF f, below, y, O
<1>10. b.emitted = f \o y /\ IsSeq(f \o y)
  <2>1. b.emitted = (f \o below) \o last
    BY <1>2, <1>7, <1>8
  <2>2. (f \o below) \o last = f \o (below \o last)
    <3>1. IsSeq(f) /\ IsSeq(below) /\ IsSeq(last)
      BY <1>4, <1>6, <1>9
    <3>. QED
      BY ONLY <3>1, Regrouped
  <2>3. IsSeq(f \o y)
    BY <1>6, <1>9, Joined
  <2>. QED
    BY <1>9, <2>1, <2>2, <2>3
<1> DEFINE v == IF h = 0 THEN f \o y ELSE f
           c == [x \in Nat |-> IF x <= m THEN v ELSE IF x = M + 1 THEN <<>> ELSE e[x]]
<1>11. /\ h = 0 => z = y
       /\ h # 0 => z = <<>>
  <2>1. h = 0 => z = y
    BY DEF y
  <2>2. CASE h # 0
    <3>1. Grouped(R, m, h) = g + 1 /\ Fanout * (g + 1) = P + 1
      <4>1. Fanout * (g + 1) = Fanout * g + Fanout
        BY <1>3, Products
      <4>. QED
        BY <2>2, <4>1
    <3> DEFINE q == P + 1
               s == Orders(chunks)[m - 1]
    <3>2. z = FlattenSeq(Part(s, q, q))
      BY <3>1 DEF Flat
    <3>3. q \in Nat
      OBVIOUS
    <3> HIDE DEF q, s, z
    <3>4. Part(s, q, q) = <<>>
      BY ONLY <3>3, PartOfNone
    <3>5. z = <<>>
      BY ONLY <3>2, <3>4, FlattenNone
    <3>. QED
      BY ONLY <2>2, <3>5
  <2>. QED
    BY <2>1, <2>2
<1>12. G(m) = z
  BY DEF G
<1> HIDE DEF z
<1>13. IsSeq(v) /\ v = f \o z
  BY <1>6, <1>10, <1>11, WithNone
<1> HIDE DEF v
<1>14. /\ \A x \in l..m : c[x] = v
       /\ c[m + 1] = f
       /\ \A x \in (m + 1)..(M + 1) : x \in l..(N + 1) => c[x] = e[x]
       /\ c[M + 1] = <<>>
  <2>1. m <= M /\ M \in Nat /\ (m <= N => M = N) /\ (~(m <= N) => M = m)
    BY ONLY <1>0
  <2>2. \A x \in l..m : c[x] = v
    OBVIOUS
  <2>3. c[M + 1] = <<>>
    BY <2>1
  <2>4. \A x \in (m + 1)..(M + 1) : x \in l..(N + 1) => c[x] = e[x]
    <3> SUFFICES ASSUME NEW x \in (m + 1)..(M + 1), x \in l..(N + 1) PROVE c[x] = e[x]
      OBVIOUS
    <3>1. x \in Nat /\ ~(x <= m)
      OBVIOUS
    <3>2. CASE x = M + 1
      <4>1. M = N
        BY <2>1, <3>2
      <4>. QED
        BY <1>2, <2>3, <3>2, <4>1
    <3>3. CASE x # M + 1
      BY <3>1, <3>3
    <3>. QED
      BY <3>2, <3>3
  <2>5. c[m + 1] = f
    <3>1. CASE m <= N
      <4>1. m + 1 \in (m + 1)..(M + 1) /\ m + 1 \in l..(N + 1)
        BY <2>1, <3>1
      <4> HIDE DEF c
      <4>2. c[m + 1] = e[m + 1]
        BY ONLY <2>4, <4>1
      <4>. QED
        BY ONLY <3>1, <4>2 DEF f
    <3>2. CASE ~(m <= N)
      <4>1. m + 1 = M + 1
        BY <2>1, <3>2
      <4> HIDE DEF c
      <4>. QED
        BY ONLY <2>3, <3>2, <4>1 DEF f
    <3>. QED
      BY <3>1, <3>2
  <2>. QED
    BY <2>2, <2>3, <2>4, <2>5
<1>15. M \in Nat /\ \A x \in l..M : x \in l..(m - 1) \/ x = m \/ (x \in (m + 1)..M /\ M = N)
  OBVIOUS
<1> HIDE DEF c
<1>16. \A x \in l..N : x # m => G(x) = F(x)
  BY DEF F, G
<1>17. \A x \in l..(m - 1) : x \in l..N /\ x # m /\ x \in l..m /\ x + 1 \in l..m
  BY ONLY <1>0
<1>18. ASSUME NEW x \in l..M PROVE IsSeq(c[x]) /\ c[x] = c[x + 1] \o G(x)
  <2>1. CASE x \in l..(m - 1)
    <3>1. c[x] = v /\ c[x + 1] = v
      BY <1>14, <1>17, <2>1
    <3>2. G(x) = <<>>
      BY <1>2, <1>16, <1>17, <2>1
    <3>. QED
      BY <1>13, <3>1, <3>2, WithNone
  <2>2. CASE x = m
    <3>1. m \in l..m
      OBVIOUS
    <3>2. c[x] = v /\ c[x + 1] = f
      BY <1>14, <2>2, <3>1
    <3>. QED
      BY <1>12, <1>13, <2>2, <3>2
  <2>3. CASE x \in (m + 1)..M /\ M = N
    <3>1. x \in l..N /\ x # m /\ x \in (m + 1)..(M + 1) /\ x \in l..(N + 1)
          /\ x + 1 \in (m + 1)..(M + 1) /\ x + 1 \in l..(N + 1)
      BY <2>3
    <3>2. c[x] = e[x] /\ c[x + 1] = e[x + 1]
      BY <1>14, <3>1
    <3>3. IsSeq(e[x]) /\ e[x] = e[x + 1] \o F(x)
      BY <1>2, <3>1
    <3>. QED
      BY <1>16, <3>1, <3>2, <3>3
  <2>. QED
    BY <1>15, <2>1, <2>2, <2>3
<1>19. c[l] = v
  <2>1. l \in l..m
    OBVIOUS
  <2>. QED
    BY <1>14, <2>1
<1>20. h = 0 => R.emitted = c[l]
  BY <1>10, <1>19 DEF v
<1>21. h # 0 => /\ R.emitted = c[l] \o Orders(chunks)[h - 1][Came(R, h) + 1]
                /\ \A x \in l..(h - 1) : c[x] = c[h] /\ G(x) = <<>>
  <2> SUFFICES ASSUME h # 0
               PROVE  /\ R.emitted = c[l] \o Orders(chunks)[h - 1][Came(R, h) + 1]
                      /\ \A x \in l..(h - 1) : c[x] = c[h] /\ G(x) = <<>>
    OBVIOUS
  <2>1. h = m + 1 /\ h - 1 = m /\ Came(R, h) = g
    OBVIOUS
  <2>2. R.emitted = f \o Append(y, node)
    <3> DEFINE q == f \o y
    <3>1. R.emitted = Append(q, node)
      BY <1>10
    <3>2. IsSeq(q)
      BY <1>10
    <3> HIDE DEF q
    <3>3. Append(q, node) = q \o <<node>>
      BY <3>2, Appended
    <3>4. Append(y, node) = y \o <<node>>
      BY <1>9, Appended
    <3>5. IsSeq(<<node>>)
      BY OneSeq
    <3>6. (f \o y) \o <<node>> = f \o (y \o <<node>>)
      <4> DEFINE n == <<node>>
      <4>1. IsSeq(f) /\ IsSeq(y) /\ IsSeq(n)
        BY <1>6, <1>9, <3>5
      <4> HIDE DEF n
      <4>2. (f \o y) \o n = f \o (y \o n)
        BY ONLY <4>1, Regrouped
      <4>. QED
        BY <4>2 DEF n
    <3>. QED
      BY <3>1, <3>3, <3>4, <3>6 DEF q
  <2>3. Orders(chunks)[h - 1][Came(R, h) + 1] = Append(y, node)
    BY <2>1 DEF y
  <2>4. v = f
    BY DEF v
  <2>5. ASSUME NEW x \in l..(h - 1) PROVE c[x] = c[h] /\ G(x) = <<>>
    <3>1. x \in l..m /\ (x = m \/ x \in l..(m - 1))
      BY <2>1
    <3>2. c[x] = v /\ c[h] = f
      BY <1>14, <2>1, <3>1
    <3>3. CASE x = m
      BY <1>11, <1>12, <2>4, <3>2, <3>3
    <3>4. CASE x \in l..(m - 1)
      <4>1. G(x) = <<>>
        BY <1>2, <1>16, <1>17, <3>4
      <4>. QED
        BY <2>4, <3>2, <4>1
    <3>. QED
      BY <3>1, <3>3, <3>4
  <2>. QED
    BY <1>19, <2>2, <2>3, <2>4, <2>5
<1>22. Cuts(R, chunks, l, h, c)
  <2>1. Len(R.pending) = M /\ c[M + 1] = <<>>
    BY <1>14
  <2>. QED
    BY <1>18, <1>20, <1>21, <2>1 DEF Cuts, G
<1>. QED
  BY <1>22 DEF Traced

\* How many nodes came to a level is a number.
LEMMA CameIs ==
  ASSUME NEW b, Shaped(b), NEW x \in Int
  PROVE  Came(b, x) \in Nat /\ Len(b.pending) \in Nat
<1>1. Len(b.pending) \in Nat
  BY SeqParts DEF Shaped, IsBuilder
<1>. QED
  BY <1>1 DEF Shaped, Came

\* The nodes that wait on a level, with the one that comes.
LEMMA WithComing ==
  ASSUME NEW chunks, IsSeq(chunks), Len(chunks) > 0,
         NEW b, NEW l \in Nat \ {0}, NEW m \in Nat \ {0}, Rising(b, chunks, l, m)
  PROVE  /\ Fanout * Came(b, m + 1) <= Came(b, m)
         /\ Came(b, m) < Fanout * Came(b, m + 1) + Fanout
         /\ Joining(b, m) = Part(Layers(chunks)[m - 1], Fanout * Came(b, m + 1), Came(b, m) + 1)
<1> DEFINE N == Len(b.pending)
           D == Layers(chunks)[m - 1]
           P == Came(b, m)
           g == Came(b, m + 1)
<1>1. /\ N \in Nat /\ P \in Nat /\ g \in Nat /\ Fanout \in Nat \ {0, 1} /\ Fanout * g \in Nat
      /\ m \in l..(N + 1) /\ b.up = <<D[P + 1]>>
  <2>1. Shaped(b) /\ m \in Int /\ m + 1 \in Int
    BY DEF Rising
  <2>2. N \in Nat /\ P \in Nat /\ g \in Nat
    BY <2>1, CameIs
  <2>3. m \in l..(N + 1) /\ b.up = <<D[P + 1]>>
    BY DEF Rising
  <2> HIDE DEF N, P, g, D
  <2>. QED
    BY <2>2, <2>3, UnixFsAssumption
<1>2. CASE m = N + 1
  <2>1. P = 0 /\ g = 0
    BY <1>1, <1>2 DEF Came
  <2>2. b.up = <<D[1]>>
    BY <1>1, <2>1
  <2> HIDE DEF D, P, g
  <2>3. Part(D, 0, 0) = <<>>
    BY PartOfNone
  <2>4. Part(D, 0, 0) \o <<D[0 + 1]>> = Part(D, 0, 0 + 1)
    BY PartGrows
  <2> DEFINE q == Part(D, 0, 1)
  <2>5. <<>> \o <<D[1]>> = q
    BY <2>3, <2>4
  <2>6. <<>> \o <<D[1]>> = <<D[1]>>
    <3>1. <<D[1]>> \in Seq({D[1]})
      OBVIOUS
    <3>. QED
      BY <3>1, ConcatEmptySeq
  <2> HIDE DEF q
  <2>7. b.up = q
    BY <2>2, <2>5, <2>6
  <2>8. Fanout * g = 0 /\ P + 1 = 1
    BY <1>1, <2>1
  <2>9. Fanout * g <= P /\ P < Fanout * g + Fanout
    BY <1>1, <2>1, <2>8
  <2>10. b.up = Part(D, Fanout * g, P + 1)
    BY <2>7, <2>8 DEF q
  <2>. QED
    BY <1>2, <2>9, <2>10 DEF P, g, D, Joining
<1>3. CASE m # N + 1
  <2>1. m \in 1..N /\ m \in l..N
    BY <1>1, <1>3
  <2>2. LevelIs(b, chunks, m, Grouped(b, m, m))
    BY <2>1 DEF Rising
  <2>3. Grouped(b, m, m) = g /\ P = b.pushed[m]
    BY <2>1 DEF Grouped, Came
  <2>4. Fanout * g <= P /\ P < Fanout * g + Fanout /\ b.pending[m] = Part(D, Fanout * g, P)
    BY <2>2, <2>3 DEF LevelIs
  <2> DEFINE a == Fanout * g
  <2> HIDE DEF D, P, g
  <2>5. Part(D, a, P) \o <<D[P + 1]>> = Part(D, a, P + 1)
    <3> HIDE DEF a
    <3>1. a \in Nat /\ a <= P
      BY <1>1, <2>4 DEF a
    <3>. QED
      BY <1>1, <3>1, PartGrows
  <2>6. b.pending[m] \o b.up = Part(D, a, P + 1)
    BY <1>1, <2>4, <2>5
  <2> HIDE DEF a
  <2>. QED
    BY <1>3, <2>4, <2>6 DEF a, P, g, D, Joining
<1>. QED
  BY <1>2, <1>3

\* A link that reaches its level waits there, or its group's parent is on its way to
\* the level above, which is not a new one.
LEMMA RisingStep ==
  ASSUME NEW chunks, IsSeq(chunks), Len(chunks) > 0,
         NEW b, NEW l \in Nat \ {0}, NEW m \in Nat \ {0}, Rising(b, chunks, l, m)
  PROVE  /\ Rising(Reach(b, m), chunks, l, 0)
              \/ (Rising(Reach(b, m), chunks, l, m + 1) /\ m <= Len(b.pending))
         /\ Len(Reach(b, m).pending) = IF m = Len(b.pending) + 1 THEN Len(b.pending) + 1 ELSE Len(b.pending)
         /\ Came(Reach(b, m), m) = Came(b, m) + 1
         /\ \A x \in Nat : x # m => Came(Reach(b, m), x) = Came(b, x)
<1> DEFINE N == Len(b.pending)
           D == Layers(chunks)[m - 1]
           P == Came(b, m)
           g == Came(b, m + 1)
           R == Reach(b, m)
           a == Fanout * g
           w == Part(D, a, P + 1)
           M == IF m = N + 1 THEN N + 1 ELSE N
<1>1. /\ N \in Nat /\ P \in Nat /\ g \in Nat /\ Fanout \in Nat \ {0, 1} /\ a \in Nat
      /\ m \in l..(N + 1) /\ m \in 1..(N + 1) /\ P < Len(D) /\ m - 1 \in 0..Len(chunks)
  <2>1. Shaped(b) /\ m \in Int /\ m + 1 \in Int
    BY DEF Rising
  <2>2. N \in Nat /\ P \in Nat /\ g \in Nat
    BY <2>1, CameIs
  <2>3. m \in l..(N + 1) /\ P < Len(D) /\ m - 1 \in 0..Len(chunks)
    BY DEF Rising
  <2> HIDE DEF N, P, g, D
  <2>. QED
    BY <2>2, <2>3, UnixFsAssumption
<1>2. a <= P /\ P < a + Fanout /\ w = Joining(b, m)
  BY WithComing
<1>3. IsSeq(w) /\ Len(w) = P + 1 - a
  <2> HIDE DEF a, P, D, N
  <2> DEFINE y == P + 1
  <2>1. y \in Nat /\ a <= y
    BY <1>1, <1>2
  <2> HIDE DEF y
  <2>2. IsSeq(Part(D, a, y)) /\ Len(Part(D, a, y)) = y - a
    BY <1>1, <2>1, PartIs
  <2>3. w = Part(D, a, y)
    BY DEF y
  <2> HIDE DEF w
  <2>4. IsSeq(w) /\ Len(w) = y - a
    BY <2>2, <2>3
  <2>5. y - a = P + 1 - a
    BY <1>1 DEF y
  <2>. QED
    BY <2>4, <2>5
<1>4. IsBuilder(b) /\ Shaped(b)
  BY DEF Rising, Shaped
<1> HIDE DEF D, w
<1>4a. IsBuilder(b) /\ m \in 1..(Len(b.pending) + 1) /\ IsSeq(Joining(b, m)) /\ w = Joining(b, m)
  BY <1>1, <1>2, <1>3, <1>4
<1>5. IsBuilder(R)
  BY ONLY <1>4a, ReachIs
<1>6. Len(R.pending) = M
  BY ONLY <1>4a, ReachIs
<1>7. \A x \in 1..N : x # m => R.pending[x] = b.pending[x] /\ R.pushed[x] = b.pushed[x]
  BY ONLY <1>4a, ReachIs
<1>8. R.pushed[m] = P + 1
  BY ONLY <1>4a, ReachIs
<1>9. R.pending[m] = IF Len(w) < Fanout THEN w ELSE <<>>
  BY ONLY <1>4a, ReachIs
<1>10e. R.emitted = IF Len(w) < Fanout THEN b.emitted ELSE Append(b.emitted, Parent(w))
  BY ONLY <1>4a, ReachIs
<1>10. R.up = IF Len(w) < Fanout THEN <<>> ELSE <<Parent(w)>>
  <2>1. R.up = GoesUp(w)
    BY ONLY <1>4a, ReachIs
  <2>. QED
    BY <2>1 DEF GoesUp
<1>10a. /\ Len(w) < Fanout => P + 1 < a + Fanout
        /\ ~(Len(w) < Fanout) => P + 1 = a + Fanout
  <2> DEFINE y == Len(w)
  <2> HIDE DEF a, P, y
  <2>1. y = P + 1 - a
    BY <1>3 DEF y
  <2>2. /\ y < Fanout => P + 1 < a + Fanout
        /\ ~(y < Fanout) => P + 1 = a + Fanout
    BY <1>1, <1>2, <2>1
  <2>. QED
    BY <2>2 DEF y
<1> HIDE DEF R
<1>11. m \in 1..M /\ M \in Nat /\ M >= N /\ \A x \in 1..M : x = m \/ x \in 1..N
  <2> HIDE DEF N
  <2>1. CASE m = N + 1
    BY <1>1, <2>1
  <2>2. CASE m # N + 1
    BY <1>1, <2>2
  <2>. QED
    BY <2>1, <2>2
<1>12. Came(R, m) = P + 1
  BY <1>6, <1>8, <1>11 DEF Came
<1>13. ASSUME NEW x \in Nat, x # m PROVE Came(R, x) = Came(b, x)
  <2>1. x \in 1..M <=> x \in 1..N
    BY <1>1, <1>11, <1>13
  <2> HIDE DEF M
  <2>2. CASE x \in 1..N
    BY <1>6, <1>7, <1>13, <2>1, <2>2 DEF Came
  <2>3. CASE x \notin 1..N
    BY <1>6, <2>1, <2>3 DEF Came
  <2>. QED
    BY <2>2, <2>3
<1>14. Shaped(R)
  <2>1. ASSUME NEW x \in 1..M PROVE R.pushed[x] \in Nat \ {0}
    <3>1. CASE x = m
      BY <1>1, <1>8, <3>1
    <3>2. CASE x # m
      <4>1. x \in 1..N
        BY <1>11, <2>1, <3>2
      <4>. QED
        BY <1>4, <1>7, <3>2, <4>1 DEF Shaped
    <3>. QED
      BY <3>1, <3>2
  <2> HIDE DEF M
  <2>. QED
    BY <1>5, <1>6, <2>1 DEF Shaped
\* The other levels.
<1>14a. ASSUME NEW h, h = 0 \/ h = m + 1, NEW x \in l..M, x # m
        PROVE  /\ x \in l..N /\ x \in 1..N /\ Grouped(R, x, h) = Grouped(b, x, m)
               /\ R.pending[x] = b.pending[x] /\ R.pushed[x] = b.pushed[x]
  <2>1. x \in l..N /\ x \in 1..N /\ x + 1 \in Nat /\ x + 1 # h
    <3>1. x \in Nat /\ x >= 1 /\ x + 1 # m + 1 /\ x + 1 # 0
      BY <1>1, <1>14a
    <3>. QED
      BY <1>1, <1>11, <1>14a, <3>1
  <2>2. Grouped(R, x, h) = Grouped(b, x, m)
    <3>1. CASE x + 1 = m
      BY <1>12, <2>1, <3>1 DEF Grouped
    <3>2. CASE x + 1 # m
      BY <1>13, <2>1, <3>2 DEF Grouped
    <3>. QED
      BY <3>1, <3>2
  <2>3. R.pending[x] = b.pending[x] /\ R.pushed[x] = b.pushed[x]
    BY <1>7, <1>14a, <2>1
  <2>. QED
    BY <2>1, <2>2, <2>3
<1>15. ASSUME NEW h, h = 0 \/ h = m + 1, NEW x \in l..M, x # m
       PROVE  LevelIs(R, chunks, x, Grouped(R, x, h))
  <2>1. /\ x \in l..N /\ Grouped(R, x, h) = Grouped(b, x, m)
        /\ R.pending[x] = b.pending[x] /\ R.pushed[x] = b.pushed[x]
    BY <1>14a, <1>15
  <2>2. LevelIs(b, chunks, x, Grouped(b, x, m))
    BY <2>1 DEF Rising
  <2>. QED
    BY <2>1, <2>2 DEF LevelIs
<1>15a. Traced(b, chunks, l, m) /\ IsSeq(chunks) /\ Len(chunks) > 0
  BY DEF Rising
\* What the blocks emitted need of R, whatever else is on its way.
<1>15b. ASSUME NEW h, NEW node, h = 0 \/ h = m + 1,
               h = 0 => Grouped(R, m, h) = g /\ R.emitted = b.emitted,
               h # 0 => /\ m <= N /\ Grouped(R, m, h) = g + 1 /\ Came(R, h) = g /\ P + 1 = Fanout * g + Fanout
                        /\ R.emitted = Append(b.emitted, node)
                        /\ Orders(chunks)[m][g + 1] = Append(Flat(chunks, m, g, P + 1), node)
        PROVE  Traced(R, chunks, l, h)
  <2>1. /\ l \in Nat \ {0} /\ m \in Nat \ {0} /\ h \in {0, m + 1}
        /\ (m <= N => M = N) /\ (~(m <= N) => M = m) /\ M >= N
    <3> HIDE DEF N
    <3>. QED
      BY <1>1, <1>15b
  <2>2. \A x \in l..N : x # m => R.pushed[x] = b.pushed[x] /\ Grouped(R, x, h) = Grouped(b, x, m)
    <3> SUFFICES ASSUME NEW x \in l..N, x # m
                 PROVE  R.pushed[x] = b.pushed[x] /\ Grouped(R, x, h) = Grouped(b, x, m)
      OBVIOUS
    <3>1. x \in l..M
      <4>1. l \in Nat /\ N \in Nat /\ M \in Nat /\ M >= N /\ x \in l..N
        BY <1>1, <1>11, <2>1
      <4> HIDE DEF N, M
      <4>. QED
        BY ONLY <4>1
    <3>. QED
      BY ONLY <1>14a, <1>15b, <3>1, x # m
  <2>3. a = Fanout * g /\ P < Len(Layers(chunks)[m - 1])
    BY <1>1 DEF D
  <2>4. Reached(b, R, chunks, l, m, N, M, P, g, h, node)
    <3>1. N = Len(b.pending) /\ P = Came(b, m) /\ g = Came(b, m + 1)
      OBVIOUS
    <3> HIDE DEF N, M, P, g, a
    <3>. QED
      BY ONLY <1>1, <1>2, <1>6, <1>8, <1>11, <1>15b, <2>1, <2>2, <2>3, <3>1 DEF Reached
  <2> HIDE DEF N, M, P, g, a
  <2>. QED
    BY ONLY <1>15a, <2>4, TraceStep
<1>16. CASE Len(w) < Fanout
  <2>1. LevelIs(R, chunks, m, Grouped(R, m, 0))
    <3>1. Grouped(R, m, 0) = g
      <4>1. m + 1 \in Nat /\ m + 1 # m /\ m + 1 # 0
        OBVIOUS
      <4>. QED
        BY <1>13, <4>1 DEF Grouped
    <3> HIDE DEF P, g
    <3>2. P + 1 <= Len(D) /\ a <= P + 1 /\ P + 1 < a + Fanout
      <4>1. Len(D) \in Nat
        <5>1. IsSeq(D)
          BY <1>1, LayerSizes DEF D
        <5>. QED
          BY <5>1, SeqParts
      <4> HIDE DEF a
      <4> DEFINE d == Len(D)
      <4>2. d \in Nat /\ P < d
        BY <1>1, <4>1
      <4> HIDE DEF d
      <4>3. P + 1 <= d /\ a <= P + 1
        BY <1>1, <1>2, <4>2
      <4>4. P + 1 < a + Fanout
        BY <1>10a, <1>16
      <4>. QED
        BY <4>3, <4>4 DEF d
    <3>3. R.pending[m] = Part(D, a, P + 1)
      BY <1>9, <1>16 DEF w
    <3>. QED
      BY <1>1, <1>8, <3>1, <3>2, <3>3 DEF LevelIs, D
  <2>2. \A x \in l..M : LevelIs(R, chunks, x, Grouped(R, x, 0))
    BY <1>15, <2>1
  <2>3. R.up = <<>>
    BY <1>10, <1>16
  <2>4. Rising(R, chunks, l, 0)
    <3>1. Grouped(R, m, 0) = g
      <4>1. m + 1 \in Nat /\ m + 1 # m /\ m + 1 # 0
        OBVIOUS
      <4>. QED
        BY <1>13, <4>1 DEF Grouped
    <3>2. R.emitted = b.emitted
      BY <1>10e, <1>16
    <3>3. Traced(R, chunks, l, 0)
      BY ONLY <1>15b, <3>1, <3>2
    <3> HIDE DEF M
    <3>. QED
      BY <1>6, <1>14, <2>2, <2>3, <3>3 DEF Rising
  <2>. QED
    BY <1>6, <1>12, <1>13, <2>4 DEF R
<1>17. CASE ~(Len(w) < Fanout)
  <2>1. P + 1 = a + Fanout /\ m \in 1..N /\ M = N
    <3>1. P + 1 = a + Fanout
      BY <1>10a, <1>17
    <3>2. m # N + 1
      <4> SUFFICES ASSUME m = N + 1 PROVE FALSE
        OBVIOUS
      <4>1. P = 0
        BY <1>1 DEF Came
      <4> HIDE DEF a, P
      <4>. QED
        BY <1>1, <3>1, <4>1
    <3>3. m \in 1..N
      BY <1>1, <3>2
    <3>4. M = N
      BY <3>2
    <3>. QED
      BY <3>1, <3>3, <3>4
  <2>2. IsSeq(D) /\ Len(D) \in Nat /\ m \in 1..Len(chunks)
    <3>1. IsSeq(D) /\ Len(D) \in Nat
      BY <1>1, LayerSizes DEF D
    <3>2. Len(chunks) \in Nat
      BY SeqParts
    <3>3. Len(Layers(chunks)[Len(chunks)]) = 1
      <4>1. Len(chunks) \in 0..Len(chunks)
        BY <3>2
      <4> DEFINE y == Len(Layers(chunks)[Len(chunks)])
      <4>2. y \in Nat /\ y >= 1 /\ (y = 1 \/ y + Len(chunks) <= Len(chunks))
        BY <4>1, LayerSizes
      <4> HIDE DEF y
      <4>3. y = 1
        BY <3>2, <4>2
      <4>. QED
        BY <4>3 DEF y
    <3>4. Len(D) > 1
      <4> HIDE DEF a, P
      <4>. QED
        BY <1>1, <2>1, <3>1
    <3>5. m - 1 # Len(chunks)
      <4> SUFFICES ASSUME m - 1 = Len(chunks) PROVE FALSE
        OBVIOUS
      <4>1. Len(D) = 1
        BY <3>3 DEF D
      <4>. QED
        BY <3>4, <4>1
    <3>. QED
      BY <1>1, <3>1, <3>2, <3>5
  <2>3. w = Siblings(D, g + 1)
    <3>1. Fanout * g <= Len(D) /\ Fanout * g + Fanout <= Len(D) /\ Fanout * g + Fanout = P + 1
      <4> DEFINE y == Fanout * g
      <4>0. y = a
        OBVIOUS
      <4> HIDE DEF a, P, y
      <4>1. y <= Len(D) /\ y + Fanout <= Len(D) /\ y + Fanout = P + 1
        BY <1>1, <2>1, <2>2, <4>0
      <4>. QED
        BY <4>1 DEF y
    <3> HIDE DEF P, g
    <3>2. Siblings(D, g + 1) = Part(D, Fanout * g, P + 1)
      BY <1>1, <2>2, <3>1, SiblingsAre
    <3>. QED
      BY <3>2 DEF w
  <2>4. g < Len(Layers(chunks)[m]) /\ Layers(chunks)[m][g + 1] = Parent(Siblings(D, g + 1))
    <3> DEFINE c == Len(Layers(chunks)[m])
    <3>1. /\ IsSeq(Layers(chunks)[m]) /\ Len(D) <= Fanout * c
          /\ \A i \in 1..c : Layers(chunks)[m][i] = Parent(Siblings(D, i))
      BY <2>2, LayerAbove DEF D
    <3>2. c \in Nat
      BY <3>1, SeqParts
    <3> HIDE DEF c, P, g
    <3>3. Fanout * g < Fanout * c
      <4>1. Fanout * c \in Nat
        BY <1>1, <3>2
      <4> DEFINE y == Fanout * c
      <4> HIDE DEF y
      <4>2. a < y
        BY <1>1, <2>1, <2>2, <3>1, <4>1 DEF y
      <4>. QED
        BY <4>2 DEF y
    <3>4. g < c
      BY <1>1, <3>2, <3>3, Products
    <3>5. g + 1 \in 1..c
      BY <1>1, <3>2, <3>4
    <3>. QED
      BY <3>1, <3>4, <3>5 DEF c
  <2>5. LevelIs(R, chunks, m, Grouped(R, m, m + 1))
    <3>1. Grouped(R, m, m + 1) = g + 1
      <4>1. m + 1 \in Nat /\ m + 1 # m
        OBVIOUS
      <4>. QED
        BY <1>13, <4>1 DEF Grouped
    <3> HIDE DEF P, g
    <3>2. Fanout * (g + 1) = P + 1
      <4>1. Fanout * (g + 1) = Fanout * g + Fanout
        BY <1>1, Products
      <4>. QED
        BY <2>1, <4>1
    <3>3. P + 1 <= Len(D) /\ P + 1 <= P + 1 /\ P + 1 < P + 1 + Fanout /\ P + 1 \in Nat
      BY <1>1, <2>2
    <3>4. R.pending[m] = Part(D, P + 1, P + 1)
      <4>1. Part(D, P + 1, P + 1) = <<>>
        BY <3>3, PartOfNone
      <4>. QED
        BY <1>9, <1>17, <4>1
    <3>. QED
      BY <1>1, <1>8, <3>1, <3>2, <3>3, <3>4 DEF LevelIs, D
  <2>6. \A x \in l..M : LevelIs(R, chunks, x, Grouped(R, x, m + 1))
    BY <1>15, <2>5
  <2>7. R.up = <<Layers(chunks)[m][g + 1]>>
    BY <1>10, <1>17, <2>3, <2>4
  <2>8. Came(R, m + 1) = g
    <3>1. m + 1 \in Nat /\ m + 1 # m
      OBVIOUS
    <3>. QED
      BY <1>13, <3>1
  <2>8a. Grouped(R, m, m + 1) = g + 1
    <3>1. m + 1 \in Nat /\ m + 1 # m
      OBVIOUS
    <3>. QED
      BY <1>13, <3>1 DEF Grouped
  <2>8b. Orders(chunks)[m][g + 1] = Append(Flat(chunks, m, g, P + 1), Parent(w))
    <3> DEFINE e == P + 1
    <3>1. g \in Nat /\ Fanout * g <= Len(D) /\ Fanout * g + Fanout <= Len(D) /\ e = Fanout * g + Fanout
      <4> DEFINE y == Fanout * g
      <4>0. y = a
        OBVIOUS
      <4> HIDE DEF a, P, y
      <4>1. y <= Len(D) /\ y + Fanout <= Len(D) /\ y + Fanout = P + 1
        BY <1>1, <2>1, <2>2, <4>0
      <4>. QED
        BY <1>1, <4>1 DEF y
    <3>2. Layers(chunks)[m][g + 1] = Parent(w) /\ g < Len(Layers(chunks)[m])
      BY <2>3, <2>4
    <3> HIDE DEF P, g, e
    <3>3. e = IF Fanout * g + Fanout <= Len(Layers(chunks)[m - 1]) THEN Fanout * g + Fanout
              ELSE Len(Layers(chunks)[m - 1])
      BY <3>1 DEF D
    <3>4. Orders(chunks)[m][g + 1]
             = Append(FlattenSeq(Part(Orders(chunks)[m - 1], Fanout * g, e)), Layers(chunks)[m][g + 1])
      <4>1. m \in 1..Len(chunks) /\ IsSeq(chunks) /\ Len(chunks) > 0 /\ Fanout * g <= Len(Layers(chunks)[m - 1])
        BY <2>2, <3>1 DEF D
      <4>. QED
        BY ONLY <3>1, <3>2, <3>3, <4>1, OrderAbove
    <3>. QED
      BY <3>2, <3>4 DEF Flat, e
  <2>8c. Traced(R, chunks, l, m + 1)
    <3>1. m <= N /\ m + 1 # 0 /\ P + 1 = Fanout * g + Fanout /\ R.emitted = Append(b.emitted, Parent(w))
      <4>1. R.emitted = Append(b.emitted, Parent(w))
        BY <1>10e, <1>17
      <4>2. m <= N /\ m + 1 # 0
        BY <1>1, <2>1
      <4>3. P + 1 = Fanout * g + Fanout
        BY <2>1
      <4>. QED
        BY <4>1, <4>2, <4>3
    <3> DEFINE h == m + 1
    <3>2. h = m + 1 /\ h # 0
      BY <3>1
    <3> HIDE DEF h
    <3>3. Came(R, h) = g /\ Grouped(R, m, h) = g + 1
      BY <2>8, <2>8a, <3>2
    <3> HIDE DEF N, P, g, a
    <3>4. Traced(R, chunks, l, h)
      BY ONLY <1>15b, <2>8b, <3>1, <3>2, <3>3
    <3>. QED
      BY <3>2, <3>4
  <2>9. Rising(R, chunks, l, m + 1)
    <3>1. m + 1 # 0 /\ m + 1 \in l..(N + 1) /\ m + 1 - 1 = m /\ m \in 0..Len(chunks) /\ N = Len(R.pending)
      BY <1>1, <1>6, <2>1, <2>2
    <3> HIDE DEF M, N, P, g
    <3>2. \A x \in l..Len(R.pending) : LevelIs(R, chunks, x, Grouped(R, x, m + 1))
      BY <1>6, <2>6
    <3>3. R.up = <<Layers(chunks)[m + 1 - 1][Came(R, m + 1) + 1]>> /\ Came(R, m + 1) < Len(Layers(chunks)[m + 1 - 1])
      BY <2>4, <2>7, <2>8, <3>1
    <3>. QED
      BY <1>14, <2>8c, <3>1, <3>2, <3>3 DEF Rising
  <2>10. m <= N
    BY <2>1
  <2>. QED
    BY <1>6, <1>12, <1>13, <2>9, <2>10 DEF R
<1>. QED
  BY <1>16, <1>17

\* A link is on its way.
LEMMA UpIsNot == ASSUME NEW x PROVE <<x>> # <<>>
<1>1. Len(<<x>>) = 1 /\ Len(<<>>) = 0
  OBVIOUS
<1>. QED
  BY <1>1

\* A turn of push's loop at the level a link is on its way to.
LEMMA ClimbStep ==
  ASSUME NEW chunks, IsSeq(chunks), Len(chunks) > 0,
         NEW b, NEW l \in Nat \ {0}, NEW m \in Nat \ {0}, Rising(b, chunks, l, m)
  PROVE  Climb(b, m) = Reach(b, m)
<1>1. b.up = <<Layers(chunks)[m - 1][Came(b, m) + 1]>>
  BY DEF Rising
<1>2. b.up # <<>>
  BY <1>1, UpIsNot
<1>. QED
  BY <1>2 DEF Climb

\* After turn i of push's loop, from b: the link rests, or goes on to the next level.
Climbed(b, now, chunks, l, i) ==
  /\ Rising(now, chunks, l, 0)
       \/ (Rising(now, chunks, l, l + i) /\ l + i <= Len(b.pending) + 1 /\ Len(now.pending) = Len(b.pending))
  /\ Came(now, l) = Came(b, l) + 1
  /\ \A x \in 1..(l - 1) : Came(now, x) = Came(b, x)
  /\ Len(now.pending) >= Len(b.pending)

\* push, whatever the level: the link comes to it, and every level that this fills
\* goes up; the levels below are as they were.
LEMMA PushIs ==
  ASSUME NEW chunks, IsSeq(chunks), Len(chunks) > 0,
         NEW b, NEW l \in Nat \ {0}, Rising(b, chunks, l, l)
  PROVE  /\ Rising(Push(b, l), chunks, l, 0)
         /\ Came(Push(b, l), l) = Came(b, l) + 1
         /\ \A x \in 1..(l - 1) : Came(Push(b, l), x) = Came(b, x)
         /\ Len(Push(b, l).pending) >= Len(b.pending)
<1> DEFINE N == Len(b.pending)
           V == N + 2 - l
           values == [i \in 1..(Len(b.pending) + 2 - l) |-> l + i - 1]
<1>1. N \in Nat /\ l \in 1..(N + 1) /\ V \in Nat /\ V >= 1
  <2>1. Shaped(b) /\ l \in Int /\ l \in l..(N + 1)
    BY DEF Rising
  <2>2. N \in Nat
    BY <2>1, CameIs
  <2> HIDE DEF N
  <2>. QED
    BY <2>1, <2>2
<1>2. Push(b, l) = Loop(Climb, b, values)
  BY DEF Push
<1>3. values = [i \in 1..V |-> values[i]] /\ \A i \in 1..V : values[i] = l + i - 1
  OBVIOUS
<1> HIDE DEF values, V, N
<1>4. Len(values) = V
  BY <1>1, <1>3, ValuesAreSeq
<1>5. PICK after : Turns(after, "climb", b, values, V) /\ Loop(Climb, b, values) = after[V]
  BY <1>1, <1>4, ClimbLoop
<1>6. after[0] = b /\ \A n \in 1..V : n - 1 \in 0..V /\ after[n] = Climb(after[n - 1], values[n])
  <2>1. ASSUME NEW now, NEW v PROVE Turn("climb", now, v) = Climb(now, v)
    BY DEF Turn
  <2>2. after[0] = b /\ \A n \in 1..V : n - 1 \in 0..V /\ after[n] = Turn("climb", after[n - 1], values[n])
    BY <1>1, <1>5, TurnsAre
  <2>. QED
    BY <2>1, <2>2
<1> DEFINE T == {i \in Nat : i = 0 \/ Climbed(b, after[i], chunks, l, i)}
<1>7. ASSUME NEW i \in 0..V, i \in T, i < V PROVE i + 1 \in T
  <2> DEFINE j == i + 1
             A == after[i]
             m == l + i
             B == after[j]
  <2>1. j \in 1..V /\ j - 1 = i /\ values[j] = m /\ m \in Nat \ {0} /\ l + j = m + 1
    <3>1. j \in 1..V /\ j - 1 = i /\ m \in Nat \ {0} /\ l + j = m + 1
      BY <1>1, <1>7
    <3>2. values[j] = l + j - 1
      BY <1>3, <3>1
    <3>. QED
      BY <1>1, <3>1, <3>2
  <2>2. B = Climb(A, m)
    BY <1>6, <2>1
  <2>3. i = 0 => A = b
    BY <1>6
  <2>4. Came(b, l) \in Nat
    <3>1. Shaped(b) /\ l \in Int
      BY DEF Rising
    <3>. QED
      BY <3>1, CameIs
  <2> HIDE DEF j, A, B, m
  <2>5. CASE i # 0 /\ Rising(A, chunks, l, 0)
    <3>1. B = A
      <4>1. A.up = <<>>
        BY <2>5 DEF Rising
      <4>. QED
        BY <2>2, <4>1 DEF Climb
    <3>2. Climbed(b, A, chunks, l, i)
      BY <1>7, <2>5 DEF A
    <3>3. Climbed(b, B, chunks, l, j)
      BY <2>5, <3>1, <3>2 DEF Climbed
    <3>. QED
      BY <2>1, <3>3 DEF B, j
  <2>6. CASE Rising(A, chunks, l, m) /\ m <= N + 1 /\ Len(A.pending) = N
    <3>1. B = Reach(A, m)
      BY <2>1, <2>2, <2>6, ClimbStep
    <3>2. Rising(Reach(A, m), chunks, l, 0) \/ (Rising(Reach(A, m), chunks, l, m + 1) /\ m <= Len(A.pending))
      BY <2>1, <2>6, RisingStep
    <3>3. Len(Reach(A, m).pending) = IF m = Len(A.pending) + 1 THEN Len(A.pending) + 1 ELSE Len(A.pending)
      BY <2>1, <2>6, RisingStep
    <3>4. Came(Reach(A, m), m) = Came(A, m) + 1
      BY <2>1, <2>6, RisingStep
    <3>5. \A x \in Nat : x # m => Came(Reach(A, m), x) = Came(A, x)
      BY <2>1, <2>6, RisingStep
    <3>6. Rising(B, chunks, l, 0) \/ (Rising(B, chunks, l, l + j) /\ l + j <= N + 1 /\ Len(B.pending) = N)
      <4>1. CASE Rising(B, chunks, l, 0)
        BY <4>1
      <4>2. CASE Rising(B, chunks, l, m + 1) /\ m <= N
        <5>1. m # N + 1 /\ m + 1 <= N + 1
          BY <1>1, <2>1, <4>2
        <5>. QED
          BY <2>1, <2>6, <3>1, <3>3, <4>2, <5>1
      <4>. QED
        BY <2>6, <3>1, <3>2, <4>1, <4>2
    <3>7. Came(B, l) = Came(b, l) + 1
      <4>1. CASE i = 0
        <5>1. m = l
          BY <4>1 DEF m
        <5>. QED
          BY <2>3, <3>1, <3>4, <4>1, <5>1
      <4>2. CASE i # 0
        <5>1. l \in Nat /\ l # m
          BY <4>2 DEF m
        <5>2. Came(A, l) = Came(b, l) + 1
          BY <1>7, <4>2 DEF A, Climbed
        <5>. QED
          BY <3>1, <3>5, <5>1, <5>2
      <4>. QED
        BY <4>1, <4>2
    <3>8. ASSUME NEW x \in 1..(l - 1) PROVE Came(B, x) = Came(b, x)
      <4>1. x \in Nat /\ x # m
        BY <1>1 DEF m
      <4>2. Came(A, x) = Came(b, x)
        BY <1>7, <2>3 DEF A, Climbed
      <4>. QED
        BY <3>1, <3>5, <4>1, <4>2
    <3>9. Len(B.pending) >= N
      BY <1>1, <2>6, <3>1, <3>3
    <3>10. Climbed(b, B, chunks, l, j)
      BY <3>6, <3>7, <3>8, <3>9 DEF Climbed, N
    <3>. QED
      BY <2>1, <3>10 DEF B, j
  <2>7. (i # 0 /\ Rising(A, chunks, l, 0)) \/ (Rising(A, chunks, l, m) /\ m <= N + 1 /\ Len(A.pending) = N)
    <3>1. CASE i = 0
      <4>1. m = l
        BY <3>1 DEF m
      <4>. QED
        BY <1>1, <2>3, <3>1, <4>1 DEF N
    <3>2. CASE i # 0
      BY <1>7, <3>2 DEF A, m, Climbed, N
    <3>. QED
      BY <3>1, <3>2
  <2>. QED
    BY <2>5, <2>6, <2>7
<1>8. V \in T
  <2>1. \A i \in 0..V : i \in T
    <3>1. 0 \in T
      OBVIOUS
    <3> HIDE DEF T
    <3>. QED
      BY <1>1, <1>7, <3>1, Ascent
  <2> HIDE DEF T
  <2>2. V \in 0..V
    BY <1>1
  <2>. QED
    BY <2>1, <2>2
<1>9. Climbed(b, after[V], chunks, l, V)
  BY <1>1, <1>8
<1>10. ~(l + V <= N + 1)
  BY <1>1 DEF V
<1>11. Push(b, l) = after[V]
  BY <1>2, <1>5
<1>. QED
  BY <1>9, <1>10, <1>11 DEF Climbed, N

\* emit changes only the emitted nodes and the link on its way.
LEMMA EmitIs ==
  ASSUME NEW b, IsBuilder(b), NEW node
  PROVE  /\ IsBuilder(Emit(b, node))
         /\ Emit(b, node).pending = b.pending /\ Emit(b, node).pushed = b.pushed
         /\ Emit(b, node).emitted = Append(b.emitted, node) /\ Emit(b, node).up = <<node>>
<1> DEFINE p == b.pending
           q == b.pushed
           e == b.emitted
           u == b.up
           x == Append(e, node)
<1>1. b = BuilderOf(p, q, e, u) /\ IsSeq(p) /\ IsSeq(q) /\ Len(p) = Len(q)
  BY DEF IsBuilder
<1> HIDE DEF p, q, e, u
<1>2. Emit(b, node) = BuilderOf(p, q, x, <<node>>)
  BY <1>1, Emitting
<1> HIDE DEF x
<1>3. /\ Emit(b, node).pending = p /\ Emit(b, node).pushed = q
      /\ Emit(b, node).emitted = x /\ Emit(b, node).up = <<node>>
  BY <1>2, BuilderParts
<1>4. IsBuilder(Emit(b, node))
  BY <1>1, <1>2, <1>3 DEF IsBuilder
<1>. QED
  BY <1>3, <1>4 DEF p, q, e, x

\* reduce empties the level, whose links get a parent on its way.
LEMMA ReduceIs ==
  ASSUME NEW b, IsBuilder(b), NEW m \in 1..Len(b.pending)
  PROVE  /\ IsBuilder(Reduce(b, m))
         /\ Len(Reduce(b, m).pending) = Len(b.pending)
         /\ \A x \in 1..Len(b.pending) : x # m => Reduce(b, m).pending[x] = b.pending[x]
         /\ Reduce(b, m).pending[m] = <<>>
         /\ Reduce(b, m).pushed = b.pushed
         /\ Reduce(b, m).emitted = Append(b.emitted, Parent(b.pending[m]))
         /\ Reduce(b, m).up = <<Parent(b.pending[m])>>
<1> DEFINE p == b.pending
           q == b.pushed
           e == b.emitted
           u == b.up
           r == Put(p, m, <<>>)
           node == Parent(p[m])
           x1 == Append(e, node)
<1>1. b = BuilderOf(p, q, e, u) /\ IsSeq(p) /\ IsSeq(q) /\ Len(p) = Len(q) /\ m \in 1..Len(p)
  BY DEF IsBuilder
<1> HIDE DEF p, q, e, u
<1>2. Reduce(b, m) = BuilderOf(r, q, x1, <<node>>)
  BY <1>1, Reducing
<1>3. IsSeq(r) /\ Len(r) = Len(p)
  BY <1>1, Replaced
<1>4. r[m] = <<>>
  BY <1>1, Replaced
<1>5. \A x \in 1..Len(p) : x # m => r[x] = p[x]
  BY <1>1, Replaced
<1> HIDE DEF r, node, x1
<1>6. /\ Reduce(b, m).pending = r /\ Reduce(b, m).pushed = q
      /\ Reduce(b, m).emitted = x1 /\ Reduce(b, m).up = <<node>>
  BY <1>2, BuilderParts
<1>7. IsBuilder(Reduce(b, m))
  BY <1>1, <1>2, <1>3, <1>6 DEF IsBuilder
<1>. QED
  BY <1>3, <1>4, <1>5, <1>6, <1>7 DEF p, q, e, x1, node

\* The cuts from level l up, when a node is on its way there.
Pieces(c, chunks, l, e) ==
  /\ e[Len(c.pending) + 1] = <<>>
  /\ \A x \in l..Len(c.pending) :
        IsSeq(e[x]) /\ e[x] = e[x + 1] \o Flat(chunks, x, Grouped(c, x, l), c.pushed[x])

\* The cuts above a level are those of the levels there.
LEMMA CutsAbove ==
  ASSUME NEW chunks, NEW b, Len(b.pending) \in Nat, NEW k \in Nat \ {0}, NEW l \in Nat \ {0}, k <= l,
         l <= Len(b.pending) + 1,
         NEW e, Cuts(b, chunks, k, 0, e), NEW c, Len(c.pending) = Len(b.pending), c.pushed = b.pushed
  PROVE  Pieces(c, chunks, l, e) /\ IsSeq(e[l])
<1> DEFINE N == Len(b.pending)
<1>1. /\ e[N + 1] = <<>> /\ b.emitted = e[k]
      /\ \A x \in k..N : IsSeq(e[x]) /\ e[x] = e[x + 1] \o Flat(chunks, x, Grouped(b, x, 0), b.pushed[x])
  BY DEF Cuts
<1>2. ASSUME NEW x \in l..N PROVE x \in k..N /\ Grouped(c, x, l) = Grouped(b, x, 0)
  <2>1. x \in k..N /\ x + 1 # l /\ x + 1 # 0
    <3> HIDE DEF N
    <3>. QED
      OBVIOUS
  <2>. QED
    BY <2>1 DEF Grouped, Came
<1>3. IsSeq(e[l])
  <2>1. l \in k..N \/ l = N + 1
    <3> HIDE DEF N
    <3>1. N \in Nat /\ l <= N + 1
      BY DEF N
    <3>. QED
      BY <3>1
  <2>. QED
    BY <1>1, <2>1, NoneSeq
<1>. QED
  BY <1>1, <1>2, <1>3 DEF Pieces

\* A node comes to level l: what is below it is emitted, and it.
LEMMA TraceComes ==
  ASSUME NEW chunks, NEW b, Len(b.pending) \in Nat, NEW l \in Nat \ {0}, l <= Len(b.pending) + 1,
         Traced(b, chunks, l, 0),
         NEW c, Len(c.pending) = Len(b.pending), c.pushed = b.pushed,
         c.emitted = b.emitted \o Orders(chunks)[l - 1][Came(b, l) + 1]
  PROVE  Traced(c, chunks, l, l)
<1>1. PICK e : Cuts(b, chunks, l, 0, e)
  BY DEF Traced
<1>2. b.emitted = e[l]
  BY <1>1 DEF Cuts
<1>3. Pieces(c, chunks, l, e)
  <2>1. l <= l /\ l \in Nat \ {0} /\ l <= Len(b.pending) + 1 /\ Len(b.pending) \in Nat
    OBVIOUS
  <2>2. Len(c.pending) = Len(b.pending) /\ c.pushed = b.pushed
    OBVIOUS
  <2>. QED
    BY ONLY <1>1, <2>1, <2>2, CutsAbove
<1>4. Came(c, l) = Came(b, l) /\ l # 0 /\ l..(l - 1) = {}
  BY DEF Came
<1>5. c.emitted = e[l] \o Orders(chunks)[l - 1][Came(c, l) + 1]
  BY <1>2, <1>4
<1>. QED
  BY <1>3, <1>4, <1>5 DEF Cuts, Traced, Pieces

\* The nodes that wait on a level get a parent on its way to the level above.
LEMMA TraceCloses ==
  ASSUME NEW chunks, NEW b, Len(b.pending) \in Nat, NEW v \in 1..Len(b.pending),
         Traced(b, chunks, v, 0), NEW node,
         NEW c, Len(c.pending) = Len(b.pending), c.pushed = b.pushed,
         c.emitted = Append(b.emitted, node),
         IsSeq(Flat(chunks, v, Came(b, v + 1), b.pushed[v])),
         Orders(chunks)[v][Came(b, v + 1) + 1] = Append(Flat(chunks, v, Came(b, v + 1), b.pushed[v]), node)
  PROVE  Traced(c, chunks, v + 1, v + 1)
<1> DEFINE l == v + 1
           y == Flat(chunks, v, Came(b, v + 1), b.pushed[v])
<1>1. PICK e : Cuts(b, chunks, v, 0, e)
  BY DEF Traced
<1>2. l \in Nat \ {0} /\ v \in Nat \ {0} /\ v <= l /\ l <= Len(b.pending) + 1 /\ l - 1 = v /\ l # 0 /\ l..(l - 1) = {}
  OBVIOUS
<1>3. b.emitted = e[v] /\ e[v] = e[v + 1] \o y
  <2>1. v \in v..Len(b.pending) /\ v + 1 # 0
    OBVIOUS
  <2>. QED
    BY <1>1, <2>1 DEF Cuts, Grouped
<1> HIDE DEF l
<1>4. Pieces(c, chunks, l, e) /\ IsSeq(e[l])
  <2>1. Len(c.pending) = Len(b.pending) /\ c.pushed = b.pushed /\ Len(b.pending) \in Nat
    OBVIOUS
  <2>. QED
    BY ONLY <1>1, <1>2, <2>1, CutsAbove
<1>5. Came(c, l) = Came(b, v + 1)
  BY DEF Came, l
<1> HIDE DEF y
<1>6. IsSeq(y)
  BY DEF y
<1>7. c.emitted = e[l] \o Append(y, node)
  <2> DEFINE f == e[v + 1]
             n == <<node>>
             q == b.emitted
  <2>1. IsSeq(f) /\ IsSeq(y) /\ IsSeq(n) /\ q = f \o y
    BY <1>3, <1>4, <1>6, OneSeq DEF l
  <2>2. c.emitted = Append(q, node)
    OBVIOUS
  <2> HIDE DEF f, q
  <2>3. IsSeq(q)
    BY ONLY <2>1, Joined
  <2>4. Append(q, node) = q \o n /\ Append(y, node) = y \o n
    BY ONLY <2>1, <2>3, Appended
  <2> HIDE DEF n
  <2>5. (f \o y) \o n = f \o (y \o n)
    BY ONLY <2>1, Regrouped
  <2>6. e[l] = f
    BY DEF f, l
  <2>. QED
    BY ONLY <2>1, <2>2, <2>4, <2>5, <2>6
<1>8. c.emitted = e[l] \o Orders(chunks)[l - 1][Came(c, l) + 1]
  BY <1>2, <1>5, <1>7 DEF y
<1>9. Traced(c, chunks, l, l)
  BY <1>2, <1>4, <1>8 DEF Cuts, Traced, Pieces
<1>. QED
  BY <1>9 DEF l

\* No node waits on a level.
LEMMA TraceSkips ==
  ASSUME NEW chunks, NEW b, Len(b.pending) \in Nat, NEW v \in 1..Len(b.pending),
         Traced(b, chunks, v, 0), Flat(chunks, v, Came(b, v + 1), b.pushed[v]) = <<>>
  PROVE  Traced(b, chunks, v + 1, 0)
<1> DEFINE N == Len(b.pending)
<1>1. PICK e : Cuts(b, chunks, v, 0, e)
  BY DEF Traced
<1>2. /\ e[N + 1] = <<>> /\ b.emitted = e[v]
      /\ \A x \in v..N : IsSeq(e[x]) /\ e[x] = e[x + 1] \o Flat(chunks, x, Grouped(b, x, 0), b.pushed[x])
  BY <1>1 DEF Cuts
<1>3. N \in Nat /\ v \in v..N /\ v + 1 # 0 /\ (v + 1 \in v..N \/ v + 1 = N + 1) /\ \A x \in (v + 1)..N : x \in v..N
  <2>1. N \in Nat /\ v \in 1..N
    OBVIOUS
  <2> HIDE DEF N
  <2>. QED
    BY ONLY <2>1
<1>4. e[v] = e[v + 1] \o <<>>
  BY <1>2, <1>3 DEF Grouped
<1>5. e[v] = e[v + 1]
  <2>1. IsSeq(e[v + 1])
    BY <1>2, <1>3, NoneSeq
  <2>. QED
    BY <1>4, <2>1, WithNone
<1> HIDE DEF N
<1>6. /\ e[N + 1] = <<>> /\ b.emitted = e[v + 1]
      /\ \A x \in (v + 1)..N : IsSeq(e[x]) /\ e[x] = e[x + 1] \o Flat(chunks, x, Grouped(b, x, 0), b.pushed[x])
  BY <1>2, <1>3, <1>5
<1>. QED
  BY <1>6 DEF Cuts, Traced, N

\* A node of its layer comes to level l, where the levels from l up are as they should be.
LEMMA Lifted ==
  ASSUME NEW chunks, NEW b, NEW k \in Nat \ {0}, NEW l \in Nat \ {0}, k <= l,
         Rising(b, chunks, k, 0), l <= Len(b.pending) + 1, l - 1 \in 0..Len(chunks),
         Came(b, l) < Len(Layers(chunks)[l - 1]),
         NEW c, IsBuilder(c), Len(c.pending) = Len(b.pending), c.pushed = b.pushed,
         \A x \in l..Len(b.pending) : c.pending[x] = b.pending[x],
         c.up = <<Layers(chunks)[l - 1][Came(b, l) + 1]>>, Traced(c, chunks, l, l)
  PROVE  Rising(c, chunks, l, l) /\ \A x \in Int : Came(c, x) = Came(b, x)
<1>1. ASSUME NEW x \in Int PROVE Came(c, x) = Came(b, x)
  BY DEF Came
<1>2. Shaped(b) /\ Len(b.pending) \in Nat
  <2>1. Shaped(b) /\ l \in Int
    BY DEF Rising
  <2>. QED
    BY <2>1, CameIs
<1>3. Shaped(c)
  BY <1>2 DEF Shaped
<1>4. ASSUME NEW x \in l..Len(c.pending) PROVE LevelIs(c, chunks, x, Grouped(c, x, l))
  <2>1. x \in k..Len(b.pending) /\ x \in l..Len(b.pending) /\ x + 1 \in Int /\ x + 1 # l /\ x + 1 # 0
    <3>1. x \in Int /\ x >= l /\ x >= k
      BY <1>2
    <3>. QED
      BY <1>2, <3>1
  <2>2. LevelIs(b, chunks, x, Grouped(b, x, 0))
    BY <2>1 DEF Rising
  <2>3. Grouped(c, x, l) = Grouped(b, x, 0)
    BY <1>1, <2>1 DEF Grouped
  <2>4. c.pending[x] = b.pending[x]
    BY <2>1
  <2>. QED
    BY <2>2, <2>3, <2>4 DEF LevelIs
<1>5. l \in l..(Len(c.pending) + 1)
  BY <1>2
<1>6. Came(c, l) = Came(b, l)
  BY <1>1
<1>7. Rising(c, chunks, l, l)
  BY <1>3, <1>4, <1>5, <1>6 DEF Rising
<1>. QED
  BY <1>1, <1>7

\* The builder after the first n chunks.
Fed(b, chunks, n) == Rising(b, chunks, 1, 0) /\ Came(b, 1) = n

\* A new builder took no chunks.
LEMMA NewIsFed == ASSUME NEW chunks PROVE Fed(NewBuilder, chunks, 0)
<1>1. NewBuilder = BuilderOf(<<>>, <<>>, <<>>, <<>>)
  BY DEF NewBuilder, BuilderOf
<1>2. NewBuilder.pending = <<>> /\ NewBuilder.pushed = <<>> /\ NewBuilder.emitted = <<>> /\ NewBuilder.up = <<>>
  BY <1>1, BuilderParts
<1>3. IsSeq(<<>>) /\ Len(<<>>) = 0
  BY NoneSeq
<1>4. IsBuilder(NewBuilder)
  BY <1>1, <1>2, <1>3 DEF IsBuilder
<1>5. Len(NewBuilder.pending) = 0 /\ \A x : x \notin 1..0
  BY <1>2, <1>3
<1>6. Shaped(NewBuilder) /\ Came(NewBuilder, 1) = 0
  BY <1>4, <1>5 DEF Shaped, Came
<1>7. Traced(NewBuilder, chunks, 1, 0)
  <2> DEFINE e == [x \in Nat |-> <<>>]
  <2>1. e[1] = <<>> /\ 0 + 1 = 1 /\ \A x \in 1..0 : FALSE
    OBVIOUS
  <2> HIDE DEF e
  <2>2. Cuts(NewBuilder, chunks, 1, 0, e)
    BY <1>2, <1>5, <2>1 DEF Cuts
  <2>. QED
    BY <2>2 DEF Traced
<1>8. \A x \in 1..Len(NewBuilder.pending) : FALSE
  BY <1>5
<1>. QED
  BY <1>2, <1>6, <1>7, <1>8 DEF Fed, Rising

\* push_chunk: a builder that took the first n chunks has taken the next one too.
LEMMA PushChunkIs ==
  ASSUME NEW chunks, IsSeq(chunks), Len(chunks) > 0,
         NEW b, NEW n \in Nat, n < Len(chunks), Fed(b, chunks, n)
  PROVE  Fed(PushChunk(b, chunks[n + 1]), chunks, n + 1)
<1> DEFINE c == Emit(b, Leaf(chunks[n + 1]))
<1>1. /\ Rising(b, chunks, 1, 0) /\ Came(b, 1) = n /\ IsBuilder(b) /\ Len(b.pending) \in Nat
      /\ Len(chunks) \in Nat
  <2>1. Rising(b, chunks, 1, 0) /\ Came(b, 1) = n /\ Shaped(b) /\ 1 \in Int
    BY DEF Fed, Rising
  <2>2. Len(b.pending) \in Nat
    BY <2>1, CameIs
  <2>. QED
    BY <2>1, <2>2, SeqParts DEF Shaped
<1>2. /\ IsBuilder(c) /\ c.pending = b.pending /\ c.pushed = b.pushed /\ c.up = <<Leaf(chunks[n + 1])>>
      /\ c.emitted = Append(b.emitted, Leaf(chunks[n + 1]))
  BY <1>1, EmitIs
<1> HIDE DEF c
<1>3. Layers(chunks)[0] = [i \in 1..Len(chunks) |-> Leaf(chunks[i])]
  BY LayersAre
<1>4. Len(Layers(chunks)[0]) = Len(chunks) /\ Layers(chunks)[0][n + 1] = Leaf(chunks[n + 1])
  <2> DEFINE q == Layers(chunks)[0]
  <2>1. q = [i \in 1..Len(chunks) |-> q[i]] /\ q[n + 1] = Leaf(chunks[n + 1])
    <3>1. n + 1 \in 1..Len(chunks)
      BY <1>1
    <3>. QED
      BY <1>3, <3>1
  <2> HIDE DEF q
  <2>2. Len(q) = Len(chunks)
    BY <1>1, <2>1, ValuesAreSeq
  <2>. QED
    BY <2>1, <2>2 DEF q
<1>4a. Traced(c, chunks, 1, 1)
  <2> DEFINE node == Leaf(chunks[n + 1])
  <2>1. Traced(b, chunks, 1, 0) /\ 1 <= Len(b.pending) + 1 /\ 1 - 1 = 0 /\ n + 1 \in 1..Len(chunks)
    BY <1>1 DEF Rising
  <2>2. Orders(chunks)[0][n + 1] = <<node>>
    BY <2>1, OrdersAre
  <2>3. IsSeq(b.emitted)
    <3>1. PICK e : Cuts(b, chunks, 1, 0, e)
      BY <2>1 DEF Traced
    <3>2. b.emitted = e[1] /\ 1 <= 1 /\ 1 \in Nat \ {0} /\ Len(b.pending) = Len(b.pending) /\ b.pushed = b.pushed
      BY <3>1 DEF Cuts
    <3>3. IsSeq(e[1])
      BY ONLY <1>1, <2>1, <3>1, <3>2, CutsAbove
    <3>. QED
      BY <3>2, <3>3
  <2> HIDE DEF node
  <2>4. Append(b.emitted, node) = b.emitted \o <<node>>
    BY ONLY <2>3, Appended
  <2>5. c.emitted = b.emitted \o Orders(chunks)[1 - 1][Came(b, 1) + 1]
    BY <1>1, <1>2, <2>1, <2>2, <2>4 DEF node
  <2>6. 1 \in Nat \ {0} /\ Len(c.pending) = Len(b.pending)
    BY <1>2
  <2>. QED
    BY ONLY <1>1, <1>2, <2>1, <2>5, <2>6, TraceComes
<1>5. Rising(c, chunks, 1, 1) /\ \A x \in Int : Came(c, x) = Came(b, x)
  <2> DEFINE l == 1
  <2>0. l - 1 = 0 /\ l \in Nat \ {0} /\ l <= l
    OBVIOUS
  <2>1. Rising(b, chunks, l, 0) /\ Came(b, l) = n /\ Traced(c, chunks, l, l) /\ l <= Len(b.pending) + 1
    BY <1>1, <1>4a
  <2> HIDE DEF l
  <2>2. Came(b, l) < Len(Layers(chunks)[l - 1]) /\ l - 1 \in 0..Len(chunks)
    BY <1>1, <1>4, <2>0, <2>1
  <2>3. c.up = <<Layers(chunks)[l - 1][Came(b, l) + 1]>>
    BY <1>2, <1>4, <2>0, <2>1
  <2>4. /\ IsBuilder(c) /\ Len(c.pending) = Len(b.pending) /\ c.pushed = b.pushed
        /\ \A x \in l..Len(b.pending) : c.pending[x] = b.pending[x]
    BY <1>2
  <2>5. Rising(c, chunks, l, l) /\ \A x \in Int : Came(c, x) = Came(b, x)
    BY ONLY <2>0, <2>1, <2>2, <2>3, <2>4, Lifted
  <2>. QED
    BY <2>5 DEF l
<1>6. PushChunk(b, chunks[n + 1]) = Push(c, 1)
  BY DEF PushChunk, c
<1>7. Rising(Push(c, 1), chunks, 1, 0)
  BY <1>5, PushIs
<1>8. Came(Push(c, 1), 1) = Came(c, 1) + 1
  BY <1>5, PushIs
<1>9. Came(c, 1) = n
  BY <1>1, <1>5
<1>. QED
  BY <1>6, <1>7, <1>8, <1>9 DEF Fed

\* The chunks may come a few at a time: the builder does not tell the steps apart.
LEMMA PushChunksIs ==
  ASSUME NEW chunks, IsSeq(chunks), Len(chunks) > 0,
         NEW b, NEW n \in Nat, NEW m \in Nat, n <= m, m <= Len(chunks), Fed(b, chunks, n)
  PROVE  Fed(PushChunks(b, Part(chunks, n, m)), chunks, m)
<1> DEFINE values == Part(chunks, n, m)
           V == m - n
<1>1. Len(values) = V /\ V \in Nat /\ \A k \in 1..V : values[k] = chunks[n + k]
  <2>1. V \in Nat
    OBVIOUS
  <2>2. Len(values) = m - n /\ \A k \in 1..(m - n) : values[k] = chunks[n + k]
    BY PartIs
  <2>. QED
    BY <2>1, <2>2
<1>2. PushChunks(b, values) = Loop(PushChunk, b, values)
  BY DEF PushChunks
<1> HIDE DEF values, V
<1>3. PICK after : Turns(after, "chunk", b, values, V) /\ Loop(PushChunk, b, values) = after[V]
  BY <1>1, ChunkLoop
<1>4. after[0] = b /\ \A k \in 1..V : k - 1 \in 0..V /\ after[k] = PushChunk(after[k - 1], values[k])
  <2>1. ASSUME NEW now, NEW v PROVE Turn("chunk", now, v) = PushChunk(now, v)
    BY DEF Turn
  <2>2. after[0] = b /\ \A k \in 1..V : k - 1 \in 0..V /\ after[k] = Turn("chunk", after[k - 1], values[k])
    <3>1. V \in Nat /\ Turns(after, "chunk", b, values, V)
      BY <1>1, <1>3
    <3>. QED
      BY ONLY <3>1, TurnsAre
  <2>. QED
    BY <2>1, <2>2
<1> DEFINE T == {k \in Nat : Fed(after[k], chunks, n + k)}
<1>5. 0 \in T
  BY <1>4
<1>6. ASSUME NEW k \in 0..V, k \in T, k < V PROVE k + 1 \in T
  <2> DEFINE j == k + 1
             x == n + k
  <2>1. j \in 1..V /\ j - 1 = k /\ x \in Nat /\ x < Len(chunks) /\ n + j = x + 1 /\ j \in Nat
    <3>1. Len(chunks) \in Nat
      BY SeqParts
    <3>. QED
      BY <1>1, <1>6, <3>1 DEF V
  <2>2. values[j] = chunks[x + 1]
    BY <1>1, <2>1
  <2>3. Fed(after[k], chunks, x)
    BY <1>6
  <2>4. after[j] = PushChunk(after[k], chunks[x + 1])
    BY <1>4, <2>1, <2>2
  <2> HIDE DEF j, x
  <2>5. Fed(after[j], chunks, x + 1)
    BY <2>1, <2>3, <2>4, PushChunkIs
  <2>6. j \in T
    BY <2>1, <2>5
  <2>. QED
    BY <2>6 DEF j
<1>7. V \in T
  <2> HIDE DEF T
  <2>1. \A k \in 0..V : k \in T
    BY <1>1, <1>5, <1>6, Ascent
  <2>. QED
    BY <1>1, <2>1
<1>8. n + V = m
  BY DEF V
<1>. QED
  BY <1>2, <1>3, <1>7, <1>8 DEF values

\* The lowest layer has a leaf for every chunk.
LEMMA LeafLayer ==
  ASSUME NEW chunks, IsSeq(chunks)
  PROVE  Len(Layers(chunks)[0]) = Len(chunks)
<1> DEFINE q == Layers(chunks)[0]
<1>1. q = [i \in 1..Len(chunks) |-> Leaf(chunks[i])]
  BY LayersAre
<1>2. q = [i \in 1..Len(chunks) |-> q[i]] /\ Len(chunks) \in Nat
  BY <1>1, SeqParts
<1> HIDE DEF q
<1>3. Len(q) = Len(chunks)
  BY <1>2, ValuesAreSeq
<1>. QED
  BY <1>3 DEF q

\* With all the chunks pushed, the builder has a level for every layer below the root's.
LEMMA LevelsForAll ==
  ASSUME NEW chunks, IsSeq(chunks), Len(chunks) > 0,
         NEW b, Fed(b, chunks, Len(chunks))
  PROVE  Height(chunks) <= Len(b.pending)
<1> DEFINE N == Len(b.pending)
           H == Height(chunks)
           K == Len(chunks)
           L == Layers(chunks)
           T == {x \in Nat : x <= N => Len(L[x]) <= Came(b, x + 1) + 1}
<1>1. Shaped(b) /\ N \in Nat /\ K \in Nat /\ Came(b, 1) = K /\ Fanout \in Nat \ {0, 1}
  <2>1. Shaped(b) /\ Came(b, 1) = K /\ 1 \in Int
    BY DEF Fed, Rising
  <2>. QED
    BY <2>1, CameIs, SeqParts, UnixFsAssumption
<1>2. H \in 0..K /\ \A m \in 0..(H - 1) : Len(L[m]) > 1
  BY HeightIs
<1>3. \A x \in Int : Came(b, x) \in Nat
  BY <1>1, CameIs
<1> SUFFICES ASSUME N < H PROVE FALSE
  BY <1>1, <1>2
<1>4. 0 \in T
  <2>1. Len(L[0]) = K
    BY LeafLayer
  <2>2. 0 + 1 = 1
    OBVIOUS
  <2> HIDE DEF L
  <2>3. Len(L[0]) <= Came(b, 0 + 1) + 1
    BY <1>1, <2>1, <2>2
  <2>. QED
    BY <2>3
<1>5. ASSUME NEW x \in 0..N, x \in T, x < N PROVE x + 1 \in T
  <2> DEFINE y == x + 1
             c == Came(b, y + 1)
             above == Len(L[y])
             below == Len(L[x])
             d == c + 1
  <2>1. y \in 1..N /\ y \in Nat /\ y \in 1..K /\ x \in 0..K /\ y - 1 = x /\ y + 1 \in Int
    <3> HIDE DEF N, H, K
    <3>. QED
      BY <1>1, <1>2, <1>5
  <2>2. c \in Nat
    BY <1>3, <2>1
  <2>3. Came(b, y) < Fanout * c + Fanout
    <3>1. LevelIs(b, chunks, y, Grouped(b, y, 0))
      BY <2>1 DEF Fed, Rising
    <3>2. Grouped(b, y, 0) = c
      <4>1. y + 1 # 0
        BY <2>1
      <4> HIDE DEF y
      <4>. QED
        BY <4>1 DEF Grouped
    <3>3. Came(b, y) = b.pushed[y]
      BY <2>1 DEF Came
    <3> HIDE DEF c, y
    <3>. QED
      BY <3>1, <3>2, <3>3 DEF LevelIs
  <2>4. below <= Came(b, y) + 1
    BY <1>5
  <2>5. below \in Nat /\ above \in Nat /\ Fanout * above < below + Fanout
    <3>1. IsSeq(L[x]) /\ Len(L[x]) \in Nat /\ Len(L[y]) \in Nat
      <4>1. y \in 0..K
        BY <2>1
      <4> HIDE DEF y
      <4>. QED
        BY <2>1, <4>1, LayerSizes
    <3>2. IsSeq(Layers(chunks)[y - 1]) /\ y \in 1..Len(chunks)
      BY <2>1, <3>1
    <3> HIDE DEF y
    <3>3. Fanout * Len(Layers(chunks)[y]) < Len(Layers(chunks)[y - 1]) + Fanout
      BY <3>2, LayerAbove
    <3>. QED
      BY <2>1, <3>1, <3>3
  <2>6. Came(b, y) \in Nat
    BY <1>3, <2>1
  <2> HIDE DEF y, c, above, below
  <2>7. Fanout * d = Fanout * c + Fanout
    BY <1>1, <2>2, Products
  <2> HIDE DEF d
  <2>8. Fanout * above < Fanout * d + Fanout
    <3>1. Fanout * c \in Nat /\ Fanout * above \in Nat
      BY <1>1, <2>2, <2>5
    <3>. QED
      BY <1>1, <2>3, <2>4, <2>5, <2>6, <2>7, <3>1
  <2>9. above <= d
    <3>1. d \in Nat
      BY <2>2 DEF d
    <3>. QED
      BY <1>1, <2>5, <2>8, <3>1, Products
  <2>10. y \in T
    BY <2>1, <2>9 DEF above, d, c
  <2>. QED
    BY <2>10 DEF y
<1>6. N \in T
  <2> HIDE DEF T
  <2>1. \A k \in 0..N : k \in T
    BY <1>1, <1>4, <1>5, Ascent
  <2>. QED
    BY <1>1, <2>1
<1>7. Came(b, N + 1) = 0
  BY <1>1 DEF Came
<1>8. Len(L[N]) <= 1 /\ N \in 0..(H - 1) /\ Len(L[N]) \in Nat
  <2>1. N \in 0..K
    BY <1>1, <1>2
  <2>2. Len(L[N]) \in Nat
    BY <2>1, LayerSizes
  <2>. QED
    BY <1>1, <1>2, <1>6, <1>7, <2>2
<1> DEFINE z == Len(L[N])
<1>9. z \in Nat /\ z <= 1 /\ z > 1
  BY <1>2, <1>8
<1> HIDE DEF z
<1>. QED
  BY <1>9

(***************************************************************************)
(* finish.                                                                 *)
(***************************************************************************)
\* The levels up to q have all the nodes of their layers, and a parent for each group
\* of them.
Closed(b, chunks, q) ==
  /\ Rising(b, chunks, q + 1, 0)
  /\ \A x \in 1..(q + 1) : Came(b, x) = Len(Layers(chunks)[x - 1])

\* finish's turn at a level below the root's: the links left over get a parent, and
\* the level above then has all of its layer.
LEMMA CloseStep ==
  ASSUME NEW chunks, IsSeq(chunks), Len(chunks) > 0,
         NEW b, NEW q \in Nat, q < Height(chunks), Closed(b, chunks, q)
  PROVE  Closed(Close(b, q + 1), chunks, q + 1) /\ Len(Close(b, q + 1).pending) >= Len(b.pending)
<1> DEFINE N == Len(b.pending)
           K == Len(chunks)
           v == q + 1
           D == Layers(chunks)[q]
           d == Len(D)
           c == Len(Layers(chunks)[v])
           g == Came(b, v + 1)
           a == Fanout * g
<1>1. Shaped(b) /\ IsBuilder(b) /\ N \in Nat /\ K \in Nat /\ Fanout \in Nat \ {0, 1} /\ g \in Nat /\ v \in Nat \ {0} /\ v - 1 = q
  <2>1. Shaped(b) /\ v + 1 \in Int
    BY DEF Closed, Rising
  <2>. QED
    BY <2>1, CameIs, SeqParts, UnixFsAssumption DEF Shaped
<1>2. q \in 0..K /\ v \in 1..K /\ v \in 0..K /\ d > 1
  <2>1. Height(chunks) \in 0..Len(chunks) /\ \A m \in 0..(Height(chunks) - 1) : Len(Layers(chunks)[m]) > 1
    BY HeightIs
  <2>2. q \in 0..(Height(chunks) - 1)
    BY <2>1
  <2>. QED
    BY <1>1, <2>1, <2>2
<1>3. /\ IsSeq(D) /\ d \in Nat /\ c \in Nat /\ d <= Fanout * c /\ Fanout * c < d + Fanout
      /\ \A i \in 1..c : Layers(chunks)[v][i] = Parent(Siblings(D, i))
  <2>1. IsSeq(D) /\ d \in Nat /\ c \in Nat
    <3> HIDE DEF v
    <3>. QED
      BY <1>2, LayerSizes
  <2>2. IsSeq(Layers(chunks)[v - 1]) /\ v \in 1..Len(chunks)
    BY <1>1, <1>2, <2>1
  <2> HIDE DEF v
  <2>3. /\ Len(Layers(chunks)[v - 1]) <= Fanout * Len(Layers(chunks)[v])
        /\ Fanout * Len(Layers(chunks)[v]) < Len(Layers(chunks)[v - 1]) + Fanout
        /\ \A i \in 1..Len(Layers(chunks)[v]) : Layers(chunks)[v][i] = Parent(Siblings(Layers(chunks)[v - 1], i))
    BY <2>2, LayerAbove
  <2>. QED
    BY <1>1, <2>1, <2>3
<1>4. Came(b, v) = d /\ \A x \in 1..v : Came(b, x) = Len(Layers(chunks)[x - 1])
  <2>1. \A x \in 1..v : Came(b, x) = Len(Layers(chunks)[x - 1])
    BY DEF Closed
  <2>2. v \in 1..v
    BY <1>1
  <2>. QED
    BY <1>1, <2>1, <2>2
<1>5. v \in 1..N /\ b.pushed[v] = d
  <2>1. d # 0
    BY <1>2, <1>3
  <2> HIDE DEF d, v
  <2>. QED
    BY <1>4, <2>1 DEF Came
<1>6. Rising(b, chunks, v, 0)
  BY DEF Closed
<1>7. a <= d /\ d < a + Fanout /\ b.pending[v] = Part(D, a, d)
  <2>1. LevelIs(b, chunks, v, Grouped(b, v, 0))
    BY <1>5, <1>6, <1>1 DEF Rising
  <2>2. Grouped(b, v, 0) = g
    <3>1. v + 1 # 0
      BY <1>1
    <3> HIDE DEF v
    <3>. QED
      BY <3>1 DEF Grouped
  <2> HIDE DEF v, g, d
  <2>. QED
    BY <1>1, <1>5, <2>1, <2>2 DEF LevelIs
<1>8. a \in Nat
  BY <1>1
\* A level above.
<1>9. ASSUME NEW e, (Rising(e, chunks, v, 0) /\ Traced(e, chunks, v + 1, 0)) \/ Rising(e, chunks, v + 1, 0),
             Came(e, v + 1) = c, \A x \in 1..v : Came(e, x) = Came(b, x)
      PROVE  Closed(e, chunks, v)
  <2>1. Rising(e, chunks, v + 1, 0)
    <3>1. CASE Rising(e, chunks, v, 0) /\ Traced(e, chunks, v + 1, 0)
      <4>1. \A x \in (v + 1)..Len(e.pending) : x \in v..Len(e.pending)
        <5>1. Shaped(e) /\ v \in Int
          BY <1>1, <3>1 DEF Rising
        <5>2. Len(e.pending) \in Nat
          BY <5>1, CameIs
        <5>. QED
          BY <1>1, <5>2
      <4> HIDE DEF v
      <4>. QED
        BY <3>1, <4>1 DEF Rising
    <3>. QED
      BY <1>9, <3>1
  <2>2. ASSUME NEW x \in 1..(v + 1) PROVE Came(e, x) = Len(Layers(chunks)[x - 1])
    <3>1. x \in 1..v \/ (x = v + 1 /\ x - 1 = v)
      BY <1>1
    <3> HIDE DEF v
    <3>. QED
      BY <1>4, <1>9, <3>1 DEF c
  <2> HIDE DEF v
  <2>. QED
    BY <2>1, <2>2 DEF Closed
<1>10. b.pushed[v] > 1
  BY <1>2, <1>5
<1>11. CASE b.pending[v] = <<>>
  <2>1. Close(b, v) = b
    BY <1>11 DEF Close
  <2>2. a = d
    <3> HIDE DEF a, d
    <3>1. Len(Part(D, a, d)) = d - a
      BY <1>3, <1>7, <1>8, PartIs
    <3>2. Len(<<>>) = 0
      BY NoneSeq
    <3>. QED
      BY <1>3, <1>7, <1>8, <1>11, <3>1, <3>2
  <2>3. g = c
    <3> HIDE DEF d, c, g
    <3>1. Fanout * g <= Fanout * c /\ Fanout * c < Fanout * g + Fanout
      BY <1>3, <2>2
    <3>2. c <= g
      BY <1>1, <1>3, <3>1, Products
    <3>3. Fanout * g < Fanout * c + Fanout
      <4>1. Fanout * g \in Nat /\ Fanout * c \in Nat
        BY <1>1, <1>3
      <4>. QED
        BY <1>1, <3>1, <4>1
    <3>4. g <= c
      BY <1>1, <1>3, <3>3, Products
    <3>. QED
      BY <1>1, <1>3, <3>2, <3>4
  <2>4. Traced(b, chunks, v + 1, 0)
    <3>1. Flat(chunks, v, g, b.pushed[v]) = FlattenSeq(Part(Orders(chunks)[v - 1], a, d))
      BY <1>5 DEF Flat
    <3> DEFINE s == Orders(chunks)[v - 1]
    <3> HIDE DEF s, a, d
    <3>2. Part(s, a, d) = <<>>
      BY <1>3, <2>2, PartOfNone
    <3>3. Flat(chunks, v, g, b.pushed[v]) = <<>>
      BY <3>1, <3>2, FlattenNone DEF s
    <3>4. Traced(b, chunks, v, 0)
      BY <1>6 DEF Rising
    <3> HIDE DEF v
    <3>5. Flat(chunks, v, Came(b, v + 1), b.pushed[v]) = <<>>
      BY <3>3
    <3>. QED
      BY ONLY <1>1, <1>5, <3>4, <3>5, TraceSkips DEF N
  <2>5. Closed(b, chunks, v)
    BY <1>6, <1>9, <2>3, <2>4
  <2>. QED
    BY <1>1, <2>1, <2>5
<1>12. CASE b.pending[v] # <<>>
  <2> DEFINE r == Reduce(b, v)
  <2>1. Close(b, v) = Push(r, v + 1)
    <3>1. ~(b.pushed[v] <= 1)
      BY <1>2, <1>3, <1>5
    <3>. QED
      BY <1>12, <3>1 DEF Close
  <2>2. a < d
    <3>1. a # d
      <4> SUFFICES ASSUME a = d PROVE FALSE
        OBVIOUS
      <4>1. b.pending[v] = Part(D, d, d)
        BY <1>7
      <4>2. Part(D, d, d) = <<>>
        BY <1>3, PartOfNone
      <4>. QED
        BY <1>12, <4>1, <4>2
    <3> HIDE DEF a, d
    <3>. QED
      BY <1>3, <1>7, <1>8, <3>1
  <2>3. c = g + 1
    <3> HIDE DEF d, c, g
    <3>1. Fanout * g < Fanout * c
      <4>1. Fanout * g \in Nat /\ Fanout * c \in Nat
        BY <1>1, <1>3
      <4>. QED
        BY <1>3, <2>2, <4>1
    <3>2. g < c
      BY <1>1, <1>3, <3>1, Products
    <3> DEFINE h == g + 1
    <3>3. h \in Nat /\ Fanout * h = Fanout * g + Fanout
      BY <1>1, Products
    <3> HIDE DEF h
    <3>4. Fanout * c < Fanout * h + Fanout
      <4>1. Fanout * g \in Nat /\ Fanout * c \in Nat
        BY <1>1, <1>3
      <4>2. d < Fanout * g + Fanout /\ Fanout * c < d + Fanout /\ d \in Nat
        BY <1>3, <1>7
      <4>. QED
        BY <1>1, <3>3, <4>1, <4>2
    <3>5. c <= h
      BY <1>1, <1>3, <3>3, <3>4, Products
    <3>. QED
      BY <1>1, <1>3, <3>2, <3>5 DEF h
  <2>4. Part(D, a, d) = Siblings(D, g + 1)
    <3> HIDE DEF g
    <3>1. Fanout * g <= Len(D) /\ d = IF Fanout * g + Fanout <= Len(D) THEN Fanout * g + Fanout ELSE Len(D)
      <4> HIDE DEF a, d
      <4>1. ~(a + Fanout <= d)
        BY <1>1, <1>3, <1>7, <1>8
      <4>. QED
        BY <1>7, <4>1 DEF a, d
    <3> HIDE DEF d, D
    <3>. QED
      BY <1>1, <1>3, <3>1, SiblingsAre DEF a
  <2>5. /\ IsBuilder(r) /\ Len(r.pending) = N /\ r.pushed = b.pushed
        /\ r.up = <<Parent(Part(D, a, d))>> /\ r.emitted = Append(b.emitted, Parent(Part(D, a, d)))
    <3>1. v \in 1..Len(b.pending)
      BY <1>5
    <3> HIDE DEF v, a, d, D
    <3>2. IsBuilder(r) /\ Len(r.pending) = Len(b.pending) /\ r.pushed = b.pushed
      BY <1>1, <3>1, ReduceIs
    <3>3. r.up = <<Parent(b.pending[v])>>
      BY <1>1, <3>1, ReduceIs
    <3>4. r.emitted = Append(b.emitted, Parent(b.pending[v]))
      BY <1>1, <3>1, ReduceIs
    <3>. QED
      BY <1>7, <3>2, <3>3, <3>4
  <2>6. \A x \in (v + 1)..N : r.pending[x] = b.pending[x]
    <3>1. v \in 1..Len(b.pending)
      BY <1>5
    <3>2. \A x \in (v + 1)..N : x \in 1..Len(b.pending) /\ x # v
      BY <1>1
    <3> HIDE DEF v
    <3>3. \A x \in 1..Len(b.pending) : x # v => r.pending[x] = b.pending[x]
      BY <1>1, <3>1, ReduceIs
    <3>. QED
      BY <3>2, <3>3
  <2>7. Layers(chunks)[v][g + 1] = Parent(Part(D, a, d)) /\ g < c
    <3>1. g + 1 \in 1..c /\ g < c
      <4> HIDE DEF c, g
      <4>. QED
        BY <1>1, <2>3
    <3> HIDE DEF c, a, d, D, v, g
    <3>. QED
      BY <1>3, <2>4, <3>1
  <2> DEFINE l == v + 1
  <2>7a. Traced(r, chunks, l, l)
    <3> DEFINE s == Orders(chunks)[v - 1]
               node == Parent(Part(D, a, d))
               y == FlattenSeq(Part(s, a, d))
    <3>1. Flat(chunks, v, g, b.pushed[v]) = y
      BY <1>5 DEF Flat
    <3>2. IsSeq(y)
      <4>1. \A k \in (a + 1)..d : IsSeq(s[k])
        <5>1. \A k \in (a + 1)..d : k \in 1..d
          <6> HIDE DEF a, d
          <6>. QED
            BY <1>3, <1>8
        <5>2. v - 1 \in 0..Len(chunks) /\ d = Len(Layers(chunks)[v - 1])
          BY <1>1, <1>2
        <5> HIDE DEF a, d
        <5>3. \A k \in 1..Len(Layers(chunks)[v - 1]) : IsSeq(s[k])
          BY <5>2, OrderIsSeq
        <5>. QED
          BY <5>1, <5>2, <5>3
      <4> HIDE DEF a, d, s
      <4>2. a \in Nat /\ d \in Nat /\ a <= d
        BY <1>3, <1>7, <1>8
      <4>. QED
        BY ONLY <4>1, <4>2, FlattenPartIs
    <3>3. Orders(chunks)[v][g + 1] = Append(y, node)
      <4>1. /\ g < Len(Layers(chunks)[v]) /\ g \in Nat /\ Fanout * g <= Len(Layers(chunks)[v - 1])
            /\ v \in 1..Len(chunks)
        BY <1>1, <1>2, <1>7, <2>7
      <4>2. d = IF Fanout * g + Fanout <= Len(Layers(chunks)[v - 1]) THEN Fanout * g + Fanout
                ELSE Len(Layers(chunks)[v - 1])
        <5>0. d = Len(Layers(chunks)[v - 1])
          BY <1>1
        <5> HIDE DEF d
        <5>1. ~(Fanout * g + Fanout <= d)
          <6>1. d < a + Fanout /\ d \in Nat /\ a \in Nat /\ Fanout \in Nat
            BY <1>1, <1>3, <1>7, <1>8
          <6>2. a = Fanout * g
            OBVIOUS
          <6> HIDE DEF a
          <6>. QED
            BY ONLY <6>1, <6>2
        <5>. QED
          BY ONLY <5>0, <5>1
      <4> HIDE DEF v, g, d
      <4>3. Orders(chunks)[v][g + 1]
               = Append(FlattenSeq(Part(Orders(chunks)[v - 1], Fanout * g, d)), Layers(chunks)[v][g + 1])
        <5>1. IsSeq(chunks) /\ Len(chunks) > 0
          OBVIOUS
        <5>. QED
          BY ONLY <4>1, <4>2, <5>1, OrderAbove
      <4>. QED
        BY <2>7, <4>3
    <3>4. Traced(b, chunks, v, 0)
      BY <1>6 DEF Rising
    <3>5. Len(b.pending) \in Nat /\ v \in 1..Len(b.pending) /\ Len(r.pending) = Len(b.pending)
          /\ r.pushed = b.pushed /\ r.emitted = Append(b.emitted, node)
      BY <1>1, <1>5, <2>5
    <3> HIDE DEF y, node, r, v
    <3>6. Traced(r, chunks, v + 1, v + 1)
      <4>1. IsSeq(Flat(chunks, v, Came(b, v + 1), b.pushed[v]))
        BY <3>1, <3>2
      <4>2. Orders(chunks)[v][Came(b, v + 1) + 1] = Append(Flat(chunks, v, Came(b, v + 1), b.pushed[v]), node)
        BY <3>1, <3>3
      <4>. QED
        BY ONLY <3>4, <3>5, <4>1, <4>2, TraceCloses
    <3>. QED
      BY <3>6 DEF l
  <2>8. Rising(r, chunks, l, l) /\ \A x \in Int : Came(r, x) = Came(b, x)
    <3>1. v \in Nat \ {0} /\ l \in Nat \ {0} /\ v <= l /\ l <= N + 1 /\ l - 1 = v
      BY <1>1, <1>5
    <3> HIDE DEF r, v, l, D, a, d
    <3>2. Came(b, l) = g
      BY DEF l
    <3> HIDE DEF g
    <3>3. Came(b, l) < Len(Layers(chunks)[l - 1]) /\ l - 1 \in 0..Len(chunks)
      BY <1>2, <2>7, <3>1, <3>2
    <3>4. r.up = <<Layers(chunks)[l - 1][Came(b, l) + 1]>>
      BY <2>5, <2>7, <3>1, <3>2
    <3>5. /\ Len(r.pending) = Len(b.pending) /\ r.pushed = b.pushed /\ l <= Len(b.pending) + 1 /\ IsBuilder(r)
          /\ Traced(r, chunks, l, l)
      BY <2>5, <2>7a, <3>1
    <3>6. \A x \in l..Len(b.pending) : r.pending[x] = b.pending[x]
      BY <2>6 DEF l
    <3>7. Rising(r, chunks, l, l)
      BY ONLY <1>6, <3>1, <3>3, <3>4, <3>5, <3>6, Lifted
    <3>8. \A x \in Int : Came(r, x) = Came(b, x)
      BY <3>5 DEF Came
    <3>. QED
      BY <3>7, <3>8
  <2> HIDE DEF r
  <2> DEFINE p == Push(r, l)
  <2>9. l \in Nat \ {0} /\ \A x \in 1..v : x \in 1..(l - 1) /\ x \in Int
    BY <1>1
  <2> HIDE DEF l, v
  <2>10. Rising(p, chunks, l, 0)
    BY <2>8, <2>9, PushIs
  <2>11. Came(p, l) = Came(r, l) + 1
    BY <2>8, <2>9, PushIs
  <2>12. \A x \in 1..(l - 1) : Came(p, x) = Came(r, x)
    BY <2>8, <2>9, PushIs
  <2>13. Len(p.pending) >= Len(r.pending)
    BY <2>8, <2>9, PushIs
  <2> HIDE DEF p
  <2>14. Came(p, v + 1) = c
    <3>1. Came(r, l) = g
      BY <2>8, <2>9 DEF l
    <3>. QED
      BY <2>3, <2>11, <3>1 DEF l
  <2>15. \A x \in 1..v : Came(p, x) = Came(b, x)
    BY <2>8, <2>9, <2>12
  <2>16. Closed(p, chunks, v)
    BY <1>9, <2>10, <2>14, <2>15 DEF l
  <2>17. Len(p.pending) >= N
    BY <2>5, <2>13
  <2>. QED
    BY <2>1, <2>16, <2>17 DEF p, l, v
<1>. QED
  BY <1>11, <1>12

\* At the root's level finish has nothing to do, and the root is that of the balanced
\* layout.
LEMMA CloseRoot ==
  ASSUME NEW chunks, IsSeq(chunks), Len(chunks) > 0,
         NEW b, Closed(b, chunks, Height(chunks))
  PROVE  /\ Len(b.pending) = Height(chunks) + 1
         /\ b.pushed[Height(chunks) + 1] = 1
         /\ Close(b, Height(chunks) + 1) = b
         /\ Root(b) = BalancedRoot(chunks)
         /\ b.emitted = PostOrder(chunks)
<1> DEFINE H == Height(chunks)
           v == H + 1
           N == Len(b.pending)
           L == Layers(chunks)
           g == Came(b, v + 1)
<1>1. H \in Nat /\ v \in Nat \ {0} /\ Len(L[H]) = 1 /\ \A m \in 0..(H - 1) : Len(L[m]) > 1
  <2>1. H \in 0..Len(chunks) /\ Len(L[H]) = 1 /\ \A m \in 0..(H - 1) : Len(L[m]) > 1
    BY HeightIs
  <2> HIDE DEF H, L
  <2>. QED
    BY <2>1
<1>2. N \in Nat /\ g \in Nat /\ Fanout \in Nat \ {0, 1}
  <2>1. Shaped(b) /\ v + 1 \in Int
    BY <1>1 DEF Closed, Rising
  <2>. QED
    BY <2>1, CameIs, UnixFsAssumption
<1> HIDE DEF H
<1>3. \A x \in 1..v : Came(b, x) = Len(L[x - 1])
  BY DEF Closed, H
<1>4. Came(b, v) = 1
  <2>1. v \in 1..v /\ v - 1 = H
    BY <1>1
  <2> HIDE DEF v
  <2>. QED
    BY <1>1, <1>3, <2>1
<1>5. v \in 1..N /\ b.pushed[v] = 1
  <2> HIDE DEF v
  <2>. QED
    BY <1>4 DEF Came
<1>6. LevelIs(b, chunks, v, g)
  <2>1. v \in v..N /\ v + 1 # 0
    BY <1>1, <1>5
  <2>2. Rising(b, chunks, v, 0)
    BY DEF Closed, H
  <2> HIDE DEF v
  <2>3. Grouped(b, v, 0) = g
    BY <2>1 DEF Grouped
  <2>4. LevelIs(b, chunks, v, Grouped(b, v, 0))
    BY <2>1, <2>2 DEF Rising
  <2>. QED
    BY <2>3, <2>4
<1>7. g = 0
  <2>1. Fanout * g <= 1
    BY <1>5, <1>6 DEF LevelIs
  <2> HIDE DEF g
  <2>2. g <= Fanout * g /\ Fanout * g \in Nat
    BY <1>2, Products
  <2>3. Fanout * g # 1
    <3>1. CASE g = 0
      BY <1>2, <3>1
    <3>2. CASE g # 0
      <4>1. 0 < g /\ 0 \in Nat
        BY <1>2, <3>2
      <4>2. Fanout * 0 + Fanout <= Fanout * g
        BY <1>2, <4>1, Products
      <4>3. Fanout * 0 = 0
        BY <1>2
      <4>. QED
        BY <1>2, <2>2, <4>2, <4>3
    <3>. QED
      BY <3>1, <3>2
  <2>. QED
    BY <1>2, <2>1, <2>2, <2>3
<1>8. N = v
  <2>1. SUFFICES ASSUME N # v PROVE FALSE
    OBVIOUS
  <2>2. v + 1 \in 1..N
    BY <1>1, <1>2, <1>5, <2>1
  <2>3. g = b.pushed[v + 1]
    BY <2>2 DEF Came
  <2>4. b.pushed[v + 1] # 0
    BY <2>2 DEF Closed, Rising, Shaped
  <2>. QED
    BY <1>7, <2>3, <2>4
<1>9. Close(b, v) = b
  <2> HIDE DEF v
  <2>1. b.pushed[v] <= 1
    BY <1>5
  <2>. QED
    BY <2>1 DEF Close
<1>10. b.pending[v] = Part(L[H], 0, 1)
  <2>1. Fanout * g = 0 /\ v - 1 = H
    BY <1>1, <1>2, <1>7
  <2> HIDE DEF g, v
  <2>. QED
    BY <1>5, <1>6, <2>1 DEF LevelIs
<1>11. b.pending[v][1] = L[H][1]
  <2> DEFINE q == Part(L[H], 0, 1)
  <2>1. 1 \in 1..(1 - 0) /\ 0 + 1 = 1 /\ 0 \in Nat /\ 1 \in Nat /\ 0 <= 1
    OBVIOUS
  <2>2. \A k \in 1..(1 - 0) : q[k] = L[H][0 + k]
    BY <2>1, PartIs
  <2>3. q[1] = L[H][0 + 1]
    BY <2>1, <2>2
  <2> HIDE DEF q
  <2>4. q[1] = L[H][1]
    BY <2>1, <2>3
  <2>. QED
    BY <1>10, <2>4 DEF q
<1> DEFINE Top(l) == b.pushed[l] = 1 /\ \A m \in 1..(l - 1) : b.pushed[m] > 1
<1>12. ASSUME NEW x \in 1..(v - 1) PROVE b.pushed[x] > 1
  <2>1. x \in 1..v /\ x - 1 \in 0..(H - 1) /\ x \in 1..N
    BY <1>1, <1>8
  <2>2. Came(b, x) = Len(L[x - 1]) /\ Len(L[x - 1]) > 1
    BY <1>1, <1>3, <2>1
  <2>. QED
    BY <2>1, <2>2 DEF Came
<1>13. Top(v) /\ v \in DOMAIN b.pending
  <2>1. DOMAIN b.pending = 1..N
    BY SeqParts DEF Closed, Rising, Shaped, IsBuilder
  <2>. QED
    BY <1>5, <1>12, <2>1
<1>14. \A l \in DOMAIN b.pending : Top(l) => l = v
  <2> SUFFICES ASSUME NEW l \in DOMAIN b.pending, Top(l), l # v PROVE FALSE
    OBVIOUS
  <2>1. l \in 1..v
    BY <1>8, SeqParts DEF Closed, Rising, Shaped, IsBuilder
  <2>2. l \in 1..(v - 1)
    BY <1>1, <2>1
  <2>3. b.pushed[l] = 1 /\ b.pushed[l] > 1
    BY <1>12, <2>2
  <2>. QED
    BY <2>3
<1> HIDE DEF v
<1>15. Root(b) = b.pending[CHOOSE l \in DOMAIN b.pending : Top(l)][1]
  BY DEF Root
<1> HIDE DEF Top
<1>16. (CHOOSE l \in DOMAIN b.pending : Top(l)) = v
  BY <1>13, <1>14
<1>17. Root(b) = BalancedRoot(chunks)
  BY <1>11, <1>15, <1>16 DEF BalancedRoot, H
<1>18. b.emitted = Orders(chunks)[H][1]
  <2> DEFINE s == Orders(chunks)[H]
             y == s[1]
  <2>1. PICK e : Cuts(b, chunks, v, 0, e)
    BY DEF Closed, Rising, Traced, v, H
  <2>2. v \in v..N /\ v + 1 # 0 /\ v - 1 = H
    BY <1>1, <1>8 DEF v
  <2>3. b.emitted = e[v] /\ e[v] = e[v + 1] \o Flat(chunks, v, g, b.pushed[v]) /\ e[v + 1] = <<>>
    BY <1>8, <2>1, <2>2 DEF Cuts, Grouped
  <2>4. Flat(chunks, v, g, b.pushed[v]) = FlattenSeq(Part(s, 0, 1))
    <3>1. Fanout * g = 0
      BY <1>2, <1>7
    <3> HIDE DEF g
    <3>. QED
      BY <1>5, <2>2, <3>1 DEF Flat
  <2>5. IsSeq(y)
    <3>1. H \in 0..Len(chunks) /\ 1 \in 1..Len(Layers(chunks)[H])
      BY <1>1, HeightIs DEF H
    <3>. QED
      BY <3>1, OrderIsSeq
  <2>6. FlattenSeq(Part(s, 0, 1)) = y
    <3> HIDE DEF s
    <3> DEFINE z == 0
               o == z + 1
    <3>1. z \in Nat /\ z <= z /\ IsSeq(s[z + 1])
      BY <2>5
    <3>2. s[z + 1] = y /\ z + 1 = 1
      OBVIOUS
    <3> HIDE DEF z, y
    <3>3. FlattenSeq(Part(s, z, z + 1)) = FlattenSeq(Part(s, z, z)) \o s[z + 1]
      BY ONLY <3>1, FlattenPart
    <3>4. Part(s, z, z) = <<>>
      BY ONLY <3>1, PartOfNone
    <3>5. FlattenSeq(Part(s, z, z + 1)) = <<>> \o y
      BY ONLY <3>2, <3>3, <3>4, FlattenNone
    <3>6. <<>> \o y = y
      BY ONLY <2>5, WithNone
    <3>7. FlattenSeq(Part(s, z, 1)) = y
      BY ONLY <3>2, <3>5, <3>6
    <3>. QED
      BY ONLY <3>7 DEF z
  <2> HIDE DEF y
  <2>7. <<>> \o y = y
    BY ONLY <2>5, WithNone
  <2>8. b.emitted = y
    BY <2>3, <2>4, <2>6, <2>7
  <2>. QED
    BY <2>8 DEF y
<1>19. b.emitted = PostOrder(chunks)
  BY <1>18 DEF PostOrder, H
<1>. QED
  BY <1>5, <1>8, <1>9, <1>17, <1>19 DEF v, H

\* finish leaves one root, that of the balanced layout.
LEMMA FinishIs ==
  ASSUME NEW chunks, IsSeq(chunks), Len(chunks) > 0,
         NEW b, Fed(b, chunks, Len(chunks))
  PROVE  Closed(Finish(b), chunks, Height(chunks))
<1> DEFINE H == Height(chunks)
           V == Len(b.pending)
           values == [level \in DOMAIN b.pending |-> level]
<1>1. H \in Nat /\ V \in Nat /\ H <= V /\ DOMAIN b.pending = 1..V
  <2>1. H \in 0..Len(chunks)
    BY HeightIs
  <2>2. H <= V
    BY LevelsForAll
  <2>3. IsBuilder(b)
    BY DEF Fed, Rising, Shaped
  <2>4. V \in Nat /\ DOMAIN b.pending = 1..V
    BY <2>3, SeqParts DEF IsBuilder
  <2> HIDE DEF H
  <2>. QED
    BY <2>1, <2>2, <2>4
<1>2. Finish(b) = Loop(Close, b, values)
  BY DEF Finish
<1>3. values = [i \in 1..V |-> values[i]] /\ \A i \in 1..V : values[i] = i
  BY <1>1
<1> HIDE DEF values, V, H
<1>4. Len(values) = V
  BY <1>1, <1>3, ValuesAreSeq
<1>5. PICK after : Turns(after, "close", b, values, V) /\ Loop(Close, b, values) = after[V]
  BY <1>1, <1>4, CloseLoop
<1>6. after[0] = b /\ \A n \in 1..V : n - 1 \in 0..V /\ after[n] = Close(after[n - 1], n)
  <2>1. ASSUME NEW now, NEW v PROVE Turn("close", now, v) = Close(now, v)
    BY DEF Turn
  <2>2. after[0] = b /\ \A n \in 1..V : n - 1 \in 0..V /\ after[n] = Turn("close", after[n - 1], values[n])
    <3>1. V \in Nat /\ Turns(after, "close", b, values, V)
      BY <1>1, <1>5
    <3>. QED
      BY ONLY <3>1, TurnsAre
  <2>. QED
    BY <1>3, <2>1, <2>2
<1> DEFINE Lower(i) == IF i <= H THEN i ELSE H
           T == {i \in Nat : Closed(after[i], chunks, Lower(i)) /\ Len(after[i].pending) >= V}
<1>7. 0 \in T
  <2>1. Lower(0) = 0 /\ 0 + 1 = 1
    BY <1>1
  <2>2. Rising(b, chunks, 0 + 1, 0)
    BY <2>1 DEF Fed
  <2>3. ASSUME NEW x \in 1..(0 + 1) PROVE Came(b, x) = Len(Layers(chunks)[x - 1])
    <3>1. x = 1 /\ x - 1 = 0
      BY <2>1
    <3>2. Came(b, 1) = Len(chunks)
      BY DEF Fed
    <3>3. Len(Layers(chunks)[0]) = Len(chunks)
      BY LeafLayer
    <3>. QED
      BY <3>1, <3>2, <3>3
  <2>4. Closed(b, chunks, 0)
    BY <2>2, <2>3 DEF Closed
  <2>5. Len(b.pending) >= V
    BY <1>1 DEF V
  <2> HIDE DEF Lower
  <2>. QED
    BY <1>6, <2>1, <2>4, <2>5
<1>8. ASSUME NEW i \in 0..V, i \in T, i < V PROVE i + 1 \in T
  <2> DEFINE j == i + 1
             A == after[i]
             B == after[j]
  <2>1. j \in 1..V /\ j - 1 = i /\ i \in Nat /\ j \in Nat
    BY <1>1, <1>8
  <2>2. B = Close(A, j)
    BY <1>6, <2>1
  <2>3. Closed(A, chunks, Lower(i)) /\ Len(A.pending) >= V
    BY <1>8
  <2>4. Len(A.pending) \in Nat
    <3>1. Shaped(A)
      BY <2>3 DEF Closed, Rising
    <3>. QED
      BY <3>1, SeqParts DEF Shaped, IsBuilder
  <2> HIDE DEF A, B
  <2>5. CASE i < H
    <3>1. Lower(i) = i /\ Lower(j) = j
      BY <1>1, <2>5
    <3> HIDE DEF Lower
    <3>2. Closed(A, chunks, i) /\ i < Height(chunks)
      BY <2>3, <2>5, <3>1 DEF H
    <3>3. Closed(Close(A, i + 1), chunks, i + 1)
      BY <2>1, <3>2, CloseStep
    <3>4. Len(Close(A, i + 1).pending) >= Len(A.pending)
      BY <2>1, <3>2, CloseStep
    <3>5. Len(B.pending) \in Nat
      <4>1. Shaped(B)
        BY <2>2, <3>3 DEF Closed, Rising
      <4>. QED
        BY <4>1, SeqParts DEF Shaped, IsBuilder
    <3>6. Closed(B, chunks, j)
      BY <2>2, <3>3
    <3>7. Len(B.pending) >= V
      BY <1>1, <2>2, <2>3, <2>4, <3>4, <3>5
    <3>8. j \in T
      BY <2>1, <3>1, <3>6, <3>7 DEF B
    <3>. QED
      BY <3>8
  <2>6. CASE ~(i < H)
    <3>1. Lower(i) = H /\ Lower(j) = H
      BY <1>1, <2>1, <2>6
    <3> HIDE DEF Lower
    <3>2. Closed(A, chunks, Height(chunks))
      BY <2>3, <3>1 DEF H
    <3>3. Len(A.pending) = Height(chunks) + 1
      BY <3>2, CloseRoot
    <3>4. Close(A, Height(chunks) + 1) = A
      BY <3>2, CloseRoot
    <3>5. j = H + 1
      BY <1>1, <2>1, <2>3, <2>6, <3>3 DEF H
    <3>6. B = A
      BY <2>2, <3>4, <3>5 DEF H
    <3>7. Closed(B, chunks, Lower(j)) /\ Len(B.pending) >= V
      BY <2>3, <3>1, <3>6
    <3>8. j \in T
      BY <2>1, <3>7 DEF B
    <3>. QED
      BY <3>8
  <2>. QED
    BY <2>5, <2>6
<1>9. V \in T
  <2> HIDE DEF T
  <2>1. \A k \in 0..V : k \in T
    BY <1>1, <1>7, <1>8, Ascent
  <2>. QED
    BY <1>1, <2>1
<1>10. Lower(V) = H
  BY <1>1
<1>11. Closed(after[V], chunks, H)
  BY <1>9, <1>10
<1>. QED
  BY <1>2, <1>5, <1>11 DEF H

(***************************************************************************)
(* The plan of a job.                                                      *)
(***************************************************************************)
StartOf(j, i) == SumsOf(j.leaves)[i]
SizeOf(j) == StartOf(j, Len(j.leaves))
FirstOf(j, s) == SumsOf(j.shards)[s - 1]
WholeShard(j, s) == [i \in 1..j.shards[s] |-> FirstOf(j, s) + i - 1]
ChunksTo(j, end) == IF end = SizeOf(j) THEN (SizeOf(j) + Chunk - 1) \div Chunk ELSE end \div Chunk

\* The plan's names, by the job.
LEMMA PlanOfJob ==
  /\ Count = Len(job.leaves) /\ Size = SizeOf(job)
  /\ \A i : Start(i) = StartOf(job, i)
  /\ \A s : FirstLeaf(s) = FirstOf(job, s) /\ LeavesOf(s) = WholeShard(job, s)
  /\ \A end : ChunksBefore(end) = ChunksTo(job, end)
<1>1. Count = Len(job.leaves) /\ Size = SizeOf(job)
  BY DEF Count, Size, Start, SizeOf, StartOf
<1>2. \A i : Start(i) = StartOf(job, i)
  BY DEF Start, StartOf
<1>3. ASSUME NEW s PROVE FirstLeaf(s) = FirstOf(job, s) /\ LeavesOf(s) = WholeShard(job, s)
  <2>1. FirstLeaf(s) = FirstOf(job, s)
    BY DEF FirstLeaf, FirstOf
  <2>2. LeavesOf(s) = WholeShard(job, s)
    BY <2>1, Zenon DEF LeavesOf, WholeShard
  <2>. QED
    BY <2>1, <2>2
<1>4. \A end : ChunksBefore(end) = ChunksTo(job, end)
  BY <1>1 DEF ChunksBefore, ChunksTo
<1>. QED
  BY <1>1, <1>2, <1>3, <1>4

\* What the plan assumes of a job.
LEMMA JobIs ==
  ASSUME NEW j \in Jobs
  PROVE  /\ j.leaves \in Seq(Nat \ {0}) /\ Len(j.leaves) \in Nat \ {0}
         /\ j.shards \in Seq(Nat \ {0}) /\ Len(j.shards) \in Nat \ {0}
         /\ IsSeq(j.chunks) /\ Len(j.chunks) = (SizeOf(j) + Chunk - 1) \div Chunk
         /\ j.unixfs \in {"off", "root", "car"}
<1>1. /\ Lengths(j.leaves) /\ Lengths(j.shards)
      /\ j.chunks \in Seq(ToSet(j.chunks))
      /\ Len(j.chunks) = (SumsOf(j.leaves)[Len(j.leaves)] + Chunk - 1) \div Chunk
      /\ j.unixfs \in {"off", "root", "car"}
  BY JobsAssumption
<1>2. ASSUME NEW s, Lengths(s) PROVE s \in Seq(Nat \ {0}) /\ Len(s) \in Nat \ {0}
  BY <1>2 DEF Lengths
<1>. QED
  BY <1>1, <1>2 DEF IsSeq, SizeOf, StartOf

\* Where leaves start.
LEMMA Starts ==
  ASSUME NEW j \in Jobs
  PROVE  /\ StartOf(j, 0) = 0
         /\ \A i \in 0..Len(j.leaves) : StartOf(j, i) \in Nat
         /\ \A i, k \in 0..Len(j.leaves) : i <= k => StartOf(j, i) <= StartOf(j, k)
         /\ \A i, k \in 0..Len(j.leaves) : i < k => StartOf(j, i) < StartOf(j, k)
<1> DEFINE s == j.leaves
<1>1. s \in Seq(Nat \ {0})
  BY JobIs
<1>2. SumsOf(s)[0] = 0 /\ \A i \in 0..Len(s) : SumsOf(s)[i] \in Nat
  BY <1>1, SumStep
<1>3. ASSUME NEW i \in 0..Len(s), NEW k \in 0..Len(s)
      PROVE  (i < k => SumsOf(s)[i] < SumsOf(s)[k]) /\ (i <= k => SumsOf(s)[i] <= SumsOf(s)[k])
  BY <1>1, SumsAscend
<1>. QED
  BY <1>2, <1>3 DEF StartOf

\* Where shards start.
LEMMA Firsts ==
  ASSUME NEW j \in Jobs
  PROVE  /\ FirstOf(j, 1) = 0 /\ FirstOf(j, Len(j.shards) + 1) = Len(j.leaves)
         /\ \A s \in 1..(Len(j.shards) + 1) : FirstOf(j, s) \in Nat
         /\ \A s \in 1..Len(j.shards) : j.shards[s] \in Nat \ {0} /\ FirstOf(j, s + 1) = FirstOf(j, s) + j.shards[s]
<1> DEFINE q == j.shards
           N == Len(q)
           sum == SumsOf(q)
<1>1. q \in Seq(Nat \ {0}) /\ N \in Nat \ {0} /\ sum[N] = Len(j.leaves)
  BY JobIs, JobsAssumption
<1>2. \A s \in 1..N : q[s] \in Nat \ {0}
  BY <1>1
<1>3. /\ sum[0] = 0 /\ \A i \in 0..N : sum[i] \in Nat
      /\ \A i \in 1..N : i - 1 \in 0..N /\ sum[i] = sum[i - 1] + q[i]
  BY <1>1, SumStep
<1>4. \A s : FirstOf(j, s) = sum[s - 1]
  BY DEF FirstOf
<1> HIDE DEF sum, N
<1>5. FirstOf(j, 1) = 0
  <2>1. 1 - 1 = 0
    OBVIOUS
  <2>. QED
    BY <1>3, <1>4, <2>1
<1>6. FirstOf(j, N + 1) = Len(j.leaves)
  <2>1. N + 1 - 1 = N
    BY <1>1
  <2>. QED
    BY <1>1, <1>4, <2>1
<1>7. ASSUME NEW s \in 1..(N + 1) PROVE FirstOf(j, s) \in Nat
  <2>1. s - 1 \in 0..N
    BY <1>1
  <2>. QED
    BY <1>3, <1>4, <2>1
<1>8. ASSUME NEW s \in 1..N PROVE FirstOf(j, s + 1) = FirstOf(j, s) + q[s]
  <2>1. s + 1 - 1 = s
    BY <1>1
  <2>. QED
    BY <1>3, <1>4, <2>1
<1>. QED
  BY <1>2, <1>5, <1>6, <1>7, <1>8 DEF N

\* A file is not empty, and has chunks.
LEMMA ChunksAre ==
  ASSUME NEW j \in Jobs
  PROVE  /\ SizeOf(j) \in Nat /\ SizeOf(j) > 0
         /\ IsSeq(j.chunks) /\ Len(j.chunks) \in Nat /\ Len(j.chunks) > 0
         /\ ChunksTo(j, 0) = 0 /\ ChunksTo(j, SizeOf(j)) = Len(j.chunks)
         /\ \A a, b \in 0..SizeOf(j) : /\ ChunksTo(j, a) \in 0..Len(j.chunks)
                                       /\ a <= b => ChunksTo(j, a) <= ChunksTo(j, b)
<1> DEFINE N == Len(j.leaves)
           z == SizeOf(j)
           K == Len(j.chunks)
<1>1. N \in Nat \ {0} /\ IsSeq(j.chunks) /\ K = (z + Chunk - 1) \div Chunk /\ Chunk \in Nat \ {0}
  BY JobIs, PackerAssumption
<1>2. z \in Nat /\ z > 0
  <2>1. 0 \in 0..N /\ N \in 0..N /\ 0 < N
    BY <1>1
  <2>2. StartOf(j, 0) = 0 /\ StartOf(j, N) \in Nat /\ StartOf(j, 0) < StartOf(j, N)
    BY <2>1, Starts
  <2>. QED
    BY <2>2 DEF SizeOf
<1> HIDE DEF z, K
<1>3. K \in Nat /\ z <= Chunk * K
  BY <1>1, <1>2, RoundedUp
<1>4. K > 0
  <2>1. CASE K = 0
    <3>1. Chunk * K = 0
      BY <1>1, <2>1
    <3>. QED
      BY <1>2, <1>3, <3>1
  <2>. QED
    BY <1>3, <2>1
<1>5. ChunksTo(j, z) = K
  BY <1>1 DEF ChunksTo, z
<1>6. \A a : a # z => ChunksTo(j, a) = a \div Chunk
  BY DEF ChunksTo, z
<1>7. ChunksTo(j, 0) = 0
  <2>1. 0 \div Chunk \in Nat /\ Chunk * (0 \div Chunk) <= 0
    BY <1>1, Division
  <2> DEFINE y == 0 \div Chunk
  <2> HIDE DEF y
  <2>2. y \in Nat /\ Chunk * y \in Nat /\ Chunk * y <= 0 /\ y <= Chunk * y
    BY <1>1, <2>1, Products DEF y
  <2>3. y = 0
    BY <2>2
  <2>4. 0 # z
    BY <1>2
  <2>. QED
    BY <1>6, <2>3, <2>4 DEF y
<1>8. ASSUME NEW a \in 0..z, NEW b \in 0..z
      PROVE  ChunksTo(j, a) \in 0..K /\ (a <= b => ChunksTo(j, a) <= ChunksTo(j, b))
  <2>1. ASSUME NEW x \in 0..z
        PROVE  ChunksTo(j, x) \in 0..K /\ (x # z => Chunk * ChunksTo(j, x) <= x)
    <3>1. CASE x = z
      BY <1>3, <1>5, <3>1
    <3>2. CASE x # z
      <4> DEFINE y == x \div Chunk
      <4>1. x \in Nat /\ x <= z
        BY <1>2
      <4>2. y \in Nat /\ Chunk * y <= x
        BY <1>1, <4>1, Division
      <4> HIDE DEF y
      <4>3. Chunk * y \in Nat /\ Chunk * K \in Nat
        BY <1>1, <1>3, <4>2
      <4>4. Chunk * y < Chunk * K + Chunk
        BY <1>1, <1>2, <1>3, <4>1, <4>2, <4>3
      <4>5. y <= K
        BY <1>1, <1>3, <4>2, <4>4, Products
      <4>. QED
        BY <1>3, <1>6, <3>2, <4>2, <4>5 DEF y
    <3>. QED
      BY <3>1, <3>2
  <2>2. CASE b = z
    BY <1>3, <1>5, <2>1, <2>2
  <2>3. CASE b # z /\ a <= b
    <3> DEFINE x == ChunksTo(j, a)
               y == ChunksTo(j, b)
    <3>1. a # z /\ a \in Nat /\ b \in Nat
      BY <1>2, <2>3
    <3>2. x \in Nat /\ y \in Nat /\ Chunk * x <= a
      BY <1>3, <2>1, <3>1
    <3>3. b < Chunk * y + Chunk
      <4>1. b < Chunk * (b \div Chunk) + Chunk
        BY <1>1, <3>1, Division
      <4>. QED
        BY <1>6, <2>3, <4>1
    <3> HIDE DEF x, y
    <3>4. Chunk * x < Chunk * y + Chunk
      <4>1. Chunk * x \in Nat /\ Chunk * y \in Nat
        BY <1>1, <3>2
      <4>. QED
        BY <1>1, <2>3, <3>1, <3>2, <3>3, <4>1
    <3>5. x <= y
      BY <1>1, <3>2, <3>4, Products
    <3>. QED
      BY <2>1, <3>5 DEF x, y
  <2>. QED
    BY <2>1, <2>2, <2>3
<1>. QED
  BY <1>1, <1>2, <1>3, <1>4, <1>5, <1>7, <1>8 DEF z, K

(***************************************************************************)
(* The assembler.                                                          *)
(***************************************************************************)
\* The leaves from a to the one before b.
Between(a, b) == [i \in 1..(b - a) |-> a + i - 1]

\* A digest for each shard.
ForShards(j, digests) == digests = [s \in DOMAIN j.shards |-> digests[s]]

\* What it has of the leaves before first: the shards they complete, and the leaves
\* of the next one.
Assembled(j, a, first) ==
  /\ a = [leaves |-> a.leaves, next |-> a.next, digests |-> a.digests]
  /\ a.next \in 1..(Len(j.shards) + 1)
  /\ FirstOf(j, a.next) <= first
  /\ a.next <= Len(j.shards) => first < FirstOf(j, a.next + 1)
  /\ a.leaves = Between(FirstOf(j, a.next), first)
  /\ ForShards(j, a.digests)
  /\ \A s \in 1..(a.next - 1) : a.digests[s] = WholeShard(j, s)

\* All the leaves make all the shards.
LEMMA AllAssembled ==
  ASSUME NEW j \in Jobs, NEW a, Assembled(j, a, Len(j.leaves))
  PROVE  a.next = Len(j.shards) + 1
<1> DEFINE S == Len(j.shards)
<1>1. S \in Nat /\ a.next \in 1..(S + 1) /\ Len(j.leaves) \in Nat
  BY JobIs DEF Assembled
<1> SUFFICES ASSUME a.next # S + 1 PROVE FALSE
  OBVIOUS
<1>2. a.next <= S /\ a.next \in Nat /\ S \in 0..Len(j.shards)
  BY <1>1
<1>3. Len(j.leaves) < FirstOf(j, a.next + 1)
  BY <1>2 DEF Assembled
<1>4. FirstOf(j, a.next + 1) <= FirstOf(j, S + 1)
  <2> DEFINE x == (a.next + 1) - 1
             y == (S + 1) - 1
  <2>1. j.shards \in Seq(Nat \ {0}) /\ x \in 0..Len(j.shards) /\ y \in 0..Len(j.shards) /\ x <= y
    BY <1>1, <1>2, JobIs
  <2> HIDE DEF x, y
  <2>2. SumsOf(j.shards)[x] <= SumsOf(j.shards)[y]
    BY <2>1, SumsAscend
  <2>. QED
    BY <2>2 DEF FirstOf, x, y
<1>5. FirstOf(j, S + 1) = Len(j.leaves)
  BY Firsts
<1>6. FirstOf(j, a.next + 1) \in Nat
  <2>1. a.next + 1 \in 1..(S + 1)
    BY <1>1, <1>2
  <2>. QED
    BY <2>1, Firsts
<1>. QED
  BY <1>1, <1>3, <1>4, <1>5, <1>6

\* The next leaf.
LEMMA AddLeafIs ==
  ASSUME job \in Jobs, NEW a, NEW leaf \in Nat, leaf < Len(job.leaves), Assembled(job, a, leaf)
  PROVE  /\ Assembled(job, AddLeaf(a, leaf), leaf + 1)
         /\ AddLeaf(a, leaf).next >= a.next
<1> DEFINE j == job
           S == Len(j.shards)
           n == a.next
           f == FirstOf(j, n)
           g == FirstOf(j, n + 1)
           leaves == Append(a.leaves, leaf)
           b == AddLeaf(a, leaf)
<1>1. j \in Jobs /\ S \in Nat \ {0} /\ Len(j.leaves) \in Nat /\ j.shards \in Seq(Nat \ {0})
  BY JobIs
<1>2. /\ a = [leaves |-> a.leaves, next |-> n, digests |-> a.digests]
      /\ n \in 1..(S + 1) /\ f <= leaf
      /\ n <= S => leaf < g
      /\ a.leaves = [i \in 1..(leaf - f) |-> f + i - 1]
      /\ a.digests = [s \in DOMAIN j.shards |-> a.digests[s]]
      /\ \A s \in 1..(n - 1) : a.digests[s] = WholeShard(j, s)
  BY DEF Assembled, Between, ForShards
<1>3. FirstOf(j, S + 1) = Len(j.leaves)
  BY <1>1, Firsts
<1>4. n \in 1..S
  <2>1. n # S + 1
    <3> SUFFICES ASSUME n = S + 1 PROVE FALSE
      OBVIOUS
    <3>1. f = Len(j.leaves)
      BY <1>3
    <3> HIDE DEF f
    <3>. QED
      BY <1>1, <1>2, <3>1
  <2>. QED
    BY <1>1, <1>2, <2>1
<1>5. f \in Nat /\ g \in Nat /\ g = f + j.shards[n] /\ j.shards[n] \in Nat \ {0} /\ leaf < g
  <2>1. n \in 1..(S + 1) /\ n + 1 \in 1..(S + 1)
    BY <1>1, <1>4
  <2>2. FirstOf(j, n) \in Nat
    BY <1>1, <2>1, Firsts
  <2>3. FirstOf(j, n + 1) \in Nat
    BY <1>1, <2>1, Firsts
  <2>4. j.shards[n] \in Nat \ {0} /\ FirstOf(j, n + 1) = FirstOf(j, n) + j.shards[n]
    BY <1>1, <1>4, Firsts
  <2>. QED
    BY <1>2, <1>4, <2>2, <2>3, <2>4
<1>6. leaves = [i \in 1..(leaf + 1 - f) |-> f + i - 1]
  <2> DEFINE q == a.leaves
             d == leaf - f
  <2>1. d \in Nat /\ q = [i \in 1..d |-> f + i - 1] /\ leaf + 1 - f = d + 1
    BY <1>2, <1>5
  <2> HIDE DEF q, f
  <2>2. q = [i \in 1..d |-> q[i]] /\ \A i \in 1..d : q[i] = f + i - 1
    BY <2>1
  <2> HIDE DEF d
  <2>3. IsSeq(q) /\ Len(q) = d
    BY <2>1, <2>2, ValuesAreSeq
  <2> DEFINE r == Append(q, leaf)
             t == [i \in 1..(d + 1) |-> f + i - 1]
  <2>4. IsSeq(r) /\ Len(r) = d + 1
    BY <2>3, Appended
  <2>5. \A i \in 1..d : r[i] = q[i]
    BY <2>3, Appended
  <2>6. r[d + 1] = leaf
    BY <2>3, Appended
  <2>7. t = [i \in 1..(d + 1) |-> t[i]] /\ \A i \in 1..(d + 1) : t[i] = f + i - 1
    OBVIOUS
  <2> HIDE DEF r, t
  <2>8. IsSeq(t) /\ Len(t) = d + 1
    <3> DEFINE e == d + 1
    <3>1. e \in Nat /\ t = [i \in 1..e |-> t[i]]
      BY <2>1, <2>7
    <3> HIDE DEF e
    <3>2. IsSeq(t) /\ Len(t) = e
      BY <3>1, ValuesAreSeq
    <3>. QED
      BY <3>2 DEF e
  <2>9. ASSUME NEW i \in 1..(d + 1) PROVE r[i] = t[i]
    <3>0. i \in 1..d \/ i = d + 1
      BY <2>1
    <3>1. CASE i \in 1..d
      BY <2>2, <2>5, <2>7, <3>1
    <3>2. CASE i = d + 1
      <4>1. f + (d + 1) - 1 = leaf
        BY <1>5, <2>1
      <4>2. t[d + 1] = f + (d + 1) - 1
        BY <2>7, <3>2
      <4>. QED
        BY <2>6, <3>2, <4>1, <4>2
    <3>. QED
      BY <3>0, <3>1, <3>2
  <2>10. r = t
    BY <2>4, <2>8, <2>9, SameSeq
  <2>11. t = [i \in 1..(leaf + 1 - f) |-> f + i - 1]
    BY <2>1 DEF t
  <2>. QED
    BY <2>10, <2>11 DEF r, q
<1>7. DOMAIN j.shards = 1..S
  BY <1>1
<1>8. b = IF leaf + 1 = g
          THEN [a EXCEPT !.leaves = <<>>, !.next = @ + 1, !.digests[n] = leaves]
          ELSE [a EXCEPT !.leaves = leaves]
  <2>1. FirstLeaf(n) + job.shards[n] = g
    BY <1>5, PlanOfJob
  <2>. QED
    BY <2>1 DEF AddLeaf
<1>9. CASE leaf + 1 # g
  <2>1. b = [leaves |-> leaves, next |-> n, digests |-> a.digests]
    BY <1>2, <1>8, <1>9
  <2> HIDE DEF b, leaves, f, g, S
  <2>2. b.leaves = leaves /\ b.next = n /\ b.digests = a.digests
    BY <2>1
  <2>3. f <= leaf + 1 /\ leaf + 1 < g
    <3>1. f <= leaf /\ f \in Nat /\ g \in Nat /\ leaf < g /\ leaf + 1 # g
      BY <1>2, <1>5, <1>9
    <3>. QED
      BY ONLY <3>1, leaf \in Nat
  <2>4. Assembled(j, b, leaf + 1)
    <3>1. FirstOf(j, b.next) = f /\ FirstOf(j, b.next + 1) = g
      BY <2>2 DEF f, g
    <3>2. b.leaves = Between(FirstOf(j, b.next), leaf + 1)
      <4>1. leaf + 1 - f = (leaf + 1) - f
        BY <1>5
      <4>2. leaves = [i \in 1..((leaf + 1) - f) |-> f + i - 1]
        BY <1>6, <4>1
      <4>3. leaves = Between(f, leaf + 1)
        BY <4>2, Zenon DEF Between
      <4>. QED
        BY <2>2, <3>1, <4>3
    <3>3. /\ b = [leaves |-> b.leaves, next |-> b.next, digests |-> b.digests]
          /\ b.next \in 1..(Len(j.shards) + 1)
          /\ ForShards(j, b.digests)
          /\ \A s \in 1..(b.next - 1) : b.digests[s] = WholeShard(j, s)
      BY <1>2, <2>1, <2>2 DEF S, ForShards
    <3>4. FirstOf(j, b.next) <= leaf + 1 /\ (b.next <= Len(j.shards) => leaf + 1 < FirstOf(j, b.next + 1))
      BY <2>3, <3>1
    <3>. QED
      BY <2>3, <3>1, <3>2, <3>3, <3>4 DEF Assembled
  <2>. QED
    BY <1>4, <2>2, <2>4 DEF b
<1>10. CASE leaf + 1 = g
  <2> DEFINE p == Put(a.digests, n, leaves)
  <2>0. a.digests = [s \in 1..S |-> a.digests[s]]
    BY <1>2, <1>7
  <2>1. b = [leaves |-> <<>>, next |-> n + 1, digests |-> p]
    <3> HIDE DEF b, leaves, f, g
    <3> DEFINE c == [a EXCEPT !.leaves = <<>>]
               e == [c EXCEPT !.next = n + 1]
    <3>1. b = [a EXCEPT !.leaves = <<>>, !.next = n + 1, !.digests = p]
      BY <1>8, <1>10 DEF Put
    <3>2. [a EXCEPT !.leaves = <<>>, !.next = n + 1, !.digests = p]
             = [[[a EXCEPT !.leaves = <<>>] EXCEPT !.next = n + 1] EXCEPT !.digests = p]
      BY Zenon
    <3> HIDE DEF p
    <3>3. [a EXCEPT !.leaves = <<>>] = [leaves |-> <<>>, next |-> n, digests |-> a.digests]
      BY <1>2
    <3>4. [[leaves |-> <<>>, next |-> n, digests |-> a.digests] EXCEPT !.next = n + 1]
             = [leaves |-> <<>>, next |-> n + 1, digests |-> a.digests]
      OBVIOUS
    <3>5. [[leaves |-> <<>>, next |-> n + 1, digests |-> a.digests] EXCEPT !.digests = p]
             = [leaves |-> <<>>, next |-> n + 1, digests |-> p]
      OBVIOUS
    <3>. QED
      BY <3>1, <3>2, <3>3, <3>4, <3>5
  <2> HIDE DEF b
  <2>2. b.leaves = <<>> /\ b.next = n + 1 /\ b.digests = p
    BY <2>1
  <2>3. leaves = WholeShard(j, n)
    <3>1. leaf + 1 - f = j.shards[n]
      BY <1>5, <1>10
    <3> HIDE DEF leaves, f
    <3>2. WholeShard(j, n) = [i \in 1..j.shards[n] |-> f + i - 1]
      BY DEF WholeShard, f
    <3>. QED
      BY <1>6, <3>1, <3>2
  <2> HIDE DEF leaves
  <2>4. /\ p = [s \in 1..S |-> p[s]] /\ p[n] = leaves
        /\ \A s \in 1..S : s # n => p[s] = a.digests[s]
    <3>1. p = [s \in 1..S |-> IF s = n THEN leaves ELSE a.digests[s]]
      BY <2>0 DEF Put
    <3>. QED
      BY <1>4, <3>1
  <2> HIDE DEF p, f, g
  <2>5. n + 1 <= S => g < FirstOf(j, n + 1 + 1)
    <3> SUFFICES ASSUME n + 1 <= S PROVE g < FirstOf(j, n + 1 + 1)
      OBVIOUS
    <3> DEFINE m == n + 1
    <3>1. m \in 1..S
      BY <1>1, <1>4
    <3> HIDE DEF m
    <3>2. j.shards[m] \in Nat \ {0} /\ FirstOf(j, m + 1) = FirstOf(j, m) + j.shards[m]
      BY <1>1, <3>1, Firsts
    <3>3. FirstOf(j, m) = g
      BY DEF m, g
    <3> DEFINE h == FirstOf(j, m + 1)
               d == j.shards[m]
    <3>4. g \in Nat /\ d \in Nat \ {0} /\ h = g + d
      BY <1>5, <3>2, <3>3
    <3> HIDE DEF h, d
    <3>5. g < h
      BY ONLY <3>4
    <3>. QED
      BY <3>5 DEF m, h
  <2>6. Assembled(j, b, leaf + 1)
    <3>1. FirstOf(j, b.next) = leaf + 1 /\ FirstOf(j, b.next + 1) = FirstOf(j, n + 1 + 1)
      BY <1>10, <2>2 DEF g
    <3>2. b.leaves = Between(FirstOf(j, b.next), leaf + 1)
      <4> DEFINE t == [i \in 1..(leaf + 1 - (leaf + 1)) |-> (leaf + 1) + i - 1]
      <4>1. t = <<>>
        <5>1. leaf + 1 - (leaf + 1) = 0
          OBVIOUS
        <5>2. t = [i \in 1..0 |-> t[i]]
          BY <5>1
        <5> HIDE DEF t
        <5>3. IsSeq(t) /\ Len(t) = 0
          BY <5>2, ValuesAreSeq
        <5>. QED
          BY <5>3, EmptyIs
      <4>2. t = Between(FirstOf(j, b.next), leaf + 1)
        BY <3>1 DEF Between
      <4> HIDE DEF t
      <4>. QED
        BY <2>2, <4>1, <4>2
    <3>3. b = [leaves |-> b.leaves, next |-> b.next, digests |-> b.digests]
      BY <2>1, <2>2
    <3>4. b.next \in 1..(Len(j.shards) + 1) /\ FirstOf(j, b.next) <= leaf + 1
      BY <1>1, <1>4, <2>2, <3>1
    <3>5. b.next <= Len(j.shards) => leaf + 1 < FirstOf(j, b.next + 1)
      BY <1>10, <2>2, <2>5, <3>1
    <3>6. ForShards(j, b.digests)
      BY <1>7, <2>2, <2>4 DEF ForShards
    <3>7. ASSUME NEW s \in 1..(b.next - 1) PROVE b.digests[s] = WholeShard(j, s)
      <4>1. s \in 1..S /\ (s = n \/ s \in 1..(n - 1))
        BY <1>1, <1>4, <2>2
      <4>2. CASE s = n
        BY <2>2, <2>3, <2>4, <4>2
      <4>3. CASE s # n
        BY <1>2, <2>2, <2>4, <4>1, <4>3
      <4>. QED
        BY <4>2, <4>3
    <3>. QED
      BY <3>2, <3>3, <3>4, <3>5, <3>6, <3>7 DEF Assembled
  <2>. QED
    BY <1>4, <2>2, <2>6 DEF b
<1>. QED
  BY <1>9, <1>10

\* Assembler.add for the leaves of a step: the leaves before its end are collected,
\* those of every shard before the next one as the shard's.
LEMMA AddedIs ==
  ASSUME job \in Jobs, NEW a, NEW first \in Nat, NEW last \in Nat, first <= last, last <= Len(job.leaves),
         Assembled(job, a, first),
         NEW b, b = Loop(AddLeaf, a, [i \in 1..(last - first) |-> first + i - 1])
  PROVE  Assembled(job, b, last) /\ b.next >= a.next
<1> DEFINE V == last - first
           values == [i \in 1..(last - first) |-> first + i - 1]
<1>1. V \in Nat /\ values = [i \in 1..V |-> values[i]] /\ \A i \in 1..V : values[i] = first + i - 1
  OBVIOUS
<1>2. b = Loop(AddLeaf, a, values)
  OBVIOUS
<1> HIDE DEF V, values
<1>3. Len(values) = V
  BY <1>1, ValuesAreSeq
<1>4. PICK after : Turns(after, "leaf", a, values, V) /\ Loop(AddLeaf, a, values) = after[V]
  BY <1>1, <1>3, LeafLoop
<1>5. after[0] = a /\ \A n \in 1..V : n - 1 \in 0..V /\ after[n] = AddLeaf(after[n - 1], first + n - 1)
  <2>1. ASSUME NEW now, NEW v PROVE Turn("leaf", now, v) = AddLeaf(now, v)
    BY DEF Turn
  <2>2. after[0] = a /\ \A n \in 1..V : n - 1 \in 0..V /\ after[n] = Turn("leaf", after[n - 1], values[n])
    <3>1. V \in Nat /\ Turns(after, "leaf", a, values, V)
      BY <1>1, <1>4
    <3>. QED
      BY ONLY <3>1, TurnsAre
  <2>. QED
    BY <1>1, <2>1, <2>2
<1> DEFINE T == {i \in Nat : Assembled(job, after[i], first + i) /\ after[i].next >= a.next}
<1>6. 0 \in T
  <2>1. a.next \in Nat
    BY JobIs DEF Assembled
  <2>. QED
    BY <1>5, <2>1
<1>7. ASSUME NEW i \in 0..V, i \in T, i < V PROVE i + 1 \in T
  <2> DEFINE k == i + 1
             leaf == first + i
             A == after[i]
             B == after[k]
  <2>1. k \in 1..V /\ k - 1 = i /\ first + k - 1 = leaf /\ first + k = leaf + 1 /\ leaf \in Nat /\ leaf < Len(job.leaves) /\ k \in Nat
    <3> DEFINE C == Len(job.leaves)
    <3>1. C \in Nat /\ last <= C
      BY JobIs
    <3> HIDE DEF C
    <3>2. leaf < last /\ leaf \in Nat
      BY <1>1, <1>7 DEF V
    <3>3. leaf < C
      BY ONLY <3>1, <3>2, last \in Nat
    <3>4. k \in 1..V /\ k - 1 = i /\ first + k - 1 = leaf /\ first + k = leaf + 1 /\ k \in Nat
      BY <1>1, <1>7
    <3>. QED
      BY <3>2, <3>3, <3>4 DEF C
  <2>2. B = AddLeaf(A, leaf)
    BY <1>5, <2>1
  <2>3. Assembled(job, A, leaf) /\ A.next >= a.next
    BY <1>7
  <2> HIDE DEF k, leaf, A, B
  <2>4. Assembled(job, AddLeaf(A, leaf), leaf + 1)
    BY <2>1, <2>3, AddLeafIs
  <2>5. AddLeaf(A, leaf).next >= A.next
    BY <2>1, <2>3, AddLeafIs
  <2>6. A.next \in Nat /\ B.next \in Nat /\ a.next \in Nat
    BY <2>2, <2>3, <2>4, JobIs DEF Assembled
  <2>7. Assembled(job, B, first + k) /\ B.next >= a.next
    <3>1. Assembled(job, B, first + k)
      BY <2>1, <2>2, <2>4
    <3>2. B.next >= A.next
      BY <2>2, <2>5
    <3>3. B.next >= a.next
      BY <2>3, <2>6, <3>2
    <3>. QED
      BY <3>1, <3>3
  <2>8. k \in T
    BY <2>1, <2>7 DEF B
  <2>. QED
    BY <2>8 DEF k
<1>8. V \in T
  <2> HIDE DEF T
  <2>1. \A k \in 0..V : k \in T
    BY <1>1, <1>6, <1>7, Ascent
  <2>. QED
    BY <1>1, <2>1
<1>9. first + V = last
  BY DEF V
<1>. QED
  BY <1>2, <1>4, <1>8, <1>9

(***************************************************************************)
(* The invariant of the pass.                                              *)
(***************************************************************************)
Typed ==
  /\ job \in Jobs
  /\ main \in {"dirs", "pass", "join", "metas", "root", "commit", "ended"}
  /\ mode \in {"off", "root", "car"}
  /\ hasher \in [at : {"check", "hash", "stop", "ended"}, fed : Nat, hashed : Nat]
  /\ cancel \in BOOLEAN
  /\ walk \in [at : {"step", "wait", "send", "write", "ended"}, first : Nat, last : Nat,
               chunk : Nat, err : {None, "stopped", "shard"}]
  /\ writer = [at |-> writer.at, batch |-> writer.batch]
  /\ writer.at \in {"receive", "push", "failed", "ended"}
  /\ IsSeq(queue)
  /\ disk = [shards |-> disk.shards, metas |-> disk.metas, root |-> disk.root, car |-> disk.car]

\* Where the threads are when write_outputs is somewhere.
Staged ==
  /\ walk.at \in {"wait", "send", "write"} => main = "pass"
  /\ main \in {"join", "metas", "root", "commit"} => walk.at = "ended" /\ hasher.at = "ended"
  /\ main = "dirs" => /\ walk.at = "step" /\ walk.first = 0 /\ walk.chunk = 0
                      /\ builder = NewBuilder /\ queue = <<>> /\ writer.at = "receive" /\ disk.root = <<>>
  /\ main \notin {"dirs", "ended"} => (mode = "off" <=> job.unixfs = "off")
  /\ writer.at # "receive" => mode = "car"
  /\ writer.at = "ended" => main # "pass" /\ queue = <<>>

\* The hasher stops at the file's end, or when the walk failed.
HashInv ==
  /\ hasher.fed <= SizeOf(job)
  /\ cancel => walk.at = "ended" /\ walk.err # None
  /\ hasher.at \in {"stop", "ended"} => hasher.fed = SizeOf(job) \/ cancel

\* The leaves of the steps done are with the assembler, and the shards it completed on
\* the disk.
WalkInv ==
  /\ walk.first <= Len(job.leaves)
  /\ walk.at \in {"wait", "send", "write"} => walk.first < walk.last /\ walk.last <= Len(job.leaves)
  /\ walk.at # "ended" => walk.err = None
  /\ walk.at = "ended" /\ walk.err = None => walk.first = Len(job.leaves)
  /\ Assembled(job, shards, walk.first)
  /\ ForShards(job, disk.shards)
  /\ \A s \in 1..(shards.next - 1) : disk.shards[s] = WholeShard(job, s)

\* The chunks that end before a step does are sent with it.
ChunkInv ==
  mode # "off" =>
    /\ walk.chunk <= Len(job.chunks)
    /\ walk.at \in {"step", "wait", "send"} => walk.chunk = ChunksTo(job, StartOf(job, walk.first))
    /\ walk.at = "write" => walk.chunk = ChunksTo(job, StartOf(job, walk.last))
    /\ walk.at = "ended" /\ walk.err = None => walk.chunk = Len(job.chunks)

\* The queue has the chunks from the c[0]-th to the sent ones, cut at the others of c.
CutAt(j, q, c, sent) ==
  /\ \A i \in 1..Len(q) : c[i - 1] <= c[i] /\ q[i] = Part(j.chunks, c[i - 1], c[i])
  /\ c[Len(q)] = sent

\* The builder has the chunks before those with the writer, which are before those in
\* the queue, which are before those to send.
OnTheWay(j, b, w, q, sent) ==
  \E n \in 0..Len(j.chunks) : \E c \in [0..Len(q) -> 0..Len(j.chunks)] :
     /\ CutAt(j, q, c, sent)
     /\ Fed(b, j.chunks, n)
     /\ IF w.at = "push" THEN n <= c[0] /\ w.batch = Part(j.chunks, n, c[0]) ELSE n = c[0]

FedInv ==
  main \in {"pass", "join"} =>
    /\ mode = "root" => Fed(builder, job.chunks, walk.chunk)
    /\ mode = "car" /\ writer.at # "failed" => OnTheWay(job, builder, writer, queue, walk.chunk)

\* RootIsTrue, of a job and a disk.
TrueRoot(j, d) ==
  \A root \in ToSet(d.root) :
     /\ d.metas
     /\ \A s \in DOMAIN j.shards : d.shards[s] = WholeShard(j, s) /\ root.shards[s] = WholeShard(j, s)
     /\ root.map = SizeOf(j)
     /\ root.unixfs = IF j.unixfs = "off" THEN <<>> ELSE <<BalancedRoot(j.chunks)>>

\* What is written after the pass, and from what.
DoneInv ==
  /\ main \in {"metas", "root", "commit"} =>
       /\ walk.err = None
       /\ mode = "car" => writer.at = "ended"
       /\ mode # "off" => Closed(builder, job.chunks, Height(job.chunks))
  /\ main \in {"root", "commit"} => disk.metas
  /\ disk.root # <<>> => walk.at = "ended"
  /\ TrueRoot(job, disk)

PassInv == Typed /\ Staged /\ HashInv /\ WalkInv /\ ChunkInv /\ FedInv /\ DoneInv

\* The property, by the job and the disk.
LEMMA TrueRootIs == TrueRoot(job, disk) <=> RootIsTrue
<1>1. Size = SizeOf(job) /\ \A s : LeavesOf(s) = WholeShard(job, s)
  BY PlanOfJob
<1>. QED
  BY <1>1 DEF TrueRoot, RootIsTrue

\* A disk without a root names nothing.
LEMMA NoRoot == ASSUME NEW j, NEW d, d.root = <<>> PROVE TrueRoot(j, d)
<1>1. ToSet(d.root) = {}
  BY DEF ToSet
<1>. QED
  BY <1>1 DEF TrueRoot

(***************************************************************************)
(* The chunks between the walk and the builder.                            *)
(***************************************************************************)
\* At first nothing is sent and nothing on its way.
LEMMA WayStarts ==
  ASSUME NEW j \in Jobs, NEW w, w.at # "push"
  PROVE  OnTheWay(j, NewBuilder, w, <<>>, 0)
<1> DEFINE K == Len(j.chunks)
           c == [i \in 0..0 |-> 0]
<1>1. K \in Nat /\ Len(<<>>) = 0
  BY ChunksAre, NoneSeq
<1>2. 0 \in 0..K /\ c \in [0..Len(<<>>) -> 0..K] /\ c[0] = 0
  BY <1>1
<1>3. CutAt(j, <<>>, c, 0)
  BY <1>1, <1>2 DEF CutAt
<1>4. Fed(NewBuilder, j.chunks, 0)
  BY NewIsFed
<1> HIDE DEF c
<1>. QED
  BY <1>2, <1>3, <1>4 DEF OnTheWay

\* When nothing is on its way, the builder took all that was sent.
LEMMA WayEnds ==
  ASSUME NEW j, NEW b, NEW w, NEW sent, OnTheWay(j, b, w, <<>>, sent), w.at # "push"
  PROVE  Fed(b, j.chunks, sent)
<1>1. Len(<<>>) = 0
  BY NoneSeq
<1>. QED
  BY <1>1 DEF OnTheWay, CutAt

\* The sink takes the next chunks to the end of the queue.
LEMMA WaySends ==
  ASSUME NEW j \in Jobs, NEW b, NEW w, NEW q, IsSeq(q), NEW sent \in Nat, NEW end \in Nat,
         sent <= end, end <= Len(j.chunks), OnTheWay(j, b, w, q, sent)
  PROVE  OnTheWay(j, b, w, Append(q, Part(j.chunks, sent, end)), end)
<1> DEFINE K == Len(j.chunks)
           N == Len(q)
           part == Part(j.chunks, sent, end)
           r == Append(q, part)
<1>1. K \in Nat /\ N \in Nat
  BY ChunksAre, SeqParts
<1>2. PICK n \in 0..K : \E c \in [0..N -> 0..K] :
         /\ CutAt(j, q, c, sent)
         /\ Fed(b, j.chunks, n)
         /\ IF w.at = "push" THEN n <= c[0] /\ w.batch = Part(j.chunks, n, c[0]) ELSE n = c[0]
  BY DEF OnTheWay
<1>3. PICK c \in [0..N -> 0..K] :
         /\ CutAt(j, q, c, sent)
         /\ Fed(b, j.chunks, n)
         /\ IF w.at = "push" THEN n <= c[0] /\ w.batch = Part(j.chunks, n, c[0]) ELSE n = c[0]
  BY <1>2
<1>4. Len(r) = N + 1 /\ (\A i \in 1..N : r[i] = q[i]) /\ r[N + 1] = part
  <2>1. Len(r) = N + 1
    BY Appended
  <2>2. \A i \in 1..N : r[i] = q[i]
    BY Appended
  <2>3. r[N + 1] = part
    BY Appended
  <2>. QED
    BY <2>1, <2>2, <2>3
<1> HIDE DEF K, N, r
<1> DEFINE e == [i \in 0..(N + 1) |-> IF i = N + 1 THEN end ELSE c[i]]
<1>5. e \in [0..(N + 1) -> 0..K] /\ e[N + 1] = end /\ \A i \in 0..N : e[i] = c[i]
  <2>1. end \in 0..K
    BY <1>1 DEF K
  <2>2. \A i \in 0..(N + 1) : i = N + 1 \/ i \in 0..N
    BY <1>1
  <2>3. \A i \in 0..N : c[i] \in 0..K
    BY <1>3
  <2>4. N + 1 \in 0..(N + 1) /\ \A i \in 0..N : i \in 0..(N + 1) /\ i # N + 1
    BY <1>1
  <2>. QED
    BY <2>1, <2>2, <2>3, <2>4
<1> HIDE DEF e
<1>6. c[N] = sent /\ \A i \in 1..N : c[i - 1] <= c[i] /\ q[i] = Part(j.chunks, c[i - 1], c[i])
  BY <1>3 DEF CutAt, N
<1>7. ASSUME NEW i \in 1..(N + 1) PROVE e[i - 1] <= e[i] /\ r[i] = Part(j.chunks, e[i - 1], e[i])
  <2>1. CASE i = N + 1
    <3>1. i - 1 = N /\ N \in 0..N
      BY <1>1, <2>1
    <3>2. e[i - 1] = sent /\ e[i] = end
      BY <1>5, <1>6, <2>1, <3>1
    <3>. QED
      BY <1>4, <2>1, <3>2
  <2>2. CASE i # N + 1
    <3>1. i \in 1..N /\ i - 1 \in 0..N /\ i \in 0..N
      BY <1>1, <2>2
    <3>2. e[i - 1] = c[i - 1] /\ e[i] = c[i]
      BY <1>5, <3>1
    <3>. QED
      BY <1>4, <1>6, <3>1, <3>2
  <2>. QED
    BY <2>1, <2>2
<1>8. CutAt(j, r, e, end)
  BY <1>4, <1>5, <1>7 DEF CutAt
<1>9. e[0] = c[0]
  <2>1. 0 \in 0..N
    BY <1>1
  <2>. QED
    BY <1>5, <2>1
<1>10. n \in 0..Len(j.chunks) /\ e \in [0..Len(r) -> 0..Len(j.chunks)]
  BY <1>2, <1>4, <1>5 DEF K
<1>11. OnTheWay(j, b, w, r, end)
  BY <1>3, <1>8, <1>9, <1>10 DEF OnTheWay
<1>. QED
  BY <1>11 DEF r

\* The tail of a sequence that is not empty.
LEMMA Shifted ==
  ASSUME NEW q, IsSeq(q), q # <<>>
  PROVE  /\ Len(q) \in Nat \ {0} /\ Head(q) = q[1]
         /\ IsSeq(Tail(q)) /\ Len(Tail(q)) = Len(q) - 1
         /\ \A i \in 1..(Len(q) - 1) : Tail(q)[i] = q[i + 1]
<1>1. q \in Seq(ToSet(q))
  BY DEF IsSeq
<1>2. Len(q) \in Nat \ {0}
  BY EmptyIs, SeqParts
<1>3. Head(q) = q[1]
  BY <1>1
<1> DEFINE t == Tail(q)
           d == Len(q) - 1
<1>4. t \in Seq(ToSet(q)) /\ Len(t) = d /\ \A i \in 1..d : t[i] = q[i + 1]
  BY <1>1, <1>2
<1>5. t = [i \in 1..d |-> t[i]] /\ d \in Nat
  <2> DEFINE S == ToSet(q)
  <2>1. t \in Seq(S) /\ Len(t) = d /\ d \in Nat
    BY <1>2, <1>4
  <2> HIDE DEF t, d, S
  <2>2. t = [i \in 1..Len(t) |-> t[i]]
    BY ONLY <2>1
  <2>. QED
    BY <2>1, <2>2
<1> HIDE DEF t, d
<1>6. IsSeq(t)
  BY <1>5, ValuesAreSeq
<1>. QED
  BY <1>2, <1>3, <1>4, <1>6 DEF t, d

\* The writer takes the batch at the head of the queue.
LEMMA WayReceives ==
  ASSUME NEW j \in Jobs, NEW b, NEW w, NEW q, IsSeq(q), q # <<>>, NEW sent,
         OnTheWay(j, b, w, q, sent), w.at # "push", NEW v, v.at = "push", v.batch = Head(q)
  PROVE  OnTheWay(j, b, v, Tail(q), sent)
<1> DEFINE K == Len(j.chunks)
           N == Len(q)
           M == N - 1
           t == Tail(q)
<1>1. K \in Nat /\ N \in Nat \ {0} /\ M \in Nat /\ Len(t) = M
  <2>1. K \in Nat
    BY ChunksAre
  <2>2. Len(q) \in Nat \ {0}
    BY Shifted
  <2>3. Len(Tail(q)) = Len(q) - 1
    BY Shifted
  <2>. QED
    BY <2>1, <2>2, <2>3
<1>2. \A i \in 1..M : t[i] = q[i + 1]
  BY Shifted
<1>3. v.batch = q[1]
  BY Shifted
<1>4. PICK n \in 0..K : \E c \in [0..N -> 0..K] : CutAt(j, q, c, sent) /\ Fed(b, j.chunks, n) /\ n = c[0]
  BY DEF OnTheWay
<1>5. PICK c \in [0..N -> 0..K] : CutAt(j, q, c, sent) /\ Fed(b, j.chunks, n) /\ n = c[0]
  BY <1>4
<1>6. c[N] = sent /\ \A i \in 1..N : c[i - 1] <= c[i] /\ q[i] = Part(j.chunks, c[i - 1], c[i])
  BY <1>5 DEF CutAt
<1> HIDE DEF K, t
<1> DEFINE e == [i \in 0..M |-> c[i + 1]]
<1>7. e \in [0..M -> 0..K] /\ \A i \in 0..M : e[i] = c[i + 1]
  <2>1. \A i \in 0..M : i + 1 \in 0..N
    BY <1>1
  <2>. QED
    BY <1>5, <2>1
<1> HIDE DEF e, N
<1>8. e[M] = sent
  <2>1. M \in 0..M /\ M + 1 = N
    BY <1>1
  <2>. QED
    BY <1>6, <1>7, <2>1
<1>9. ASSUME NEW i \in 1..M PROVE e[i - 1] <= e[i] /\ t[i] = Part(j.chunks, e[i - 1], e[i])
  <2> DEFINE k == i + 1
  <2>1. i - 1 \in 0..M /\ i \in 0..M /\ (i - 1) + 1 = i /\ k \in 1..N /\ k - 1 = i
    BY <1>1
  <2>2. e[i - 1] = c[i] /\ e[i] = c[k]
    BY <1>7, <2>1
  <2>3. c[k - 1] <= c[k] /\ q[k] = Part(j.chunks, c[k - 1], c[k])
    BY <1>6, <2>1
  <2>. QED
    BY <1>2, <2>1, <2>2, <2>3
<1>10. CutAt(j, t, e, sent)
  BY <1>1, <1>8, <1>9 DEF CutAt
<1>11. n <= e[0] /\ v.batch = Part(j.chunks, n, e[0])
  <2>1. 1 \in 1..N /\ 1 - 1 = 0 /\ 0 \in 0..M /\ 0 + 1 = 1
    BY <1>1
  <2>2. c[0] <= c[1] /\ q[1] = Part(j.chunks, c[0], c[1])
    BY <1>6, <2>1
  <2>3. e[0] = c[1]
    BY <1>7, <2>1
  <2>. QED
    BY <1>3, <1>5, <2>2, <2>3
<1>12. n \in 0..Len(j.chunks) /\ e \in [0..Len(t) -> 0..Len(j.chunks)]
  BY <1>1, <1>4, <1>7 DEF K
<1>13. OnTheWay(j, b, v, t, sent)
  BY <1>5, <1>10, <1>11, <1>12 DEF OnTheWay
<1>. QED
  BY <1>13 DEF t

\* The writer's batch comes to the builder.
LEMMA WayPushes ==
  ASSUME NEW j \in Jobs, NEW b, NEW w, NEW q, IsSeq(q), NEW sent, w.at = "push",
         OnTheWay(j, b, w, q, sent), NEW v, v.at # "push"
  PROVE  OnTheWay(j, PushChunks(b, w.batch), v, q, sent)
<1> DEFINE K == Len(j.chunks)
           N == Len(q)
<1>1. K \in Nat /\ K > 0 /\ IsSeq(j.chunks) /\ N \in Nat
  BY ChunksAre, SeqParts
<1>2. PICK n \in 0..K : \E c \in [0..N -> 0..K] :
         CutAt(j, q, c, sent) /\ Fed(b, j.chunks, n) /\ n <= c[0] /\ w.batch = Part(j.chunks, n, c[0])
  BY DEF OnTheWay
<1>3. PICK c \in [0..N -> 0..K] :
         CutAt(j, q, c, sent) /\ Fed(b, j.chunks, n) /\ n <= c[0] /\ w.batch = Part(j.chunks, n, c[0])
  BY <1>2
<1> DEFINE m == c[0]
<1>4. n \in Nat /\ m \in Nat /\ n <= m /\ m <= K /\ m \in 0..K
  <2>1. 0 \in 0..N
    BY <1>1
  <2>2. c[0] \in 0..K
    BY <1>3, <2>1
  <2>. QED
    BY <1>1, <1>3, <2>2
<1>5. Fed(PushChunks(b, w.batch), j.chunks, m)
  <2> HIDE DEF m
  <2>1. w.batch = Part(j.chunks, n, m)
    BY <1>3 DEF m
  <2>2. Fed(PushChunks(b, Part(j.chunks, n, m)), j.chunks, m)
    BY <1>1, <1>3, <1>4, PushChunksIs
  <2>. QED
    BY <2>1, <2>2
<1>. QED
  BY <1>3, <1>4, <1>5 DEF OnTheWay

(***************************************************************************)
(* The threads keep the invariant.                                         *)
(***************************************************************************)
\* The lesser of two.
LEMMA LesserIs ==
  ASSUME NEW a \in Int, NEW b \in Int
  PROVE  Min({a, b}) = IF a <= b THEN a ELSE b
BY DEF Min

\* A step has a leaf, and ends with the leaves.
LEMMA StepEndIs ==
  ASSUME job \in Jobs, NEW first \in Nat, first < Len(job.leaves)
  PROVE  StepEnd(first) \in (first + 1)..Len(job.leaves)
<1> DEFINE N == Len(job.leaves)
           y == first + StepLeaves
           S == {e \in (first + 1)..Min({y, N}) : e = first + 1 \/ Start(e - 1) - Start(first) < StepBytes}
<1>1. N \in Nat /\ Count = N /\ StepLeaves \in Nat \ {0}
  BY JobIs, PlanOfJob, PackerAssumption
<1> HIDE DEF N
<1>2. StepEnd(first) = Max(S)
  BY <1>1 DEF StepEnd
<1>3. y \in Nat /\ y >= first + 1
  BY <1>1
<1> HIDE DEF y
<1>4. Min({y, N}) = IF y <= N THEN y ELSE N
  BY <1>1, <1>3, LesserIs
<1> DEFINE z == Min({y, N})
<1>5. z \in Nat /\ z <= N /\ first + 1 <= z
  BY <1>1, <1>3, <1>4 DEF N
<1>6. S \subseteq (first + 1)..z /\ first + 1 \in S
  BY <1>5
<1> HIDE DEF S, z
<1>7. \E e \in S : \A k \in S : e >= k
  <2> DEFINE T == {d \in Nat : \E e \in S : d = z - e}
  <2>1. T # {} /\ T \in SUBSET Nat
    <3>1. z - (first + 1) \in Nat
      BY <1>5
    <3>2. z - (first + 1) \in T
      BY <1>6, <3>1
    <3>. QED
      BY <3>2
  <2>2. PICK d \in T : \A k \in T : d <= k
    BY <2>1, LeastNat
  <2>3. PICK e \in S : d = z - e
    BY <2>2
  <2>4. ASSUME NEW k \in S PROVE e >= k
    <3>1. k \in (first + 1)..z /\ e \in (first + 1)..z
      BY <1>6
    <3>2. k \in Nat /\ e \in Nat /\ z - k \in Nat
      BY <1>5, <3>1
    <3>3. z - k \in T
      BY <3>2
    <3>4. d <= z - k
      BY <2>2, <3>3
    <3>. QED
      BY <1>5, <2>3, <3>2, <3>4
  <2>. QED
    BY <2>4
<1>8. Max(S) \in S
  BY <1>7 DEF Max
<1>9. Max(S) \in (first + 1)..N
  <2> DEFINE m == Max(S)
  <2>1. m \in (first + 1)..z
    BY <1>6, <1>8
  <2> HIDE DEF m
  <2>2. m \in (first + 1)..N
    BY ONLY <1>1, <1>5, <2>1, first \in Nat DEF N
  <2>. QED
    BY <2>2 DEF m
<1>. QED
  BY <1>2, <1>9 DEF N

\* The pass begins.
LEMMA InitIs == Init => PassInv
<1> SUFFICES ASSUME Init PROVE PassInv
  OBVIOUS
<1>1. job \in Jobs /\ disk.root = <<>> /\ main = "dirs"
  BY DEF Init
<1>2. /\ 0 <= SizeOf(job) /\ Len(job.leaves) \in Nat /\ Len(job.leaves) > 0
      /\ FirstOf(job, 1) = 0 /\ Len(job.shards) \in Nat /\ Len(job.shards) > 0
  <2>1. SizeOf(job) \in Nat
    BY <1>1, ChunksAre
  <2>2. Len(job.leaves) \in Nat \ {0} /\ Len(job.shards) \in Nat \ {0}
    BY <1>1, JobIs
  <2>3. FirstOf(job, 1) = 0
    BY <1>1, Firsts
  <2>. QED
    BY <2>1, <2>2, <2>3
<1>3. Typed
  BY NoneSeq DEF Init, Typed
<1>4. Staged
  BY DEF Init, Staged
<1>5. HashInv
  BY <1>2 DEF Init, HashInv
<1>6. WalkInv
  <2> DEFINE none == [s \in DOMAIN job.shards |-> <<>>]
  <2>1. ForShards(job, none)
    BY DEF ForShards
  <2>2. shards = [leaves |-> <<>>, next |-> 1, digests |-> none] /\ disk.shards = none
    BY DEF Init
  <2> HIDE DEF none
  <2>3. Between(0, 0) = <<>>
    <3> DEFINE t == [i \in 1..(0 - 0) |-> 0 + i - 1]
    <3>1. 0 - 0 = 0
      OBVIOUS
    <3>2. t = [i \in 1..0 |-> t[i]]
      BY <3>1
    <3> HIDE DEF t
    <3>3. IsSeq(t) /\ Len(t) = 0
      BY <3>2, ValuesAreSeq
    <3>4. t = <<>>
      BY <3>3, EmptyIs
    <3>. QED
      BY <3>4 DEF Between, t
  <2>4. 0 < FirstOf(job, 2)
    <3>1. 1 \in 1..Len(job.shards) /\ 1 + 1 = 2
      BY <1>2
    <3>2. job.shards[1] \in Nat \ {0} /\ FirstOf(job, 1 + 1) = FirstOf(job, 1) + job.shards[1]
      BY <1>1, <3>1, Firsts
    <3>. QED
      BY <1>2, <3>1, <3>2
  <2>5. Assembled(job, shards, 0)
    BY <1>2, <2>1, <2>2, <2>3, <2>4 DEF Assembled
  <2>6. walk.first = 0 /\ walk.at = "step" /\ walk.err = None
    BY DEF Init
  <2>7. shards.next = 1 /\ 1..(1 - 1) = {}
    BY <2>2
  <2>. QED
    BY <1>2, <2>1, <2>2, <2>5, <2>6, <2>7 DEF WalkInv
<1>7. ChunkInv
  BY DEF Init, ChunkInv
<1>8. FedInv
  BY DEF Init, FedInv
<1>9. DoneInv
  BY <1>1, NoRoot DEF DoneInv
<1>. QED
  BY <1>3, <1>4, <1>5, <1>6, <1>7, <1>8, <1>9 DEF PassInv

\* What a step does not touch.
LEMMA SameHash ==
  ASSUME HashInv, job' = job, hasher' = hasher, cancel' = cancel, walk.at = "ended" => walk' = walk
  PROVE  HashInv'
BY DEF HashInv

\* A step that leaves the walk, the assembler and the shards alone.
LEMMA SameWalk ==
  ASSUME WalkInv, job' = job, walk' = walk, shards' = shards, disk'.shards = disk.shards
  PROVE  WalkInv'
BY DEF WalkInv

\* A step that leaves the walk alone.
LEMMA SameChunk ==
  ASSUME ChunkInv, job' = job, mode' = mode, walk' = walk
  PROVE  ChunkInv'
BY DEF ChunkInv

\* A step that leaves the chunks on their way alone.
LEMMA SameFed ==
  ASSUME FedInv, job' = job, mode' = mode, walk'.chunk = walk.chunk, builder' = builder, writer' = writer, queue' = queue,
         main' \in {"pass", "join"} => main \in {"pass", "join"}
  PROVE  FedInv'
BY DEF FedInv

\* Before the pass is done nothing is said of it.
LEMMA NotDone ==
  ASSUME main' \notin {"metas", "root", "commit"}, disk'.root = <<>>
  PROVE  DoneInv'
<1>1. TrueRoot(job', disk')
  BY NoRoot
<1>. QED
  BY <1>1 DEF DoneInv

\* Nor while the walk goes on.
LEMMA Walking ==
  ASSUME PassInv, walk.at # "ended" \/ hasher.at # "ended"
  PROVE  main \in {"dirs", "pass", "ended"} /\ (walk.at # "ended" => disk.root = <<>>)
BY DEF PassInv, Typed, Staged, DoneInv

(***************************************************************************)
(* The hasher.                                                             *)
(***************************************************************************)
\* The hasher's slices: what it took is what the counter says until it stops.
LEMMA HasherKeeps == ASSUME PassInv, Hasher PROVE PassInv'
<1> USE DEF PassInv
<1>1. /\ UNCHANGED <<job, main, mode, refused, cancel, walk, shards, queue, writer, builder, disk, met, result>>
      /\ hasher.at # "ended"
  BY DEF Hasher, Check, HashSlice, StopHashing
<1>2. SizeOf(job) \in Nat /\ HasherSlice \in Nat \ {0} /\ MaxU64 \in Nat /\ Size = SizeOf(job)
  BY ChunksAre, PackerAssumption, PlanOfJob DEF Typed
<1>3. /\ hasher' \in [at : {"check", "hash", "stop", "ended"}, fed : Nat, hashed : Nat]
      /\ HashInv'
  <2>1. hasher \in [at : {"check", "hash", "stop", "ended"}, fed : Nat, hashed : Nat]
    BY DEF Typed
  <2>2. CASE Check
    <3>1. hasher' = [hasher EXCEPT !.at = IF hasher.fed = SizeOf(job) \/ cancel THEN "stop" ELSE "hash"]
      BY <1>2, <2>2 DEF Check
    <3>. QED
      BY <1>1, <2>1, <3>1 DEF HashInv
  <2>3. CASE HashSlice
    <3> DEFINE rest == SizeOf(job) - hasher.fed
               slice == Min({HasherSlice, rest})
    <3>1. rest \in Nat /\ hasher.fed \in Nat
      BY <1>2, <2>1 DEF HashInv
    <3>2. hasher' = [hasher EXCEPT !.at = "check", !.fed = @ + slice, !.hashed = @ + slice]
      BY <1>2, <2>3 DEF HashSlice
    <3>3. slice = IF HasherSlice <= rest THEN HasherSlice ELSE rest
      <4> HIDE DEF rest
      <4>. QED
        BY <1>2, <3>1, LesserIs
    <3>4. slice \in Nat /\ hasher.fed + slice <= SizeOf(job)
      <4> DEFINE Z == SizeOf(job)
      <4>1. Z \in Nat /\ rest = Z - hasher.fed
        BY <1>2
      <4> HIDE DEF Z, slice, rest
      <4>2. slice \in Nat /\ hasher.fed + slice <= Z
        BY <1>2, <3>1, <3>3, <4>1
      <4>. QED
        BY <4>2 DEF Z
    <3> HIDE DEF slice, rest
    <3>5. hasher' = [at |-> "check", fed |-> hasher.fed + slice, hashed |-> hasher.hashed + slice]
      BY <2>1, <3>2
    <3>7. hasher.fed + slice \in Nat /\ hasher.hashed + slice \in Nat
      <4>1. hasher.fed \in Nat /\ hasher.hashed \in Nat
        BY <2>1
      <4>. QED
        BY <3>4, <4>1
    <3>8. hasher' \in [at : {"check", "hash", "stop", "ended"}, fed : Nat, hashed : Nat]
      BY <3>5, <3>7
    <3>6. hasher'.fed <= SizeOf(job) /\ hasher'.at = "check"
      BY <3>4, <3>5
    <3>. QED
      BY <1>1, <3>6, <3>8 DEF HashInv
  <2>4. CASE StopHashing
    <3>1. hasher.at = "stop" /\ hasher' = [hasher EXCEPT !.at = "ended", !.hashed = MaxU64]
      BY <2>4 DEF StopHashing
    <3>2. hasher' = [at |-> "ended", fed |-> hasher.fed, hashed |-> MaxU64] /\ hasher.fed \in Nat
      BY <2>1, <3>1
    <3>3. hasher' \in [at : {"check", "hash", "stop", "ended"}, fed : Nat, hashed : Nat]
      BY <1>2, <3>2
    <3>4. hasher'.at = "ended" /\ hasher'.fed = hasher.fed
      BY <3>2
    <3>. QED
      BY <1>1, <3>1, <3>3, <3>4 DEF HashInv
  <2>. QED
    BY <2>2, <2>3, <2>4 DEF Hasher
<1>4. Typed'
  BY <1>1, <1>3 DEF Typed
<1>5. Staged'
  BY <1>1 DEF Staged
<1>6. WalkInv'
  BY <1>1, SameWalk
<1>7. ChunkInv'
  BY <1>1, SameChunk
<1>8. FedInv'
  BY <1>1, SameFed
<1>9. DoneInv'
  BY <1>1 DEF DoneInv
<1>. QED
  BY <1>3, <1>4, <1>5, <1>6, <1>7, <1>8, <1>9

\* The hasher learns that the walk failed, or goes on.
LEMMA HashGoesOn ==
  ASSUME HashInv, job' = job, hasher' = hasher, walk.at # "ended", cancel \in BOOLEAN,
         \/ cancel' = cancel
         \/ walk'.at = "ended" /\ cancel' = (walk'.err # None)
  PROVE  HashInv'
BY DEF HashInv

\* A walk that goes on, as a record.
LEMMA WalkParts ==
  ASSUME Typed, walk.at \in {"step", "wait", "send", "write"}
  PROVE  /\ walk = [at |-> walk.at, first |-> walk.first, last |-> walk.last, chunk |-> walk.chunk, err |-> walk.err]
         /\ walk.first \in Nat /\ walk.last \in Nat /\ walk.chunk \in Nat
BY DEF Typed

\* The walk takes its place after an action.
LEMMA TypedWalk ==
  ASSUME Typed, job' = job, main' = main, mode' = mode, hasher' = hasher, cancel' \in BOOLEAN,
         NEW at \in {"step", "wait", "send", "write", "ended"}, NEW first \in Nat, NEW last \in Nat,
         NEW chunk \in Nat, NEW err \in {None, "stopped", "shard"},
         walk' = [at |-> at, first |-> first, last |-> last, chunk |-> chunk, err |-> err],
         writer' = writer, IsSeq(queue'),
         disk' = [shards |-> disk'.shards, metas |-> disk'.metas, root |-> disk'.root, car |-> disk'.car]
  PROVE  Typed'
<1>1. walk' \in [at : {"step", "wait", "send", "write", "ended"}, first : Nat, last : Nat,
                 chunk : Nat, err : {None, "stopped", "shard"}]
  OBVIOUS
<1>. QED
  BY <1>1 DEF Typed

\* The walk begins a step or ends: a step's leaves are a part of the plan.
LEMMA BeginStepKeeps == ASSUME PassInv, BeginStep PROVE PassInv'
<1> USE DEF PassInv
<1> DEFINE N == Len(job.leaves)
<1>1. /\ main = "pass" /\ walk.at = "step"
      /\ UNCHANGED <<job, main, mode, refused, hasher, shards, queue, writer, builder, disk, met, result>>
      /\ IF walk.first < N
         THEN walk' = [walk EXCEPT !.at = "wait", !.last = StepEnd(walk.first)] /\ UNCHANGED cancel
         ELSE Walked(None)
  BY PlanOfJob DEF BeginStep
<1>2. N \in Nat \ {0} /\ walk.first \in Nat /\ walk.first <= N /\ walk.err = None /\ walk.chunk \in Nat
      /\ cancel \in BOOLEAN /\ job \in Jobs
  BY <1>1, JobIs DEF Typed, WalkInv
<1>3. walk = [at |-> walk.at, first |-> walk.first, last |-> walk.last, chunk |-> walk.chunk, err |-> walk.err]
  BY <1>1, WalkParts
<1>4. /\ IsSeq(queue') /\ walk.last \in Nat
      /\ disk' = [shards |-> disk'.shards, metas |-> disk'.metas, root |-> disk'.root, car |-> disk'.car]
  BY <1>1 DEF Typed
<1>5. DoneInv'
  BY <1>1, NotDone, Walking
<1>6. CASE walk.first < N
  <2> DEFINE last == StepEnd(walk.first)
  <2>1. last \in (walk.first + 1)..N
    BY <1>2, <1>6, StepEndIs
  <2> HIDE DEF last
  <2>2. last \in Nat /\ walk.first < last /\ last <= N
    BY <1>2, <2>1
  <2>3. walk' = [at |-> "wait", first |-> walk.first, last |-> last, chunk |-> walk.chunk, err |-> None] /\ cancel' = cancel
    BY <1>1, <1>2, <1>3, <1>6 DEF last
  <2>4. walk'.at = "wait" /\ walk'.first = walk.first /\ walk'.last = last /\ walk'.chunk = walk.chunk /\ walk'.err = None
    BY <2>3
  <2>5. Typed'
    BY <1>1, <1>2, <1>4, <2>2, <2>3, TypedWalk
  <2>6. Staged'
    BY <1>1, <2>4 DEF Staged
  <2>7. HashInv'
    BY <1>1, <1>2, <2>3, HashGoesOn
  <2>8. WalkInv'
    BY <1>1, <2>2, <2>4 DEF WalkInv
  <2>9. ChunkInv'
    BY <1>1, <2>4 DEF ChunkInv
  <2>10. FedInv'
    BY <1>1, <2>4, SameFed
  <2>. QED
    BY <1>5, <2>5, <2>6, <2>7, <2>8, <2>9, <2>10
<1>7. CASE ~(walk.first < N)
  <2>1. walk' = [walk EXCEPT !.at = "ended", !.err = None] /\ cancel' = (None # None)
    BY <1>1, <1>7, Zenon DEF Walked, Cancelled
  <2>2. walk' = [at |-> "ended", first |-> walk.first, last |-> walk.last, chunk |-> walk.chunk, err |-> None]
    BY <1>3, <2>1
  <2>3. walk'.at = "ended" /\ walk'.first = walk.first /\ walk'.chunk = walk.chunk /\ walk'.err = None /\ cancel' = FALSE
    BY <2>1, <2>2
  <2>4. walk.first = N
    BY <1>2, <1>7
  <2>5. Typed'
    BY <1>1, <1>2, <1>4, <2>2, <2>3, TypedWalk
  <2>6. Staged'
    BY <1>1, <2>3 DEF Staged
  <2>7. HashInv'
    BY <1>1, <2>3 DEF HashInv
  <2>8. WalkInv'
    BY <1>1, <2>3, <2>4 DEF WalkInv
  <2>9. ChunkInv'
    <3>1. mode # "off" => walk.chunk = ChunksTo(job, StartOf(job, N))
      BY <1>1, <2>4 DEF ChunkInv
    <3>2. ChunksTo(job, StartOf(job, N)) = Len(job.chunks)
      BY <1>2, ChunksAre DEF SizeOf
    <3>3. Len(job.chunks) \in Nat
      BY <1>2, ChunksAre
    <3>. QED
      BY <1>1, <2>3, <3>1, <3>2, <3>3 DEF ChunkInv
  <2>10. FedInv'
    BY <1>1, <2>3, SameFed
  <2>. QED
    BY <1>5, <2>5, <2>6, <2>7, <2>8, <2>9, <2>10
<1>. QED
  BY <1>6, <1>7

\* The walk waited for the hasher: only its place changes.
LEMMA HashStepKeeps == ASSUME PassInv, HashStep PROVE PassInv'
<1> USE DEF PassInv
<1>1. /\ walk.at = "wait" /\ walk' = [walk EXCEPT !.at = "send"]
      /\ UNCHANGED <<job, main, mode, refused, hasher, cancel, shards, queue, writer, builder, disk, met, result>>
  BY DEF HashStep
<1>2. /\ walk = [at |-> walk.at, first |-> walk.first, last |-> walk.last, chunk |-> walk.chunk, err |-> walk.err]
      /\ walk.first \in Nat /\ walk.last \in Nat /\ walk.chunk \in Nat
  BY <1>1, WalkParts
<1>3. /\ IsSeq(queue') /\ cancel \in BOOLEAN /\ walk.err = None
      /\ disk' = [shards |-> disk'.shards, metas |-> disk'.metas, root |-> disk'.root, car |-> disk'.car]
  BY <1>1 DEF Typed, WalkInv
<1>4. walk' = [at |-> "send", first |-> walk.first, last |-> walk.last, chunk |-> walk.chunk, err |-> None]
  BY <1>1, <1>2, <1>3
<1>5. walk'.at = "send" /\ walk'.first = walk.first /\ walk'.last = walk.last /\ walk'.chunk = walk.chunk /\ walk'.err = None
  BY <1>4
<1>6. main = "pass"
  BY <1>1 DEF Staged
<1>7. Typed'
  BY <1>1, <1>2, <1>3, <1>4, TypedWalk
<1>8. Staged'
  BY <1>1, <1>5, <1>6 DEF Staged
<1>9. HashInv'
  BY <1>1, <1>3, HashGoesOn
<1>10. WalkInv'
  BY <1>1, <1>5 DEF WalkInv
<1>11. ChunkInv'
  BY <1>1, <1>5 DEF ChunkInv
<1>12. FedInv'
  BY <1>1, <1>5, SameFed
<1>13. DoneInv'
  BY <1>1, <1>6, NotDone, Walking
<1>. QED
  BY <1>7, <1>8, <1>9, <1>10, <1>11, <1>12, <1>13

\* The chunks that end with a step, of those that end before it or with it.
LEMMA SendingIs ==
  ASSUME PassInv, walk.at = "send"
  PROVE  /\ main = "pass" /\ job \in Jobs /\ walk.first \in Nat /\ walk.last \in Nat /\ walk.chunk \in Nat
         /\ walk.err = None /\ cancel \in BOOLEAN /\ Len(job.chunks) \in Nat
         /\ ChunksTo(job, StartOf(job, walk.last)) \in 0..Len(job.chunks)
         /\ mode # "off" => walk.chunk <= ChunksTo(job, StartOf(job, walk.last))
<1> USE DEF PassInv
<1> DEFINE N == Len(job.leaves)
           K == Len(job.chunks)
           x == StartOf(job, walk.first)
           y == StartOf(job, walk.last)
<1>1. /\ main = "pass" /\ job \in Jobs /\ walk.first \in Nat /\ walk.last \in Nat /\ walk.chunk \in Nat
      /\ walk.err = None /\ cancel \in BOOLEAN
  BY DEF Typed, Staged, WalkInv
<1>2. walk.first \in 0..N /\ walk.last \in 0..N /\ N \in 0..N /\ walk.first <= walk.last
  <2>1. walk.first < walk.last /\ walk.last <= N
    BY DEF WalkInv
  <2>2. N \in Nat
    BY <1>1, JobIs
  <2>. QED
    BY <1>1, <2>1, <2>2
<1>3. x \in Nat /\ y \in Nat /\ SizeOf(job) \in Nat /\ x <= y /\ y <= SizeOf(job)
  BY <1>1, <1>2, Starts DEF SizeOf
<1> HIDE DEF x, y
<1>4. K \in Nat /\ ChunksTo(job, y) \in 0..K /\ ChunksTo(job, x) <= ChunksTo(job, y)
  <2>1. x \in 0..SizeOf(job) /\ y \in 0..SizeOf(job)
    BY <1>3
  <2>. QED
    BY <1>1, <1>3, <2>1, ChunksAre
<1>5. mode # "off" => walk.chunk = ChunksTo(job, x)
  BY DEF ChunkInv, x
<1>. QED
  BY <1>1, <1>4, <1>5 DEF y

\* The step's chunks go to the builder or the queue, the next ones in order.
LEMMA SendChunksKeeps == ASSUME PassInv, SendChunks PROVE PassInv'
<1> USE DEF PassInv
<1> DEFINE K == Len(job.chunks)
           end == ChunksTo(job, StartOf(job, walk.last))
           digests == Part(job.chunks, walk.chunk, end)
<1>1. /\ walk.at = "send"
      /\ UNCHANGED <<job, main, mode, refused, hasher, shards, writer, disk, met, result>>
  BY DEF SendChunks
<1>2. \/ /\ mode = "off" \/ end <= walk.chunk
         /\ walk' = [walk EXCEPT !.at = "write"] /\ UNCHANGED <<cancel, queue, builder>>
      \/ /\ mode = "root" /\ end > walk.chunk
         /\ walk' = [walk EXCEPT !.at = "write", !.chunk = end] /\ UNCHANGED cancel
         /\ builder' = PushChunks(builder, digests) /\ UNCHANGED queue
      \/ /\ mode = "car" /\ end > walk.chunk /\ writer.at # "failed"
         /\ walk' = [walk EXCEPT !.at = "write", !.chunk = end] /\ UNCHANGED cancel
         /\ queue' = Append(queue, digests) /\ UNCHANGED builder
      \/ /\ mode = "car" /\ end > walk.chunk /\ writer.at = "failed"
         /\ walk' = [walk EXCEPT !.at = "ended", !.err = "stopped"]
         /\ cancel' = ("stopped" # None) /\ UNCHANGED <<queue, builder>>
  <2>1. ChunksBefore(Start(walk.last)) = end
    BY PlanOfJob
  <2>2. SubSeq(job.chunks, walk.chunk + 1, end) = digests
    BY DEF Part
  <2> HIDE DEF end, digests
  <2>. QED
    BY <2>1, <2>2 DEF SendChunks, Walked, Cancelled
<1>3. /\ main = "pass" /\ job \in Jobs /\ walk.first \in Nat /\ walk.last \in Nat /\ walk.chunk \in Nat
      /\ walk.err = None /\ cancel \in BOOLEAN /\ K \in Nat
      /\ end \in 0..K /\ (mode # "off" => walk.chunk <= end)
  BY <1>1, SendingIs
<1>4. walk = [at |-> walk.at, first |-> walk.first, last |-> walk.last, chunk |-> walk.chunk, err |-> walk.err]
  BY <1>1, WalkParts
<1>5. /\ IsSeq(queue)
      /\ disk' = [shards |-> disk'.shards, metas |-> disk'.metas, root |-> disk'.root, car |-> disk'.car]
  BY <1>1 DEF Typed
<1>6. DoneInv'
  BY <1>1, <1>3, NotDone, Walking
<1>7. walk.first < walk.last /\ walk.last <= Len(job.leaves)
  BY <1>1 DEF WalkInv
<1>8. end \in Nat /\ end <= K /\ end = ChunksTo(job, StartOf(job, walk.last))
  BY <1>3
<1>9. /\ mode = "root" => Fed(builder, job.chunks, walk.chunk)
      /\ mode = "car" /\ writer.at # "failed" => OnTheWay(job, builder, writer, queue, walk.chunk)
  BY <1>3 DEF FedInv
<1>10. writer.at # "ended"
  BY <1>3 DEF Staged
<1> HIDE DEF end, digests
<1>11. ASSUME NEW chunk \in Nat, mode # "off" => chunk = end,
              walk' = [at |-> "write", first |-> walk.first, last |-> walk.last, chunk |-> chunk, err |-> None],
              cancel' = cancel, IsSeq(queue'), FedInv'
       PROVE  PassInv'
  <2>1. walk'.at = "write" /\ walk'.first = walk.first /\ walk'.last = walk.last /\ walk'.chunk = chunk /\ walk'.err = None
    BY <1>11
  <2>2. Typed'
    BY <1>1, <1>3, <1>5, <1>11, TypedWalk
  <2>3. Staged'
    BY <1>1, <1>3, <1>10, <2>1 DEF Staged
  <2>4. HashInv'
    BY <1>1, <1>3, <1>11, HashGoesOn
  <2>5. WalkInv'
    BY <1>1, <2>1 DEF WalkInv
  <2>6. ChunkInv'
    BY <1>1, <1>8, <1>11, <2>1 DEF ChunkInv
  <2>. QED
    BY <1>6, <1>11, <2>2, <2>3, <2>4, <2>5, <2>6
<1>12. CASE (mode = "off" \/ end <= walk.chunk) /\ walk' = [walk EXCEPT !.at = "write"] /\ UNCHANGED <<cancel, queue, builder>>
  <2>1. walk' = [at |-> "write", first |-> walk.first, last |-> walk.last, chunk |-> walk.chunk, err |-> None]
    BY <1>3, <1>4, <1>12
  <2>2. mode # "off" => walk.chunk = end
    BY <1>3, <1>8, <1>12
  <2>3. walk'.chunk = walk.chunk
    BY <2>1
  <2>4. FedInv'
    BY <1>1, <1>12, <2>3, SameFed
  <2>. QED
    BY <1>3, <1>5, <1>11, <1>12, <2>1, <2>2, <2>4
<1>13. CASE /\ mode = "root" /\ end > walk.chunk
            /\ walk' = [walk EXCEPT !.at = "write", !.chunk = end] /\ UNCHANGED cancel
            /\ builder' = PushChunks(builder, digests) /\ UNCHANGED queue
  <2>1. walk' = [at |-> "write", first |-> walk.first, last |-> walk.last, chunk |-> end, err |-> None]
    BY <1>3, <1>4, <1>13
  <2>2. walk'.chunk = end
    BY <2>1
  <2>3. Fed(PushChunks(builder, digests), job.chunks, end)
    <3>1. Fed(builder, job.chunks, walk.chunk)
      BY <1>9, <1>13
    <3>2. walk.chunk <= end /\ IsSeq(job.chunks) /\ K > 0
      BY <1>3, <1>13, ChunksAre
    <3>. QED
      BY <1>3, <1>8, <3>1, <3>2, PushChunksIs DEF digests
  <2>4. FedInv'
    <3>1. mode' = "root"
      BY <1>1, <1>13
    <3>2. Fed(builder', job'.chunks, walk'.chunk)
      BY <1>1, <1>13, <2>2, <2>3
    <3>. QED
      BY <3>1, <3>2 DEF FedInv
  <2>. QED
    BY <1>5, <1>8, <1>11, <1>13, <2>1, <2>4
<1>14. CASE /\ mode = "car" /\ end > walk.chunk /\ writer.at # "failed"
            /\ walk' = [walk EXCEPT !.at = "write", !.chunk = end] /\ UNCHANGED cancel
            /\ queue' = Append(queue, digests) /\ UNCHANGED builder
  <2>1. walk' = [at |-> "write", first |-> walk.first, last |-> walk.last, chunk |-> end, err |-> None]
    BY <1>3, <1>4, <1>14
  <2>2. walk'.chunk = end
    BY <2>1
  <2>3. OnTheWay(job, builder, writer, Append(queue, digests), end)
    <3>1. OnTheWay(job, builder, writer, queue, walk.chunk)
      BY <1>9, <1>14
    <3>2. walk.chunk <= end
      BY <1>3, <1>14
    <3>. QED
      BY <1>3, <1>5, <1>8, <3>1, <3>2, WaySends DEF digests
  <2>4. FedInv'
    <3>1. OnTheWay(job', builder', writer', queue', walk'.chunk)
      BY <1>1, <1>14, <2>2, <2>3
    <3>2. mode' = "car"
      BY <1>1, <1>14
    <3>. QED
      BY <3>1, <3>2 DEF FedInv
  <2>5. IsSeq(queue')
    <3>1. IsSeq(Append(queue, digests))
      BY <1>5, Appended
    <3>. QED
      BY <1>14, <3>1
  <2>. QED
    BY <1>8, <1>11, <1>14, <2>1, <2>4, <2>5
<1>15. CASE /\ mode = "car" /\ end > walk.chunk /\ writer.at = "failed"
            /\ walk' = [walk EXCEPT !.at = "ended", !.err = "stopped"]
            /\ cancel' = ("stopped" # None) /\ UNCHANGED <<queue, builder>>
  <2>1. walk' = [at |-> "ended", first |-> walk.first, last |-> walk.last, chunk |-> walk.chunk, err |-> "stopped"]
    BY <1>4, <1>15
  <2>2. walk'.at = "ended" /\ walk'.first = walk.first /\ walk'.chunk = walk.chunk /\ walk'.err = "stopped" /\ "stopped" # None
    BY <2>1 DEF None
  <2>3. cancel' = (walk'.err # None) /\ cancel' = TRUE
    BY <1>15, <2>2
  <2>4. Typed'
    BY <1>1, <1>3, <1>5, <1>15, <2>1, <2>3, TypedWalk
  <2>5. Staged'
    BY <1>1, <1>3, <1>10, <1>15, <2>2 DEF Staged
  <2>6. HashInv'
    BY <1>1, <1>3, <2>2, <2>3, HashGoesOn
  <2>7. WalkInv'
    BY <1>1, <2>2 DEF WalkInv
  <2>8. ChunkInv'
    <3>1. walk.chunk <= K
      BY <1>3, <1>8, <1>15
    <3>. QED
      BY <1>1, <2>2, <3>1 DEF ChunkInv
  <2>9. FedInv'
    BY <1>1, <1>15, <2>2, SameFed
  <2>. QED
    BY <1>6, <2>4, <2>5, <2>6, <2>7, <2>8, <2>9
<1>. QED
  BY <1>2, <1>12, <1>13, <1>14, <1>15

\* The shards of d with those of ss written.
WrittenTo(d, ss, digests) == [s \in DOMAIN d |-> IF s \in ss THEN digests[s] ELSE d[s]]

\* The shards written by a step, whichever they are.
LEMMA WrittenIs ==
  ASSUME NEW j \in Jobs, NEW d, ForShards(j, d), NEW ss, NEW digests
  PROVE  /\ ForShards(j, WrittenTo(d, ss, digests))
         /\ \A s \in 1..Len(j.shards) :
               WrittenTo(d, ss, digests)[s] = IF s \in ss THEN digests[s] ELSE d[s]
<1> DEFINE e == WrittenTo(d, ss, digests)
           D == DOMAIN j.shards
<1>1. D = 1..Len(j.shards)
  BY JobIs
<1> HIDE DEF D
<1>2. d = [s \in D |-> d[s]]
  BY DEF ForShards, D
<1>3. e = [s \in D |-> IF s \in ss THEN digests[s] ELSE d[s]]
  BY <1>2 DEF WrittenTo
<1>4. e = [s \in D |-> e[s]] /\ \A s \in D : e[s] = IF s \in ss THEN digests[s] ELSE d[s]
  BY <1>3
<1>. QED
  BY <1>1, <1>4 DEF ForShards, D

\* The completed shards are written whole, or some of them and the walk ends.
LEMMA WriteShardsKeeps == ASSUME PassInv, WriteShards PROVE PassInv'
<1> USE DEF PassInv
<1> DEFINE N == Len(job.leaves)
           S == Len(job.shards)
           b == Added
           done == shards.next..(b.next - 1)
           Wrote(ss) == WrittenTo(disk.shards, ss, b.digests)
<1>1. /\ walk.at = "write"
      /\ UNCHANGED <<job, main, mode, refused, hasher, queue, writer, builder, result>>
  BY DEF WriteShards
<1>2. \/ /\ disk' = [disk EXCEPT !.shards = Wrote(done)] /\ shards' = b
         /\ walk' = [walk EXCEPT !.at = "step", !.first = walk.last]
         /\ UNCHANGED <<cancel, met>>
      \/ \E ss \in SUBSET done \ {done} :
            /\ disk' = [disk EXCEPT !.shards = Wrote(ss)] /\ UNCHANGED shards
            /\ walk' = [walk EXCEPT !.at = "ended", !.err = "shard"] /\ cancel' = ("shard" # None)
  BY Zenon DEF WriteShards, Walked, Cancelled, WrittenTo
<1>3. /\ main = "pass" /\ job \in Jobs /\ walk.first \in Nat /\ walk.last \in Nat /\ walk.chunk \in Nat
      /\ walk.err = None /\ cancel \in BOOLEAN /\ IsSeq(queue) /\ disk.root = <<>>
      /\ disk = [shards |-> disk.shards, metas |-> disk.metas, root |-> disk.root, car |-> disk.car]
      /\ writer.at # "ended" /\ N \in Nat
  <2>1. disk.root = <<>>
    BY <1>1, Walking
  <2>2. job \in Jobs /\ N \in Nat
    BY JobIs DEF Typed
  <2>. QED
    BY <1>1, <2>1, <2>2 DEF Typed, Staged, WalkInv
<1>4. walk = [at |-> walk.at, first |-> walk.first, last |-> walk.last, chunk |-> walk.chunk, err |-> walk.err]
  BY <1>1, WalkParts
<1>5. /\ walk.first < walk.last /\ walk.last <= N
      /\ Assembled(job, shards, walk.first) /\ ForShards(job, disk.shards)
      /\ \A s \in 1..(shards.next - 1) : disk.shards[s] = WholeShard(job, s)
  BY <1>1 DEF WalkInv
<1>6. Assembled(job, b, walk.last) /\ b.next >= shards.next
  <2>1. b = Loop(AddLeaf, shards, [i \in 1..(walk.last - walk.first) |-> walk.first + i - 1])
    BY DEF Added
  <2> HIDE DEF b
  <2>2. walk.first <= walk.last
    BY <1>3, <1>5
  <2>. QED
    BY <1>3, <1>5, <2>1, <2>2, AddedIs
<1>7. S \in Nat /\ shards.next \in 1..(S + 1) /\ b.next \in 1..(S + 1)
  <2>1. S \in Nat
    BY <1>3, JobIs
  <2>. QED
    BY <1>5, <1>6, <2>1 DEF Assembled
<1>8. \A s \in 1..(b.next - 1) : b.digests[s] = WholeShard(job, s)
  BY <1>6 DEF Assembled
<1> HIDE DEF b, Wrote
<1>9. ASSUME NEW ss, disk' = [disk EXCEPT !.shards = Wrote(ss)]
      PROVE  /\ disk' = [shards |-> disk'.shards, metas |-> disk'.metas, root |-> disk'.root, car |-> disk'.car]
             /\ disk'.root = <<>> /\ ForShards(job, disk'.shards)
             /\ \A s \in 1..S : disk'.shards[s] = IF s \in ss THEN b.digests[s] ELSE disk.shards[s]
  <2>1. disk' = [shards |-> Wrote(ss), metas |-> disk.metas, root |-> disk.root, car |-> disk.car]
    BY <1>3, <1>9
  <2>2. disk'.shards = Wrote(ss) /\ disk'.root = <<>> /\ disk'.metas = disk.metas /\ disk'.car = disk.car
    BY <1>3, <2>1
  <2>3. ForShards(job, Wrote(ss))
    BY <1>3, <1>5, WrittenIs DEF Wrote
  <2>4. \A s \in 1..S : Wrote(ss)[s] = IF s \in ss THEN b.digests[s] ELSE disk.shards[s]
    BY <1>3, <1>5, WrittenIs DEF Wrote
  <2>. QED
    BY <1>3, <2>1, <2>2, <2>3, <2>4
<1>10. CASE /\ disk' = [disk EXCEPT !.shards = Wrote(done)] /\ shards' = b
            /\ walk' = [walk EXCEPT !.at = "step", !.first = walk.last]
            /\ UNCHANGED <<cancel, met>>
  <2>1. walk' = [at |-> "step", first |-> walk.last, last |-> walk.last, chunk |-> walk.chunk, err |-> None]
    BY <1>3, <1>4, <1>10
  <2>2. walk'.at = "step" /\ walk'.first = walk.last /\ walk'.last = walk.last /\ walk'.chunk = walk.chunk /\ walk'.err = None
    BY <2>1
  <2>3. /\ disk' = [shards |-> disk'.shards, metas |-> disk'.metas, root |-> disk'.root, car |-> disk'.car]
        /\ disk'.root = <<>> /\ ForShards(job, disk'.shards)
        /\ \A s \in 1..S : disk'.shards[s] = IF s \in done THEN b.digests[s] ELSE disk.shards[s]
    BY <1>9, <1>10
  <2>4. Typed'
    BY <1>1, <1>3, <1>10, <2>1, <2>3, TypedWalk
  <2>5. Staged'
    BY <1>1, <1>3, <2>2 DEF Staged
  <2>6. HashInv'
    BY <1>1, <1>3, <1>10, HashGoesOn
  <2>7. WalkInv'
    <3>1. ASSUME NEW s \in 1..(shards'.next - 1) PROVE disk'.shards[s] = WholeShard(job, s)
      <4>1. s \in 1..(b.next - 1) /\ s \in 1..S /\ (s \notin done => s \in 1..(shards.next - 1))
        BY <1>6, <1>7, <1>10
      <4>2. disk'.shards[s] = IF s \in done THEN b.digests[s] ELSE disk.shards[s]
        BY <2>3, <4>1
      <4>. QED
        BY <1>5, <1>8, <4>1, <4>2
    <3>2. Assembled(job', shards', walk'.first)
      BY <1>1, <1>6, <1>10, <2>2
    <3>. QED
      BY <1>1, <1>5, <2>2, <2>3, <3>1, <3>2 DEF WalkInv
  <2>8. ChunkInv'
    <3>1. mode # "off" => walk.chunk <= Len(job.chunks) /\ walk.chunk = ChunksTo(job, StartOf(job, walk.last))
      BY <1>1 DEF ChunkInv
    <3>. QED
      BY <1>1, <2>2, <3>1 DEF ChunkInv
  <2>9. FedInv'
    BY <1>1, <2>2, SameFed
  <2>10. DoneInv'
    BY <1>1, <1>3, <2>3, NotDone
  <2>. QED
    BY <2>4, <2>5, <2>6, <2>7, <2>8, <2>9, <2>10
<1>11. ASSUME NEW ss \in SUBSET done \ {done},
              disk' = [disk EXCEPT !.shards = Wrote(ss)], shards' = shards,
              walk' = [walk EXCEPT !.at = "ended", !.err = "shard"], cancel' = ("shard" # None)
       PROVE  PassInv'
  <2>1. walk' = [at |-> "ended", first |-> walk.first, last |-> walk.last, chunk |-> walk.chunk, err |-> "shard"]
    BY <1>4, <1>11
  <2>2. walk'.at = "ended" /\ walk'.first = walk.first /\ walk'.chunk = walk.chunk /\ walk'.err = "shard" /\ "shard" # None
    BY <2>1 DEF None
  <2>3. cancel' = (walk'.err # None) /\ cancel' = TRUE
    BY <1>11, <2>2
  <2>4. /\ disk' = [shards |-> disk'.shards, metas |-> disk'.metas, root |-> disk'.root, car |-> disk'.car]
        /\ disk'.root = <<>> /\ ForShards(job, disk'.shards)
        /\ \A s \in 1..S : disk'.shards[s] = IF s \in ss THEN b.digests[s] ELSE disk.shards[s]
    BY <1>9, <1>11
  <2>5. Typed'
    BY <1>1, <1>3, <2>1, <2>3, <2>4, TypedWalk
  <2>6. Staged'
    BY <1>1, <1>3, <2>2 DEF Staged
  <2>7. HashInv'
    BY <1>1, <1>3, <2>2, <2>3, HashGoesOn
  <2>8. WalkInv'
    <3>1. ASSUME NEW s \in 1..(shards'.next - 1) PROVE disk'.shards[s] = WholeShard(job, s)
      <4>1. s \in 1..S /\ s \notin done /\ s \in 1..(shards.next - 1)
        BY <1>7, <1>11
      <4>2. s \notin ss
        BY <1>11, <4>1
      <4>3. disk'.shards[s] = disk.shards[s]
        BY <2>4, <4>1, <4>2
      <4>. QED
        BY <1>5, <4>1, <4>3
    <3>2. walk.first <= Len(job.leaves)
      BY DEF WalkInv
    <3>. QED
      BY <1>1, <1>5, <1>11, <2>2, <2>4, <3>1, <3>2 DEF WalkInv
  <2>9. ChunkInv'
    <3>1. mode # "off" => walk.chunk <= Len(job.chunks)
      BY DEF ChunkInv
    <3>. QED
      BY <1>1, <2>2, <3>1 DEF ChunkInv
  <2>10. FedInv'
    BY <1>1, <2>2, SameFed
  <2>11. DoneInv'
    BY <1>1, <1>3, <2>4, NotDone
  <2>. QED
    BY <2>5, <2>6, <2>7, <2>8, <2>9, <2>10, <2>11
<1>. QED
  BY <1>2, <1>10, <1>11

(***************************************************************************)
(* The writer of the CAR.                                                  *)
(***************************************************************************)
\* The CAR writer takes the batch at the head of the queue.
LEMMA ReceiveKeeps == ASSUME PassInv, Receive PROVE PassInv'
<1> USE DEF PassInv
<1>1. /\ mode = "car" /\ writer.at = "receive" /\ queue # <<>>
      /\ writer' = [at |-> "push", batch |-> Head(queue)] /\ queue' = Tail(queue)
      /\ UNCHANGED <<job, main, mode, refused, hasher, cancel, walk, shards, builder, disk, met, result>>
  BY DEF Receive
<1>2. job \in Jobs /\ IsSeq(queue)
  BY DEF Typed
<1>3. IsSeq(queue')
  BY <1>1, <1>2, Shifted
<1>4. writer'.at = "push" /\ writer'.batch = Head(queue) /\ writer' = [at |-> writer'.at, batch |-> writer'.batch]
  BY <1>1
<1>5. main \in {"pass", "join", "ended"}
  <2>1. main # "dirs"
    BY <1>1 DEF Staged
  <2>2. main \notin {"metas", "root", "commit"}
    BY <1>1 DEF DoneInv
  <2>. QED
    BY <2>1, <2>2 DEF Typed
<1>6. Typed'
  BY <1>1, <1>3, <1>4 DEF Typed
<1>7. Staged'
  BY <1>1, <1>4, <1>5 DEF Staged
<1>8. HashInv'
  BY <1>1, SameHash
<1>9. WalkInv'
  BY <1>1, SameWalk
<1>10. ChunkInv'
  BY <1>1, SameChunk
<1>11. FedInv'
  <2> SUFFICES ASSUME main' \in {"pass", "join"}, writer'.at # "failed" PROVE FedInv'
    BY <1>1, <1>4 DEF FedInv
  <2>1. OnTheWay(job, builder, writer, queue, walk.chunk)
    BY <1>1 DEF FedInv
  <2>2. OnTheWay(job, builder, writer', Tail(queue), walk.chunk)
    BY <1>1, <1>2, <1>4, <2>1, WayReceives
  <2>3. OnTheWay(job', builder', writer', queue', walk'.chunk)
    BY <1>1, <2>2
  <2>4. mode' = "car"
    BY <1>1
  <2>. QED
    BY <2>3, <2>4 DEF FedInv
<1>12. DoneInv'
  BY <1>1, <1>5 DEF DoneInv
<1>. QED
  BY <1>6, <1>7, <1>8, <1>9, <1>10, <1>11, <1>12

\* The CAR writer feeds its batch to the builder, or fails and drops the queue.
LEMMA PushBatchKeeps == ASSUME PassInv, PushBatch PROVE PassInv'
<1> USE DEF PassInv
<1>1. /\ writer.at = "push"
      /\ UNCHANGED <<job, main, mode, refused, hasher, cancel, walk, shards, disk, result>>
  BY DEF PushBatch
<1>2. \/ /\ writer' = [at |-> "receive", batch |-> <<>>] /\ builder' = PushChunks(builder, writer.batch)
         /\ queue' = queue
      \/ writer' = [at |-> "failed", batch |-> <<>>] /\ queue' = <<>> /\ builder' = builder
  BY DEF PushBatch
<1>3. job \in Jobs /\ IsSeq(queue) /\ mode = "car"
  BY <1>1 DEF Typed, Staged
<1>4. main \in {"pass", "join", "ended"}
  <2>1. main # "dirs"
    BY <1>1 DEF Staged
  <2>2. main \notin {"metas", "root", "commit"}
    BY <1>1, <1>3 DEF DoneInv
  <2>. QED
    BY <2>1, <2>2 DEF Typed
<1>5. /\ IsSeq(queue') /\ writer'.at \in {"receive", "failed"}
      /\ writer' = [at |-> writer'.at, batch |-> writer'.batch]
  BY <1>2, <1>3, NoneSeq
<1>6. Typed'
  BY <1>1, <1>5 DEF Typed
<1>7. Staged'
  BY <1>1, <1>3, <1>4, <1>5 DEF Staged
<1>8. HashInv'
  BY <1>1, SameHash
<1>9. WalkInv'
  BY <1>1, SameWalk
<1>10. ChunkInv'
  BY <1>1, SameChunk
<1>11. FedInv'
  <2> SUFFICES ASSUME main' \in {"pass", "join"}, writer'.at # "failed" PROVE FedInv'
    BY <1>1, <1>3 DEF FedInv
  <2>1. OnTheWay(job, builder, writer, queue, walk.chunk)
    BY <1>1, <1>3 DEF FedInv
  <2>2. writer'.at = "receive" /\ builder' = PushChunks(builder, writer.batch) /\ queue' = queue
    BY <1>2
  <2>3. OnTheWay(job, PushChunks(builder, writer.batch), writer', queue, walk.chunk)
    BY <1>1, <1>3, <2>1, <2>2, WayPushes
  <2>4. OnTheWay(job', builder', writer', queue', walk'.chunk)
    BY <1>1, <2>2, <2>3
  <2>5. mode' = "car"
    BY <1>1, <1>3
  <2>. QED
    BY <2>4, <2>5 DEF FedInv
<1>12. DoneInv'
  BY <1>1, <1>4 DEF DoneInv
<1>. QED
  BY <1>6, <1>7, <1>8, <1>9, <1>10, <1>11, <1>12

\* The CAR writer ends with the queue: the builder took every chunk.
LEMMA EndOfQueueKeeps == ASSUME PassInv, EndOfQueue PROVE PassInv'
<1> USE DEF PassInv
<1>1. /\ main = "join" /\ mode = "car" /\ writer.at = "receive" /\ queue = <<>>
      /\ writer' = [writer EXCEPT !.at = "ended"]
      /\ UNCHANGED <<job, main, mode, refused, hasher, cancel, walk, shards, queue, builder, disk, met, result>>
  BY DEF EndOfQueue
<1>2. writer' = [at |-> "ended", batch |-> writer.batch]
  BY <1>1 DEF Typed
<1>3. writer'.at = "ended" /\ writer' = [at |-> writer'.at, batch |-> writer'.batch]
  BY <1>2
<1>4. Typed'
  BY <1>1, <1>3 DEF Typed
<1>5. Staged'
  BY <1>1, <1>3 DEF Staged
<1>6. HashInv'
  BY <1>1, SameHash
<1>7. WalkInv'
  BY <1>1, SameWalk
<1>8. ChunkInv'
  BY <1>1, SameChunk
<1>9. FedInv'
  <2>1. OnTheWay(job, builder, writer, queue, walk.chunk)
    BY <1>1 DEF FedInv
  <2>2. OnTheWay(job, builder, writer', queue, walk.chunk)
    BY <1>1, <1>3, <2>1 DEF OnTheWay
  <2>3. OnTheWay(job', builder', writer', queue', walk'.chunk) /\ mode' = "car"
    BY <1>1, <2>2
  <2>. QED
    BY <2>3 DEF FedInv
<1>10. DoneInv'
  BY <1>1 DEF DoneInv
<1>. QED
  BY <1>4, <1>5, <1>6, <1>7, <1>8, <1>9, <1>10

(***************************************************************************)
(* write_outputs.                                                          *)
(***************************************************************************)
\* It goes on, or returns, and leaves the threads alone.
LEMMA TypedMain ==
  ASSUME Typed, UNCHANGED <<job, hasher, cancel, walk, queue, writer>>,
         main' \in {"pass", "join", "metas", "root", "commit", "ended"}, mode' \in {"off", "root", "car"},
         disk' = [shards |-> disk'.shards, metas |-> disk'.metas, root |-> disk'.root, car |-> disk'.car]
  PROVE  Typed'
BY DEF Typed

\* create_dirs and the CAR's mode.
LEMMA PrepareKeeps == ASSUME PassInv, Prepare PROVE PassInv'
<1> USE DEF PassInv
<1>1. main = "dirs" /\ UNCHANGED <<job, threads, disk>>
  BY DEF Prepare
<1>2. UNCHANGED <<job, hasher, cancel, walk, shards, queue, writer, builder, disk>>
  BY <1>1 DEF threads
<1>3. \/ main' = "ended" /\ mode' = mode
      \/ main' = "pass" /\ mode' = job.unixfs
      \/ main' = "pass" /\ mode' = "root" /\ job.unixfs = "car"
  BY DEF Prepare, Return
<1>4. /\ job \in Jobs /\ job.unixfs \in {"off", "root", "car"}
      /\ walk.at = "step" /\ walk.first = 0 /\ walk.chunk = 0 /\ builder = NewBuilder /\ queue = <<>>
      /\ writer.at = "receive" /\ disk.root = <<>>
  <2>1. job \in Jobs
    BY DEF Typed
  <2>. QED
    BY <1>1, <2>1, JobIs DEF Staged
<1>5. Typed'
  <2>1. mode' \in {"off", "root", "car"} /\ main' \in {"pass", "ended"}
    BY <1>3, <1>4 DEF Typed
  <2>2. disk' = [shards |-> disk'.shards, metas |-> disk'.metas, root |-> disk'.root, car |-> disk'.car]
    BY <1>2 DEF Typed
  <2>. QED
    BY <1>2, <2>1, <2>2, TypedMain
<1>6. Staged'
  BY <1>1, <1>2, <1>3, <1>4 DEF Staged
<1>7. HashInv'
  BY <1>2, SameHash
<1>8. WalkInv'
  BY <1>2, SameWalk
<1>9. ChunkInv'
  <2>1. ChunksTo(job, StartOf(job, 0)) = 0 /\ Len(job.chunks) \in Nat
    BY <1>4, Starts, ChunksAre
  <2>. QED
    BY <1>2, <1>4, <2>1 DEF ChunkInv
<1>10. FedInv'
  <2>1. Fed(builder, job.chunks, 0)
    BY <1>4, NewIsFed
  <2>2. OnTheWay(job, builder, writer, queue, 0)
    BY <1>4, WayStarts
  <2>. QED
    BY <1>2, <1>4, <2>1, <2>2 DEF FedInv
<1>11. DoneInv'
  <2>1. main' \notin {"metas", "root", "commit"} /\ disk'.root = <<>>
    BY <1>2, <1>3, <1>4
  <2>. QED
    BY <2>1, NotDone
<1>. QED
  BY <1>5, <1>6, <1>7, <1>8, <1>9, <1>10, <1>11

\* The walk and the hasher ended; a walk that ended well wrote every shard and sent
\* every chunk, and then the hasher had the whole file.
LEMMA JoinHasherKeeps == ASSUME PassInv, JoinHasher PROVE PassInv'
<1> USE DEF PassInv
<1>1. main = "pass" /\ walk.at = "ended" /\ hasher.at = "ended" /\ main' = "join"
      /\ UNCHANGED <<job, mode, hasher, cancel, walk, shards, queue, writer, builder, disk>>
  BY DEF JoinHasher, threads
<1>2. Typed'
  <2>1. mode' \in {"off", "root", "car"}
        /\ disk' = [shards |-> disk'.shards, metas |-> disk'.metas, root |-> disk'.root, car |-> disk'.car]
    BY <1>1 DEF Typed
  <2>. QED
    BY <1>1, <2>1, TypedMain
<1>3. Staged'
  BY <1>1 DEF Staged
<1>4. HashInv'
  BY <1>1, SameHash
<1>5. WalkInv'
  BY <1>1, SameWalk
<1>6. ChunkInv'
  BY <1>1, SameChunk
<1>7. FedInv'
  BY <1>1, SameFed
<1>8. DoneInv'
  BY <1>1 DEF DoneInv
<1>. QED
  BY <1>2, <1>3, <1>4, <1>5, <1>6, <1>7, <1>8

\* A disk is a record.
IsDisk(disks) == disks = [shards |-> disks.shards, metas |-> disks.metas, root |-> disks.root, car |-> disks.car]

\* Nothing of the threads or the disk changes, but perhaps the builder.
LEMMA MainKeeps ==
  ASSUME PassInv, UNCHANGED <<job, mode, hasher, cancel, walk, shards, queue, writer>>, disk'.shards = disk.shards, IsDisk(disk'),
         main \in {"join", "metas", "root", "commit"}, main' \in {"metas", "root", "commit", "ended"}, DoneInv'
  PROVE  PassInv'
<1> USE DEF PassInv
<1>1. Typed'
  <2>1. mode' \in {"off", "root", "car"}
    BY DEF Typed
  <2>. QED
    BY <2>1, TypedMain DEF IsDisk
<1>2. Staged'
  BY DEF Staged
<1>3. HashInv'
  BY SameHash
<1>4. WalkInv'
  BY SameWalk
<1>5. ChunkInv'
  BY SameChunk
<1>6. FedInv'
  BY DEF FedInv
<1>. QED
  BY <1>1, <1>2, <1>3, <1>4, <1>5, <1>6

\* Without an error the builder is finished, over all of the file's chunks.
LEMMA EndPassKeeps == ASSUME PassInv, EndPass PROVE PassInv'
<1> USE DEF PassInv
<1>1. /\ main = "join" /\ (mode = "car" => writer.at \in {"ended", "failed"})
      /\ UNCHANGED <<job, mode, hasher, cancel, walk, shards, queue, writer, disk>>
  BY DEF EndPass
<1>2. \/ main' = "ended"
      \/ main' = "metas" /\ PassError = None /\ builder' = (IF mode = "off" THEN builder ELSE Finish(builder))
  BY DEF EndPass, Return
<1>3. job \in Jobs /\ walk.at = "ended" /\ main # "dirs"
      /\ disk' = [shards |-> disk'.shards, metas |-> disk'.metas, root |-> disk'.root, car |-> disk'.car]
  BY <1>1 DEF Typed, Staged
<1>4. DoneInv'
  <2>1. TrueRoot(job', disk') /\ (disk'.root # <<>> => walk'.at = "ended")
    BY <1>1 DEF DoneInv
  <2>2. CASE main' = "ended"
    BY <2>1, <2>2 DEF DoneInv
  <2>3. CASE main' = "metas" /\ PassError = None /\ builder' = (IF mode = "off" THEN builder ELSE Finish(builder))
    <3>1. writer.at # "failed" /\ walk.err = None
      BY <2>3 DEF PassError, None
    <3>2. mode = "car" => writer.at = "ended" /\ queue = <<>>
      BY <1>1, <3>1 DEF Staged
    <3>3. mode # "off" => Closed(builder', job.chunks, Height(job.chunks))
      <4> SUFFICES ASSUME mode # "off" PROVE Closed(builder', job.chunks, Height(job.chunks))
        OBVIOUS
      <4>1. walk.chunk = Len(job.chunks)
        BY <1>3, <3>1 DEF ChunkInv
      <4>2. Fed(builder, job.chunks, walk.chunk)
        <5>1. CASE mode = "root"
          BY <1>1, <5>1 DEF FedInv
        <5>2. CASE mode = "car"
          <6>1. OnTheWay(job, builder, writer, <<>>, walk.chunk) /\ writer.at # "push"
            BY <1>1, <3>1, <3>2, <5>2 DEF FedInv
          <6>. QED
            BY <6>1, WayEnds
        <5>. QED
          BY <5>1, <5>2 DEF Typed
      <4>3. IsSeq(job.chunks) /\ Len(job.chunks) > 0
        BY <1>3, ChunksAre
      <4>4. builder' = Finish(builder)
        BY <2>3
      <4>. QED
        BY <4>1, <4>2, <4>3, <4>4, FinishIs
    <3>4. mode' # "off" => Closed(builder', job'.chunks, Height(job'.chunks))
      BY <1>1, <3>3
    <3>. QED
      BY <1>1, <2>1, <2>3, <3>1, <3>2, <3>4 DEF DoneInv
  <2>. QED
    BY <1>2, <2>2, <2>3
<1>5. IsDisk(disk') /\ disk'.shards = disk.shards
  BY <1>1, <1>3 DEF IsDisk
<1>. QED
  BY <1>1, <1>2, <1>3, <1>4, <1>5, MainKeeps

\* The metas are written.
LEMMA WriteMetasKeeps == ASSUME PassInv, WriteMetas PROVE PassInv'
<1> USE DEF PassInv
<1>1. main = "metas" /\ UNCHANGED <<job, mode, hasher, cancel, walk, shards, queue, writer, builder>>
  BY DEF WriteMetas, threads
<1>2. \/ main' = "root" /\ disk' = [disk EXCEPT !.metas = TRUE]
      \/ main' = "ended" /\ disk' = disk
  BY DEF WriteMetas, Return
<1>3. disk = [shards |-> disk.shards, metas |-> disk.metas, root |-> disk.root, car |-> disk.car]
  BY DEF Typed
<1>4. /\ disk' = [shards |-> disk.shards, metas |-> disk'.metas, root |-> disk.root, car |-> disk.car]
      /\ main' = "root" => disk'.metas = TRUE
  BY <1>2, <1>3
<1>5. /\ disk' = [shards |-> disk'.shards, metas |-> disk'.metas, root |-> disk'.root, car |-> disk'.car]
      /\ disk'.shards = disk.shards /\ disk'.root = disk.root
  BY <1>4
<1>6. DoneInv'
  <2>1. disk.metas => disk'.metas
    BY <1>2, <1>4
  <2>2. TrueRoot(job, disk)
    BY DEF DoneInv
  <2>3. TrueRoot(job', disk')
    BY <1>1, <1>5, <2>1, <2>2 DEF TrueRoot
  <2>. QED
    BY <1>1, <1>2, <1>4, <1>5, <2>3 DEF DoneInv
<1>7. IsDisk(disk')
  BY <1>5 DEF IsDisk
<1>. QED
  BY <1>1, <1>2, <1>5, <1>6, <1>7, MainKeeps

\* The root is written from the hasher, the assembler and the builder.
LEMMA WriteRootKeeps == ASSUME PassInv, WriteRoot PROVE PassInv'
<1> USE DEF PassInv
<1>1. main = "root" /\ UNCHANGED <<job, mode, hasher, cancel, walk, shards, queue, writer, builder>>
  BY DEF WriteRoot, threads
<1>2. \/ main' = "commit" /\ disk' = [disk EXCEPT !.root = <<Descriptor>>]
      \/ main' = "ended" /\ disk' = disk
  BY DEF WriteRoot, Return
<1>3. disk = [shards |-> disk.shards, metas |-> disk.metas, root |-> disk.root, car |-> disk.car]
  BY DEF Typed
<1>4. job \in Jobs /\ walk.at = "ended" /\ hasher.at = "ended" /\ walk.err = None /\ disk.metas
  BY <1>1 DEF Typed, Staged, DoneInv
<1>5. CASE main' = "ended" /\ disk' = disk
  <2>1. DoneInv'
    BY <1>1, <1>5 DEF DoneInv
  <2>2. IsDisk(disk')
    BY <1>3, <1>5 DEF IsDisk
  <2>. QED
    BY <1>1, <1>5, <2>1, <2>2, MainKeeps
<1>6. CASE main' = "commit" /\ disk' = [disk EXCEPT !.root = <<Descriptor>>]
  <2> DEFINE root == Descriptor
             S == Len(job.shards)
  <2>1. root.map = hasher.fed /\ root.shards = shards.digests
        /\ root.unixfs = IF mode = "off" THEN <<>> ELSE <<Root(builder)>>
    BY DEF Descriptor
  <2> HIDE DEF root
  <2>2. disk' = [shards |-> disk.shards, metas |-> disk.metas, root |-> <<root>>, car |-> disk.car]
    BY <1>3, <1>6 DEF root
  <2>3. /\ disk' = [shards |-> disk'.shards, metas |-> disk'.metas, root |-> disk'.root, car |-> disk'.car]
        /\ disk'.shards = disk.shards /\ disk'.metas = disk.metas /\ disk'.root = <<root>>
    BY <2>2
  <2>4. ToSet(<<root>>) = {root}
    BY DEF ToSet
  <2>5. hasher.fed = SizeOf(job)
    BY <1>4 DEF HashInv
  <2>6. ASSUME NEW s \in DOMAIN job.shards
        PROVE  disk.shards[s] = WholeShard(job, s) /\ shards.digests[s] = WholeShard(job, s)
    <3>1. walk.first = Len(job.leaves) /\ Assembled(job, shards, walk.first)
      BY <1>4 DEF WalkInv
    <3>2. shards.next = S + 1
      BY <1>4, <3>1, AllAssembled
    <3>3. S \in Nat /\ DOMAIN job.shards = 1..S
      BY <1>4, JobIs
    <3>4. s \in 1..(shards.next - 1)
      BY <3>2, <3>3
    <3>. QED
      BY <3>1, <3>4 DEF WalkInv, Assembled
  <2>7. root.unixfs = IF job.unixfs = "off" THEN <<>> ELSE <<BalancedRoot(job.chunks)>>
    <3>1. mode = "off" <=> job.unixfs = "off"
      BY <1>1 DEF Staged
    <3>2. mode # "off" => Root(builder) = BalancedRoot(job.chunks)
      <4> SUFFICES ASSUME mode # "off" PROVE Root(builder) = BalancedRoot(job.chunks)
        OBVIOUS
      <4>1. IsSeq(job.chunks) /\ Len(job.chunks) > 0
        BY <1>4, ChunksAre
      <4>2. Closed(builder, job.chunks, Height(job.chunks))
        BY <1>1 DEF DoneInv
      <4>. QED
        BY <4>1, <4>2, CloseRoot
    <3>. QED
      BY <2>1, <3>1, <3>2
  <2>8. TrueRoot(job, disk')
    BY <1>4, <2>1, <2>3, <2>4, <2>5, <2>6, <2>7 DEF TrueRoot
  <2>9. TrueRoot(job', disk')
    BY <1>1, <2>8
  <2>10. DoneInv'
    BY <1>1, <1>4, <1>6, <2>3, <2>9 DEF DoneInv
  <2>11. IsDisk(disk')
    BY <2>3 DEF IsDisk
  <2>. QED
    BY <1>1, <1>6, <2>3, <2>10, <2>11, MainKeeps
<1>. QED
  BY <1>2, <1>5, <1>6

\* The CAR is committed, or not; the root stays.
LEMMA CommitKeeps == ASSUME PassInv, Commit PROVE PassInv'
<1> USE DEF PassInv
<1>1. main = "commit" /\ main' = "ended" /\ UNCHANGED <<job, mode, hasher, cancel, walk, shards, queue, writer, builder>>
  BY DEF Commit, threads, Return
<1>2. disk' = disk \/ \E car : disk' = [disk EXCEPT !.car = car]
  BY DEF Commit
<1>3. disk = [shards |-> disk.shards, metas |-> disk.metas, root |-> disk.root, car |-> disk.car]
  BY DEF Typed
<1>4. disk' = [shards |-> disk.shards, metas |-> disk.metas, root |-> disk.root, car |-> disk'.car]
  BY <1>2, <1>3
<1>5. /\ disk' = [shards |-> disk'.shards, metas |-> disk'.metas, root |-> disk'.root, car |-> disk'.car]
      /\ disk'.shards = disk.shards /\ disk'.metas = disk.metas /\ disk'.root = disk.root
  BY <1>4
<1>6. DoneInv'
  <2>1. TrueRoot(job, disk)
    BY DEF DoneInv
  <2>2. TrueRoot(job', disk')
    BY <1>1, <1>5, <2>1 DEF TrueRoot
  <2>. QED
    BY <1>1, <1>5, <2>2 DEF DoneInv
<1>7. IsDisk(disk')
  BY <1>5 DEF IsDisk
<1>. QED
  BY <1>1, <1>5, <1>6, <1>7, MainKeeps

\* A step that changes nothing.
LEMMA Still == ASSUME PassInv, UNCHANGED vars PROVE PassInv'
<1> USE DEF PassInv
<1>1. UNCHANGED <<job, main, mode, hasher, cancel, walk, shards, queue, writer, builder, disk>>
  BY DEF vars, threads
<1>2. Typed' /\ Staged'
  BY <1>1 DEF Typed, Staged
<1>3. HashInv' /\ WalkInv' /\ ChunkInv'
  BY <1>1, SameHash, SameWalk, SameChunk
<1>4. FedInv'
  BY <1>1, SameFed
<1>5. DoneInv'
  BY <1>1 DEF DoneInv
<1>. QED
  BY <1>2, <1>3, <1>4, <1>5

\* In every state of a pack, for every job and every size of the steps, slices and
\* queue: what the walk, the assembler, the queue and the builder hold is what the
\* part of the file before them comes to (pass.rs, pipeline.rs), a cancelled hasher
\* is that of a failed walk, and a root is one that is true.
THEOREM PassIsSound == Spec => []PassInv
<1>1. Init => PassInv
  BY InitIs
<1>2. PassInv /\ [Next]_vars => PassInv'
  <2> SUFFICES ASSUME PassInv, [Next]_vars PROVE PassInv'
    OBVIOUS
  <2>1. CASE Hasher
    BY <2>1, HasherKeeps
  <2>2. CASE Walker
    BY <2>2, BeginStepKeeps, HashStepKeeps, SendChunksKeeps, WriteShardsKeeps DEF Walker
  <2>3. CASE Writer
    BY <2>3, ReceiveKeeps, PushBatchKeeps, EndOfQueueKeeps DEF Writer
  <2>4. CASE Main
    BY <2>4, PrepareKeeps, JoinHasherKeeps, EndPassKeeps, WriteMetasKeeps, WriteRootKeeps, CommitKeeps DEF Main
  <2>5. CASE UNCHANGED vars
    BY <2>5, Still
  <2>. QED
    BY <2>1, <2>2, <2>3, <2>4, <2>5 DEF Next
<1>. QED
  BY <1>1, <1>2, PTL DEF Spec

\* RootIsTrue holds in every state: a root file (pack.rs, write_outputs) names shards
\* and metas that are whole and in leaf order, the digest of the whole file and the
\* root of the file's balanced DAG, however the threads interleave, wherever an
\* operation failed and wherever a crash comes.
THEOREM RootsAreTrue == Spec => []RootIsTrue
<1>1. PassInv => RootIsTrue
  BY TrueRootIs DEF PassInv, DoneInv
<1>. QED
  BY <1>1, PassIsSound, PTL

(***************************************************************************)
(* The sections of the CAR.                                                *)
(***************************************************************************)
\* Where a node first occurs.
FirstAt(order, node) == Min({i \in DOMAIN order : order[i] = node})

\* It is the least of its places.
LEMMA FirstAtIs ==
  ASSUME NEW order, IsSeq(order), NEW i \in 1..Len(order)
  PROVE  /\ FirstAt(order, order[i]) \in 1..Len(order)
         /\ order[FirstAt(order, order[i])] = order[i]
         /\ FirstAt(order, order[i]) <= i
<1> DEFINE T == {k \in DOMAIN order : order[k] = order[i]}
<1>1. Len(order) \in Nat /\ DOMAIN order = 1..Len(order)
  BY SeqParts
<1>2. i \in T /\ T \in SUBSET Nat
  BY <1>1
<1>3. PICK m \in T : \A k \in T : m <= k
  <2> HIDE DEF T
  <2>. QED
    BY <1>2, LeastNat
<1>4. Min(T) \in T /\ \A k \in T : Min(T) <= k
  <2> HIDE DEF T
  <2>. QED
    BY <1>3 DEF Min
<1>5. FirstAt(order, order[i]) = Min(T)
  BY DEF FirstAt
<1>. QED
  BY <1>1, <1>2, <1>4, <1>5

\* The sections after the first n nodes of an order.
Sectioned(car, order, n) ==
  /\ IsSeq(car)
  /\ \A i \in 1..n : order[i] \in ToSet(car)
  /\ \A k \in 1..Len(car) : car[k] \in ToSet(order) /\ FirstAt(order, car[k]) <= n
  /\ \A i, k \in 1..Len(car) : i < k => FirstAt(order, car[i]) < FirstAt(order, car[k])

\* block: a node is added where it first occurs.
LEMMA SectionAdded ==
  ASSUME NEW order, IsSeq(order), NEW car, NEW n \in Nat, n < Len(order), Sectioned(car, order, n)
  PROVE  Sectioned(AddSection(car, order[n + 1]), order, n + 1)
<1> DEFINE node == order[n + 1]
           N == Len(car)
           F(x) == FirstAt(order, x)
<1>1. /\ Len(order) \in Nat /\ DOMAIN order = 1..Len(order) /\ n + 1 \in 1..Len(order)
      /\ IsSeq(car) /\ N \in Nat /\ DOMAIN car = 1..N
  BY SeqParts DEF Sectioned
<1>2. /\ F(node) \in 1..Len(order) /\ order[F(node)] = node /\ F(node) <= n + 1
  BY <1>1, FirstAtIs
<1>3. \A k \in 1..N : F(car[k]) \in Nat
  <2> SUFFICES ASSUME NEW k \in 1..N PROVE F(car[k]) \in Nat
    OBVIOUS
  <2>1. car[k] \in ToSet(order)
    BY DEF Sectioned
  <2>2. PICK i \in 1..Len(order) : car[k] = order[i]
    BY <1>1, <2>1 DEF ToSet
  <2>3. F(order[i]) \in 1..Len(order)
    BY FirstAtIs
  <2>. QED
    BY <2>2, <2>3
<1>4. node \in ToSet(order)
  BY <1>1 DEF ToSet
<1> HIDE DEF F, node
<1>5. /\ \A i \in 1..n : order[i] \in ToSet(car)
      /\ \A k \in 1..N : car[k] \in ToSet(order) /\ F(car[k]) <= n
      /\ \A i, k \in 1..N : i < k => F(car[i]) < F(car[k])
  BY DEF Sectioned, F
<1>6. \A i \in 1..(n + 1) : i \in 1..n \/ i = n + 1
  OBVIOUS
<1>7. CASE node \in ToSet(car)
  <2>1. AddSection(car, node) = car
    BY <1>7 DEF AddSection
  <2>2. \A i \in 1..(n + 1) : order[i] \in ToSet(car)
    BY <1>5, <1>6, <1>7 DEF node
  <2>3. \A k \in 1..N : F(car[k]) <= n + 1
    BY <1>3, <1>5
  <2>4. Sectioned(car, order, n + 1)
    BY <1>1, <1>5, <2>2, <2>3 DEF Sectioned, F
  <2>. QED
    BY <2>1, <2>4 DEF node
<1>8. CASE node \notin ToSet(car)
  <2> DEFINE q == Append(car, node)
  <2>1. AddSection(car, node) = q
    BY <1>8 DEF AddSection
  <2>2. /\ IsSeq(q) /\ Len(q) = N + 1 /\ DOMAIN q = 1..(N + 1)
        /\ \A k \in 1..N : q[k] = car[k]
        /\ q[N + 1] = node
    <3>1. IsSeq(car)
      BY <1>1
    <3>2. IsSeq(q)
      BY ONLY <3>1, Appended
    <3>3. Len(q) = N + 1
      BY ONLY <3>1, Appended
    <3>4. DOMAIN q = 1..(N + 1)
      BY ONLY <3>1, Appended
    <3>5. \A k \in 1..N : q[k] = car[k]
      BY ONLY <3>1, Appended
    <3>6. q[N + 1] = node
      BY ONLY <3>1, Appended
    <3>. QED
      BY <3>2, <3>3, <3>4, <3>5, <3>6
  <2> HIDE DEF q
  <2>3. F(node) = n + 1
    <3>1. F(node) \notin 1..n
      BY <1>2, <1>5, <1>8
    <3>. QED
      BY <1>2, <3>1
  <2>4. \A k \in 1..(N + 1) : k \in 1..N \/ k = N + 1
    BY <1>1
  <2>5. \A k \in 1..(N + 1) : q[k] \in ToSet(order) /\ F(q[k]) <= n + 1
    <3> SUFFICES ASSUME NEW k \in 1..(N + 1) PROVE q[k] \in ToSet(order) /\ F(q[k]) <= n + 1
      OBVIOUS
    <3>1. CASE k \in 1..N
      BY <1>3, <1>5, <2>2, <3>1
    <3>2. CASE k = N + 1
      BY <1>4, <2>2, <2>3, <3>2
    <3>. QED
      BY <2>4, <3>1, <3>2
  <2>6. \A i, k \in 1..(N + 1) : i < k => F(q[i]) < F(q[k])
    <3> SUFFICES ASSUME NEW i \in 1..(N + 1), NEW k \in 1..(N + 1), i < k PROVE F(q[i]) < F(q[k])
      OBVIOUS
    <3>1. i \in 1..N
      <4>1. N \in Nat
        BY <1>1
      <4> HIDE DEF N
      <4>. QED
        BY <4>1
    <3>2. CASE k \in 1..N
      BY <1>5, <2>2, <3>1, <3>2
    <3>3. CASE k = N + 1
      <4>1. F(car[i]) <= n /\ F(car[i]) \in Nat /\ q[i] = car[i] /\ q[k] = node
        BY <1>3, <1>5, <2>2, <3>1, <3>3
      <4>. QED
        BY <2>3, <4>1
    <3>. QED
      BY <2>4, <3>2, <3>3
  <2>7. \A i \in 1..(n + 1) : order[i] \in ToSet(q)
    <3> SUFFICES ASSUME NEW i \in 1..(n + 1) PROVE order[i] \in ToSet(q)
      OBVIOUS
    <3>1. CASE i \in 1..n
      <4>1. PICK k \in 1..N : order[i] = car[k]
        BY <1>1, <1>5, <3>1 DEF ToSet
      <4>2. k \in DOMAIN q /\ q[k] = order[i]
        <5>1. k \in 1..(N + 1)
          BY <1>1
        <5>. QED
          BY <2>2, <4>1, <5>1
      <4>. QED
        BY <4>2 DEF ToSet
    <3>2. CASE i = n + 1
      <4>1. N + 1 \in DOMAIN q /\ q[N + 1] = order[i]
        <5>1. N + 1 \in 1..(N + 1)
          BY <1>1
        <5>. QED
          BY <2>2, <3>2, <5>1 DEF node
      <4>. QED
        BY <4>1 DEF ToSet
    <3>. QED
      BY <1>6, <3>1, <3>2
  <2>8. Sectioned(q, order, n + 1)
    BY <2>2, <2>5, <2>6, <2>7 DEF Sectioned, F
  <2>. QED
    BY <2>1, <2>8 DEF node
<1>. QED
  BY <1>7, <1>8

\* The sections of an order: every node once, where it first occurs.
LEMMA SectionsAre ==
  ASSUME NEW order, IsSeq(order)
  PROVE  Sectioned(Loop(AddSection, <<>>, order), order, Len(order))
<1> DEFINE V == Len(order)
<1>1. V \in Nat
  BY SeqParts
<1>2. PICK after : Turns(after, "section", <<>>, order, V) /\ Loop(AddSection, <<>>, order) = after[V]
  BY <1>1, SectionLoop
<1>3. after[0] = <<>> /\ \A k \in 1..V : k - 1 \in 0..V /\ after[k] = AddSection(after[k - 1], order[k])
  <2>1. ASSUME NEW now, NEW v PROVE Turn("section", now, v) = AddSection(now, v)
    BY DEF Turn
  <2>2. after[0] = <<>> /\ \A k \in 1..V : k - 1 \in 0..V /\ after[k] = Turn("section", after[k - 1], order[k])
    <3>1. V \in Nat /\ Turns(after, "section", <<>>, order, V)
      BY <1>1, <1>2
    <3> HIDE DEF V
    <3>. QED
      BY ONLY <3>1, TurnsAre
  <2>. QED
    BY <2>1, <2>2
<1> HIDE DEF V
<1> DEFINE T == {k \in Nat : Sectioned(after[k], order, k)}
<1>4. 0 \in T
  <2>1. IsSeq(<<>>) /\ Len(<<>>) = 0
    BY NoneSeq
  <2>2. Sectioned(<<>>, order, 0)
    BY <2>1 DEF Sectioned
  <2>. QED
    BY <1>3, <2>2
<1>5. ASSUME NEW k \in 0..V, k \in T, k < V PROVE k + 1 \in T
  <2> DEFINE j == k + 1
  <2>1. j \in 1..V /\ j - 1 = k /\ k \in Nat /\ j \in Nat
    <3>1. V \in Nat /\ k \in 0..V /\ k < V
      BY <1>1, <1>5
    <3>. QED
      BY ONLY <3>1
  <2>2. after[j] = AddSection(after[k], order[k + 1])
    BY <1>3, <2>1
  <2>3. Sectioned(after[k], order, k) /\ k < Len(order)
    BY <1>5 DEF V
  <2>4. Sectioned(AddSection(after[k], order[k + 1]), order, k + 1)
    BY <2>1, <2>3, SectionAdded
  <2>. QED
    BY <2>1, <2>2, <2>4
<1>6. V \in T
  <2> HIDE DEF T
  <2>1. \A k \in 0..V : k \in T
    BY <1>1, <1>4, <1>5, Ascent
  <2>. QED
    BY <1>1, <2>1
<1>. QED
  BY <1>2, <1>6 DEF V

(***************************************************************************)
(* The CAR.                                                                *)
(***************************************************************************)
\* The order of the root is a sequence.
LEMMA PostOrderIsSeq ==
  ASSUME NEW chunks, IsSeq(chunks), Len(chunks) > 0
  PROVE  IsSeq(PostOrder(chunks))
<1> DEFINE H == Height(chunks)
<1>1. H \in 0..Len(chunks) /\ Len(Layers(chunks)[H]) = 1
  BY HeightIs
<1>2. 1 \in 1..Len(Layers(chunks)[H])
  BY <1>1
<1>3. IsSeq(Orders(chunks)[H][1])
  BY <1>1, <1>2, OrderIsSeq
<1>. QED
  BY <1>3 DEF PostOrder

\* A root is written.
Named(d) == \E root : d.root = <<root>>

\* What a CAR of the chunks is.
CarOf(chunks) == [root |-> BalancedRoot(chunks), sections |-> Loop(AddSection, <<>>, PostOrder(chunks))]

\* A CAR that is written is that of the chunks, and a root is written.
TrueCar(j, d) ==
  d.car # <<>> => /\ Named(d)
                  /\ j.unixfs # "off"
                  /\ d.car = <<CarOf(j.chunks)>>

CarInv == (main = "commit" => Named(disk)) /\ TrueCar(job, disk)

\* A step that leaves the root and the CAR alone, and does not come to the commit.
LEMMA SameCar ==
  ASSUME CarInv, job' = job, disk'.car = disk.car, disk'.root = disk.root, main' = "commit" => main = "commit"
  PROVE  CarInv'
<1>1. TrueCar(job, disk) /\ (main = "commit" => Named(disk))
  BY DEF CarInv
<1>2. Named(disk) <=> Named(disk')
  BY DEF Named
<1>3. TrueCar(job', disk')
  BY <1>1, <1>2 DEF TrueCar
<1>4. main' = "commit" => Named(disk')
  BY <1>1, <1>2
<1>. QED
  BY <1>3, <1>4 DEF CarInv

\* At first there is no CAR.
LEMMA InitHasNoCar == ASSUME Init PROVE CarInv
<1>1. main = "dirs" /\ disk.car = <<>>
  BY DEF Init
<1>. QED
  BY <1>1 DEF CarInv, TrueCar

\* Shards are written, nothing else.
LEMMA WriteShardsKeepsCar == ASSUME PassInv, CarInv, WriteShards PROVE CarInv'
<1>1. job' = job /\ main' = main /\ \E new : disk' = [disk EXCEPT !.shards = new]
  BY DEF WriteShards
<1>2. disk = [shards |-> disk.shards, metas |-> disk.metas, root |-> disk.root, car |-> disk.car]
  BY DEF PassInv, Typed
<1>3. disk'.car = disk.car /\ disk'.root = disk.root
  BY <1>1, <1>2
<1>. QED
  BY <1>1, <1>3, SameCar

\* Metas are written, nothing else.
LEMMA WriteMetasKeepsCar == ASSUME PassInv, CarInv, WriteMetas PROVE CarInv'
<1>1. job' = job /\ main' \in {"root", "ended"} /\ (disk' = disk \/ disk' = [disk EXCEPT !.metas = TRUE])
  BY DEF WriteMetas, Return
<1>2. disk = [shards |-> disk.shards, metas |-> disk.metas, root |-> disk.root, car |-> disk.car]
  BY DEF PassInv, Typed
<1>3. disk'.car = disk.car /\ disk'.root = disk.root
  BY <1>1, <1>2
<1>. QED
  BY <1>1, <1>3, SameCar

\* The root is written before the CAR.
LEMMA WriteRootKeepsCar == ASSUME PassInv, CarInv, WriteRoot PROVE CarInv'
<1>1. CASE disk' = disk /\ main' = "ended"
  <2>1. job' = job
    BY DEF WriteRoot
  <2>. QED
    BY <1>1, <2>1, SameCar
<1>2. CASE disk' = [disk EXCEPT !.root = <<Descriptor>>]
  <2>1. disk = [shards |-> disk.shards, metas |-> disk.metas, root |-> disk.root, car |-> disk.car]
    BY DEF PassInv, Typed
  <2>2. disk'.root = <<Descriptor>> /\ disk'.car = disk.car
    BY <1>2, <2>1
  <2>3. Named(disk')
    BY <2>2 DEF Named
  <2>4. TrueCar(job, disk) /\ job' = job
    BY DEF CarInv, WriteRoot
  <2>5. TrueCar(job', disk')
    BY <2>2, <2>3, <2>4 DEF TrueCar
  <2>. QED
    BY <2>3, <2>5 DEF CarInv
<1>. QED
  BY <1>1, <1>2 DEF WriteRoot, Return

\* The builder is closed: what it emitted is the order of its DAG.
LEMMA CommitKeepsCar == ASSUME PassInv, CarInv, Commit PROVE CarInv'
<1>1. main = "commit" /\ main' = "ended" /\ job' = job
  BY DEF Commit, Return
<1>2. CASE disk' = disk
  BY <1>1, <1>2, SameCar
<1>3. CASE mode = "car" /\ disk' = [disk EXCEPT !.car = <<[root |-> Root(builder), sections |-> Sections]>>]
  <2>1. disk = [shards |-> disk.shards, metas |-> disk.metas, root |-> disk.root, car |-> disk.car]
    BY DEF PassInv, Typed
  <2>2. disk'.root = disk.root /\ disk'.car = <<[root |-> Root(builder), sections |-> Sections]>>
    BY <1>3, <2>1
  <2>3. job.unixfs # "off"
    BY <1>1, <1>3 DEF PassInv, Staged
  <2>4. Closed(builder, job.chunks, Height(job.chunks))
    BY <1>1, <1>3 DEF PassInv, DoneInv
  <2>5. IsSeq(job.chunks) /\ Len(job.chunks) > 0
    <3>1. job \in Jobs
      BY DEF PassInv, Typed
    <3>. QED
      BY <3>1, ChunksAre
  <2>6. Root(builder) = BalancedRoot(job.chunks)
    BY <2>4, <2>5, CloseRoot
  <2>7. builder.emitted = PostOrder(job.chunks)
    BY <2>4, <2>5, CloseRoot
  <2>8. disk'.car = <<CarOf(job.chunks)>>
    BY <2>2, <2>6, <2>7 DEF Sections, CarOf
  <2>9. Named(disk')
    BY <1>1, <2>2 DEF CarInv, Named
  <2>10. TrueCar(job', disk')
    BY <1>1, <2>3, <2>8, <2>9 DEF TrueCar
  <2>. QED
    BY <2>9, <2>10 DEF CarInv
<1>4. disk' = disk \/ (mode = "car" /\ disk' = [disk EXCEPT !.car = <<[root |-> Root(builder), sections |-> Sections]>>])
  BY DEF Commit
<1>. QED
  BY <1>2, <1>3, <1>4

\* The other steps write neither.
LEMMA OthersKeepCar ==
  ASSUME CarInv, UNCHANGED <<job, disk>>, main' = "commit" => main = "commit"
  PROVE  CarInv'
BY SameCar

\* No step makes another CAR, or a CAR without a root.
LEMMA CarKept == ASSUME PassInv, CarInv, [Next]_vars PROVE CarInv'
<1>1. CASE Hasher
  <2>1. UNCHANGED <<job, disk, main>>
    BY <1>1 DEF Hasher, Check, HashSlice, StopHashing
  <2>. QED
    BY <2>1, OthersKeepCar
<1>2. CASE BeginStep \/ HashStep \/ SendChunks
  <2>1. UNCHANGED <<job, disk, main>>
    BY <1>2 DEF BeginStep, HashStep, SendChunks
  <2>. QED
    BY <2>1, OthersKeepCar
<1>3. CASE WriteShards
  BY <1>3, WriteShardsKeepsCar
<1>4. CASE Writer
  <2>1. UNCHANGED <<job, disk, main>>
    BY <1>4 DEF Writer, Receive, PushBatch, EndOfQueue
  <2>. QED
    BY <2>1, OthersKeepCar
<1>5. CASE Prepare \/ JoinHasher \/ EndPass
  <2>1. UNCHANGED <<job, disk>> /\ main' # "commit"
    BY <1>5 DEF Prepare, JoinHasher, EndPass, Return
  <2>. QED
    BY <2>1, OthersKeepCar
<1>6. CASE WriteMetas
  BY <1>6, WriteMetasKeepsCar
<1>7. CASE WriteRoot
  BY <1>7, WriteRootKeepsCar
<1>8. CASE Commit
  BY <1>8, CommitKeepsCar
<1>9. CASE UNCHANGED vars
  <2>1. UNCHANGED <<job, disk, main>>
    BY <1>9 DEF vars
  <2>. QED
    BY <2>1, OthersKeepCar
<1>. QED
  BY <1>1, <1>2, <1>3, <1>4, <1>5, <1>6, <1>7, <1>8, <1>9 DEF Next, Walker, Main

\* The sections of an order are its nodes, in the order they first occur in it.
LEMMA SectionsOf ==
  ASSUME NEW order, IsSeq(order), NEW car, Sectioned(car, order, Len(order))
  PROVE  /\ ToSet(car) = ToSet(order)
         /\ \A i, k \in DOMAIN car : i < k => FirstAt(order, car[i]) < FirstAt(order, car[k])
<1>1. DOMAIN order = 1..Len(order) /\ DOMAIN car = 1..Len(car)
  BY SeqParts DEF Sectioned
<1>2. \A x \in ToSet(order) : x \in ToSet(car)
  BY <1>1 DEF Sectioned, ToSet
<1>3. \A x \in ToSet(car) : x \in ToSet(order)
  <2>1. \A x \in ToSet(car) : \E k \in 1..Len(car) : x = car[k]
    BY <1>1 DEF ToSet
  <2>2. \A k \in 1..Len(car) : car[k] \in ToSet(order)
    BY DEF Sectioned
  <2>. QED
    BY <2>1, <2>2
<1>4. \A i, k \in DOMAIN car : i < k => FirstAt(order, car[i]) < FirstAt(order, car[k])
  BY <1>1 DEF Sectioned
<1>. QED
  BY <1>2, <1>3, <1>4

\* What a CAR of the chunks is, is what CarIsTheDag says of it.
LEMMA CarIs == ASSUME PassInv, CarInv PROVE CarIsTheDag
<1> SUFFICES ASSUME NEW car \in ToSet(disk.car)
             PROVE  LET order == PostOrder(job.chunks)
                        First(node) == Min({i \in DOMAIN order : order[i] = node})
                    IN  /\ disk.root # <<>> /\ disk.root[1].unixfs = <<car.root>>
                        /\ ToSet(car.sections) = ToSet(order)
                        /\ \A i, k \in DOMAIN car.sections :
                              i < k => First(car.sections[i]) < First(car.sections[k])
  BY DEF CarIsTheDag
<1> DEFINE order == PostOrder(job.chunks)
<1>1. disk.car # <<>>
  BY DEF ToSet
<1>2. Named(disk) /\ job.unixfs # "off" /\ disk.car = <<CarOf(job.chunks)>>
  BY <1>1 DEF CarInv, TrueCar
<1>3. car = CarOf(job.chunks)
  BY <1>2 DEF ToSet
<1>4. car.root = BalancedRoot(job.chunks) /\ car.sections = Loop(AddSection, <<>>, order)
  BY <1>3 DEF CarOf
<1>5. IsSeq(order)
  <2>1. job \in Jobs
    BY DEF PassInv, Typed
  <2>2. IsSeq(job.chunks) /\ Len(job.chunks) > 0
    BY <2>1, ChunksAre
  <2>. QED
    BY <2>2, PostOrderIsSeq
<1>6. PICK root : disk.root = <<root>>
  BY <1>2 DEF Named
<1>7. disk.root # <<>> /\ disk.root[1] = root /\ root \in ToSet(disk.root)
  BY <1>6 DEF ToSet
<1>8. root.unixfs = <<BalancedRoot(job.chunks)>>
  BY <1>2, <1>7 DEF PassInv, DoneInv, TrueRoot
<1> HIDE DEF order
<1>9. Sectioned(car.sections, order, Len(order))
  BY <1>4, <1>5, SectionsAre
<1>10. /\ ToSet(car.sections) = ToSet(order)
       /\ \A i, k \in DOMAIN car.sections : i < k => FirstAt(order, car.sections[i]) < FirstAt(order, car.sections[k])
  BY <1>5, <1>9, SectionsOf
<1>. QED
  BY <1>4, <1>7, <1>8, <1>10 DEF order, FirstAt

\* CarIsTheDag holds in every state: a CAR under its final name (pack.rs, commit; car.rs,
\* block) has every block of the file's balanced DAG once, where it first occurs in
\* the post-order of SPEC 8, whatever steps its chunks came in, and the root that names
\* the same DAG was written before it.
THEOREM CarsAreTheDag == Spec => []CarIsTheDag
<1>1. Init => CarInv
  BY InitHasNoCar
<1>2. PassInv /\ CarInv /\ [Next]_vars => CarInv'
  BY CarKept
<1>3. PassInv /\ CarInv => CarIsTheDag
  BY CarIs
<1>. QED
  BY <1>1, <1>2, <1>3, PassIsSound, PTL DEF Spec

\* The builder of unixfs.rs (push, finish) against the balanced layout it must come to:
\* for every file and every point at which its chunks are cut in two batches, the root
\* is that of the layers of Fanout, and the blocks are emitted children first, left to
\* right, then their parent.
THEOREM BuilderIsBalanced ==
  ASSUME NEW Chunks, NEW chunks \in Seq(Chunks), chunks # <<>>, NEW n \in 0..Len(chunks)
  PROVE  LET some == PushChunks(NewBuilder, SubSeq(chunks, 1, n))
             all == Finish(PushChunks(some, SubSeq(chunks, n + 1, Len(chunks))))
         IN  Root(all) = BalancedRoot(chunks) /\ all.emitted = PostOrder(chunks)
<1> DEFINE K == Len(chunks)
           some == PushChunks(NewBuilder, Part(chunks, 0, n))
           fed == PushChunks(some, Part(chunks, n, K))
<1>1. IsSeq(chunks) /\ K \in Nat /\ K > 0
  <2>1. IsSeq(chunks)
    BY DEF IsSeq, ToSet
  <2>2. K \in Nat
    BY <2>1, SeqParts
  <2>3. K # 0
    BY <2>1, EmptyIs
  <2>. QED
    BY <2>1, <2>2, <2>3
<1>2. n \in Nat /\ n <= K
  BY <1>1
<1>3. Fed(NewBuilder, chunks, 0)
  BY NewIsFed
<1>4. Fed(some, chunks, n)
  <2>1. 0 \in Nat /\ 0 <= n
    BY <1>2
  <2>. QED
    BY <1>1, <1>2, <1>3, <2>1, PushChunksIs
<1> HIDE DEF some
<1>5. Fed(fed, chunks, K)
  <2>1. K <= K
    BY <1>1
  <2>. QED
    BY <1>1, <1>2, <1>4, <2>1, PushChunksIs
<1> HIDE DEF fed
<1>6. Closed(Finish(fed), chunks, Height(chunks))
  BY <1>1, <1>5, FinishIs
<1>7. Root(Finish(fed)) = BalancedRoot(chunks)
  BY <1>1, <1>6, CloseRoot
<1>8. Finish(fed).emitted = PostOrder(chunks)
  BY <1>1, <1>6, CloseRoot
<1>9. Part(chunks, 0, n) = SubSeq(chunks, 1, n) /\ Part(chunks, n, K) = SubSeq(chunks, n + 1, K)
  BY DEF Part
<1>. QED
  BY <1>7, <1>8, <1>9 DEF fed, some

=============================================================================
