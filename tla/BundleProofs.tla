---------------------------- MODULE BundleProofs ----------------------------
(***************************************************************************)
(* Proofs about Bundle, for every set of directories, readers, locations   *)
(* and lying hosts.                                                        *)
(*                                                                         *)
(* What a read returns is the `src` of an entry of the packed manifest     *)
(* under the path it asked (FileInv); that this is the directory's file is *)
(* a fact about PackAssets, whose two sorts are shown to lose and to add   *)
(* nothing (SortedExists: an element's place is the number of those before *)
(* it).                                                                    *)
(*                                                                         *)
(* Loads are begun in order, one at a time and never once the root is      *)
(* there (LoadInv), so the load a new read begins is none that a failed    *)
(* one joined.                                                             *)
(***************************************************************************)
EXTENDS Bundle, FiniteSetTheorems, NaturalsInduction, WellFoundedInduction, TLAPS

(***************************************************************************)
(* PackAssets.                                                             *)
(***************************************************************************)
\* A finite set with distinct keys can be sorted: the place of each element is
\* given by how many come before it.
LEMMA SortedExists ==
  ASSUME NEW S, IsFiniteSet(S), NEW key \in Injection(S, Nat)
  PROVE  \E s \in SetToSeqs(S) : \A i, j \in DOMAIN s : i < j => key[s[i]] < key[s[j]]
<1> DEFINE n == Cardinality(S)
           below(x) == {y \in S : key[y] < key[x]}
           rank == [x \in S |-> Cardinality(below(x)) + 1]
<1>1. n \in Nat /\ IsFiniteSet(1..n) /\ Cardinality(1..n) = n
  BY FS_CardinalityType, FS_Interval
<1>2. key \in [S -> Nat] /\ \A x, y \in S : key[x] = key[y] => x = y
  BY DEF Injection, IsInjective
<1>3. ASSUME NEW x \in S
      PROVE  IsFiniteSet(below(x)) /\ Cardinality(below(x)) \in Nat /\ Cardinality(below(x)) < n
  <2>1. below(x) \in SUBSET S /\ x \notin below(x)
    BY <1>2
  <2>2. IsFiniteSet(below(x)) /\ Cardinality(below(x)) <= n /\ Cardinality(below(x)) # n
    BY <2>1, FS_Subset
  <2>. QED
    BY <1>1, <2>2, FS_CardinalityType
<1>4. ASSUME NEW x \in S, NEW y \in S, key[x] < key[y]
      PROVE  rank[x] < rank[y]
  <2>1. below(x) \in SUBSET below(y) /\ x \in below(y) /\ x \notin below(x)
    BY <1>2, <1>4
  <2>2. Cardinality(below(x)) <= Cardinality(below(y)) /\ Cardinality(below(x)) # Cardinality(below(y))
    BY <1>3, <2>1, FS_Subset
  <2>3. Cardinality(below(x)) \in Nat /\ Cardinality(below(y)) \in Nat
    BY <1>3
  <2> HIDE DEF below
  <2>. QED
    BY <2>2, <2>3
<1>5. rank \in [S -> 1..n]
  <2>1. ASSUME NEW x \in S PROVE Cardinality(below(x)) + 1 \in 1..n
    <3> HIDE DEF below, n
    <3>. QED
      BY <1>1, <1>3
  <2>. QED
    BY <2>1
<1> HIDE DEF n, rank
<1>6. \A x, y \in S : rank[x] = rank[y] => x = y
  <2> SUFFICES ASSUME NEW x \in S, NEW y \in S, x # y PROVE rank[x] # rank[y]
    OBVIOUS
  <2>1. key[x] \in Nat /\ key[y] \in Nat /\ key[x] # key[y]
    BY <1>2
  <2>2. rank[x] \in Int /\ rank[y] \in Int
    BY <1>1, <1>5
  <2>3. CASE key[x] < key[y]
    BY <1>4, <2>2, <2>3
  <2>4. CASE key[y] < key[x]
    BY <1>4, <2>2, <2>4
  <2>. QED
    BY <2>1, <2>3, <2>4
<1>7. rank \in Injection(S, 1..n)
  BY <1>5, <1>6 DEF Injection, IsInjective
<1>8. rank \in Surjection(S, 1..n)
  BY <1>1, <1>7, FS_Injection DEF n
<1>9. \A k \in 1..n : \E x \in S : rank[x] = k
  BY <1>8 DEF Surjection
<1> DEFINE s == [k \in 1..n |-> CHOOSE x \in S : rank[x] = k]
<1>10. ASSUME NEW k \in 1..n PROVE s[k] \in S /\ rank[s[k]] = k
  BY <1>9
<1>11. s \in SetToSeqs(S)
  <2>1. s \in [1..n -> S]
    BY <1>10
  <2>2. \A i, j \in 1..n : i # j => s[i] # s[j]
    BY <1>10
  <2>. QED
    BY <2>1, <2>2 DEF SetToSeqs, n
<1>12. ASSUME NEW i \in DOMAIN s, NEW j \in DOMAIN s, i < j
       PROVE  key[s[i]] < key[s[j]]
  <2> HIDE DEF s
  <2>1. i \in 1..n /\ j \in 1..n
    BY DEF s
  <2>2. s[i] \in S /\ s[j] \in S /\ rank[s[i]] < rank[s[j]]
    BY <1>10, <1>12, <2>1
  <2>3. key[s[i]] \in Nat /\ key[s[j]] \in Nat
    BY <1>2, <2>2
  <2>4. key[s[j]] < key[s[i]] => rank[s[j]] < rank[s[i]]
    BY <1>4, <2>2
  <2>5. key[s[i]] # key[s[j]] \/ s[i] = s[j]
    BY <1>2, <2>2
  <2>6. rank[s[i]] \in Int /\ rank[s[j]] \in Int
    BY <1>1, <1>5, <2>2
  <2>. QED
    BY <2>2, <2>3, <2>4, <2>5, <2>6
<1>. QED
  BY <1>11, <1>12

\* A permutation of a finite set has each of its elements.
LEMMA PermutationElements ==
  ASSUME NEW S, IsFiniteSet(S), NEW s \in SetToSeqs(S)
  PROVE  DOMAIN s = 1..Cardinality(S) /\ ToSet(s) = S
<1> DEFINE n == Cardinality(S)
<1>1. n \in Nat /\ IsFiniteSet(1..n) /\ Cardinality(1..n) = n
  BY FS_CardinalityType, FS_Interval
<1>2. s \in [1..n -> S] /\ \A i, j \in 1..n : i # j => s[i] # s[j]
  BY DEF SetToSeqs
<1>3. s \in Injection(1..n, S)
  BY <1>2 DEF Injection, IsInjective
<1>4. s \in Surjection(1..n, S)
  BY <1>1, <1>3, FS_Injection
<1>. QED
  BY <1>2, <1>4 DEF Surjection, ToSet

WalkOf(d) == Sorted(DOMAIN d, LAMBDA p, q : WalkPlace[p] < WalkPlace[q])
EntriesOf(d) == [i \in DOMAIN WalkOf(d) |-> Entry(WalkOf(d)[i], d[WalkOf(d)[i]])]

\* The walk lists the directory's files, each once.
LEMMA WalkedEntries ==
  ASSUME NEW d \in Directories
  PROVE  LET entries == EntriesOf(d)
         IN  /\ Cardinality(DOMAIN d) \in Nat /\ DOMAIN entries = 1..Cardinality(DOMAIN d)
             /\ \A i \in DOMAIN entries : /\ entries[i].path \in DOMAIN d /\ entries[i].src = d[entries[i].path]
                                          /\ entries[i].src \in Contents
             /\ \A i, j \in DOMAIN entries : entries[i].path = entries[j].path => i = j
<1> DEFINE P == DOMAIN d
           walk == WalkOf(d)
           entries == EntriesOf(d)
<1>1. IsFiniteSet(P) /\ P \subseteq Paths /\ d \in [P -> Contents] /\ Cardinality(P) \in Nat
  BY BundleAssumption, FS_CardinalityType
<1>2. walk \in SetToSeqs(P) /\ DOMAIN walk = 1..Cardinality(P) /\ ToSet(walk) = P
  <2> DEFINE key == [p \in P |-> WalkPlace[p]]
  <2>1. key \in Injection(P, Nat)
    BY <1>1, AssetsAssumption DEF Injection, IsInjective
  <2>2. \E s \in SetToSeqs(P) : \A i, j \in DOMAIN s : i < j => key[s[i]] < key[s[j]]
    <3> HIDE DEF key
    <3>. QED
      BY <1>1, <2>1, SortedExists
  <2>3. PICK s \in SetToSeqs(P) : \A i, j \in DOMAIN s : i < j => key[s[i]] < key[s[j]]
    BY <2>2
  <2>4. s \in [1..Cardinality(P) -> P]
    BY DEF SetToSeqs
  <2>5. \A i, j \in DOMAIN s : i < j => WalkPlace[s[i]] < WalkPlace[s[j]]
    BY <2>3, <2>4
  <2>6. walk \in SetToSeqs(P)
    BY <2>5 DEF Sorted, WalkOf
  <2> HIDE DEF walk
  <2>. QED
    BY <1>1, <2>6, PermutationElements
<1>3. \A i, j \in DOMAIN walk : walk[i] = walk[j] => i = j
  BY <1>2 DEF SetToSeqs
<1> HIDE DEF walk
<1>4. DOMAIN entries = 1..Cardinality(P) /\ \A i \in DOMAIN walk : entries[i] = Entry(walk[i], d[walk[i]])
  BY <1>2 DEF EntriesOf, walk
<1>5. \A i \in DOMAIN walk : walk[i] \in P
  BY <1>2 DEF ToSet
<1> HIDE DEF entries
<1>6. ASSUME NEW i \in DOMAIN walk PROVE entries[i].path = walk[i] /\ entries[i].src = d[walk[i]]
  <2>1. entries[i] = [path |-> walk[i], src |-> d[walk[i]], size |-> Size[d[walk[i]]]]
    BY <1>4 DEF Entry
  <2>. QED
    BY <2>1
<1>. QED
  BY <1>1, <1>2, <1>3, <1>4, <1>5, <1>6 DEF entries

\* The packed manifest lists the directory's files, each under its path, in the
\* order of their keys, and within the cap.
LEMMA PackedEntries ==
  ASSUME NEW d \in Directories, Packs(d)
  PROVE  LET manifest == PackAssets(d).manifest
         IN  /\ \A e \in ToSet(manifest) : e.path \in DOMAIN d /\ e.src = d[e.path] /\ e.src \in Contents
             /\ Len(manifest) \in 1..ManifestCap /\ DOMAIN manifest = 1..Len(manifest)
             /\ \A i \in DOMAIN manifest : SplitPath(manifest[i].path)
             /\ \A i, j \in DOMAIN manifest : i < j => KeyPlace[manifest[i].path] < KeyPlace[manifest[j].path]
<1> DEFINE P == DOMAIN d
           n == Cardinality(P)
           entries == EntriesOf(d)
           E == ToSet(entries)
           manifest == PackAssets(d).manifest
<1>1. P \subseteq Paths /\ KeyPlace \in Injection(Paths, Nat)
  BY BundleAssumption, AssetsAssumption
<1>2. /\ n \in Nat /\ DOMAIN entries = 1..n
      /\ \A i \in 1..n : /\ entries[i].path \in P /\ entries[i].src = d[entries[i].path]
                         /\ entries[i].src \in Contents
      /\ \A i, j \in 1..n : entries[i].path = entries[j].path => i = j
  BY WalkedEntries
<1>3. manifest = EncodeManifest(entries)
  BY DEF PackAssets, EntriesOf, WalkOf
<1>4. /\ manifest = InKeyOrder(entries)
      /\ entries # <<>> /\ ~(Len(entries) > ManifestCap) /\ \A i \in DOMAIN entries : SplitPath(entries[i].path)
  BY <1>3 DEF Packs, EncodeManifest
<1> HIDE DEF entries, n
<1>5. \A e \in E : e.path \in P /\ e.src = d[e.path] /\ e.src \in Contents /\ SplitPath(e.path)
  BY <1>2, <1>4 DEF ToSet
<1>6. \A e, f \in E : e.path = f.path => e = f
  BY <1>2 DEF ToSet
<1>7. IsFiniteSet(E) /\ Cardinality(E) = n
  <2>1. IsFiniteSet(1..n) /\ Cardinality(1..n) = n
    BY <1>2, FS_Interval
  <2>2. entries \in Bijection(1..n, E)
    <3>1. DOMAIN entries = 1..n /\ entries = [i \in 1..n |-> entries[i]]
      BY <1>2 DEF entries, EntriesOf
    <3>2. \A i \in 1..n : entries[i] \in E
      BY <1>2 DEF ToSet
    <3>3. \A e \in E : \E i \in 1..n : entries[i] = e
      BY <1>2 DEF ToSet
    <3>4. \A i, j \in 1..n : entries[i] = entries[j] => i = j
      BY <1>2
    <3> HIDE DEF E
    <3>5. entries \in [1..n -> E]
      BY <3>1, <3>2
    <3>. QED
      BY <3>3, <3>4, <3>5 DEF Bijection, Injection, IsInjective, Surjection
  <2> HIDE DEF E
  <2>3. ExistsBijection(1..n, E)
    BY <2>2 DEF ExistsBijection
  <2>. QED
    BY <2>1, <2>3, FS_Bijection
<1>8. /\ manifest \in SetToSeqs(E)
      /\ \A i, j \in DOMAIN manifest : i < j => KeyPlace[manifest[i].path] < KeyPlace[manifest[j].path]
  <2> DEFINE key == [e \in E |-> KeyPlace[e.path]]
  <2>1. key \in Injection(E, Nat)
    <3>1. \A e \in E : e.path \in Paths
      BY <1>1, <1>5
    <3> HIDE DEF E
    <3>2. key \in [E -> Nat]
      BY <1>1, <3>1 DEF Injection
    <3>3. \A e, f \in E : key[e] = key[f] => e = f
      BY <1>1, <1>6, <3>1 DEF Injection, IsInjective
    <3>. QED
      BY <3>2, <3>3 DEF Injection, IsInjective
  <2>2. \E s \in SetToSeqs(E) : \A i, j \in DOMAIN s : i < j => key[s[i]] < key[s[j]]
    <3> HIDE DEF key, E
    <3>. QED
      BY <1>7, <2>1, SortedExists
  <2>3. PICK s \in SetToSeqs(E) : \A i, j \in DOMAIN s : i < j => key[s[i]] < key[s[j]]
    BY <2>2
  <2> HIDE DEF E
  <2>4. s \in [1..Cardinality(E) -> E]
    BY DEF SetToSeqs
  <2>5. \A i, j \in DOMAIN s : i < j => KeyPlace[s[i].path] < KeyPlace[s[j].path]
    BY <2>3, <2>4
  <2> HIDE DEF manifest
  <2>. QED
    BY <1>4, <2>5 DEF InKeyOrder, Sorted, E
<1>9. DOMAIN manifest = 1..n /\ ToSet(manifest) = E
  <2> HIDE DEF E, manifest
  <2>. QED
    BY <1>7, <1>8, PermutationElements
<1>10. Len(manifest) = n /\ n \in 1..ManifestCap
  <2>1. Len(entries) = n /\ n # 0
    <3>1. entries = [i \in 1..n |-> entries[i]]
      BY <1>2 DEF entries, EntriesOf
    <3>2. entries \in Seq(E)
      BY <1>2, <3>1 DEF ToSet
    <3> HIDE DEF E
    <3>. QED
      BY <1>2, <1>4, <3>2
  <2>2. manifest \in Seq(E)
    <3> HIDE DEF E, manifest
    <3>1. manifest \in [1..n -> E]
      BY <1>7, <1>8 DEF SetToSeqs
    <3>. QED
      BY <1>2, <3>1
  <2>3. Len(manifest) = n
    <3> HIDE DEF E, manifest
    <3>. QED
      BY <1>2, <1>9, <2>2
  <2>4. ManifestCap \in Nat
    BY AssetsAssumption
  <2>. QED
    BY <1>2, <1>4, <2>1, <2>3, <2>4
<1>11. \A i \in DOMAIN manifest : manifest[i] \in E
  BY <1>9 DEF ToSet
<1> HIDE DEF E, manifest
<1>. QED
  BY <1>5, <1>8, <1>9, <1>10, <1>11 DEF manifest

(***************************************************************************)
(* What pack assets makes is taken.                                        *)
(***************************************************************************)
\* A nonempty set of naturals has a least element.
LEMMA LeastNat ==
  ASSUME NEW T \in SUBSET Nat, T # {}
  PROVE  \E m \in T : \A k \in T : m <= k
<1>1. PICK m \in T : \A k \in T : ~(<<k, m>> \in OpToRel(<, Nat))
  BY NatLessThanWellFounded, WFMin
<1>2. ASSUME NEW k \in T PROVE m <= k
  <2>1. <<k, m>> \in Nat \X Nat /\ ~(<<k, m>> \in OpToRel(<, Nat))
    BY <1>1
  <2>2. ~(k < m)
    BY <2>1 DEF OpToRel
  <2>. QED
    BY <2>2
<1>. QED
  BY <1>2

\* A set with 0 in it, and with every number its successor, up to m.
LEMMA Ascent ==
  ASSUME NEW T, NEW m \in Nat, 0 \in T,
         \A k \in 0..m : k \in T /\ k < m => k + 1 \in T
  PROVE  \A k \in 0..m : k \in T
<1> DEFINE Bad == {k \in 0..m : k \notin T}
<1> SUFFICES ASSUME Bad # {} PROVE FALSE
  OBVIOUS
<1>1. PICK k \in Bad : \A j \in Bad : k <= j
  <2>1. Bad \in SUBSET Nat
    OBVIOUS
  <2> HIDE DEF Bad
  <2>. QED
    BY <2>1, LeastNat
<1>2. k \in 0..m /\ k # 0
  OBVIOUS
<1> DEFINE j == k - 1
<1>3. j \in 0..m /\ ~(k <= j) /\ j < m /\ j + 1 = k
  BY <1>2
<1>4. j \in T
  <2> HIDE DEF j
  <2>. QED
    BY <1>1, <1>3
<1>5. j + 1 \in T
  <2> HIDE DEF j
  <2>. QED
    BY <1>3, <1>4
<1>. QED
  BY <1>3, <1>5

\* The sums of the first of n blocks.
Sums(f, blocks, n) == f = [i \in 0..n |-> IF i = 0 THEN 0 ELSE f[i - 1] + Size[blocks[i]]]

\* The sums of the blocks exist, and start at none.
LEMMA SumsExist ==
  ASSUME NEW blocks, NEW n \in Nat
  PROVE  \E f : Sums(f, blocks, n)
<1> DEFINE T == {m \in Nat : \E f : Sums(f, blocks, m)}
<1>1. 0 \in T
  <2> DEFINE f == [i \in 0..0 |-> 0]
  <2>1. f = [i \in 0..0 |-> IF i = 0 THEN 0 ELSE f[i - 1] + Size[blocks[i]]]
    OBVIOUS
  <2> HIDE DEF f
  <2>2. Sums(f, blocks, 0)
    BY <2>1 DEF Sums
  <2>. QED
    BY <2>2
<1>2. ASSUME NEW k \in 0..n, k \in T, k < n PROVE k + 1 \in T
  <2>1. PICK f : Sums(f, blocks, k)
    BY <1>2
  <2> DEFINE g == [i \in 0..(k + 1) |-> IF i = k + 1 THEN f[k] + Size[blocks[k + 1]] ELSE f[i]]
  <2>2. \A i \in 0..k : f[i] = IF i = 0 THEN 0 ELSE f[i - 1] + Size[blocks[i]]
    BY <2>1 DEF Sums
  <2>3. \A i \in 0..(k + 1) : g[i] = IF i = 0 THEN 0 ELSE g[i - 1] + Size[blocks[i]]
    <3> SUFFICES ASSUME NEW i \in 0..(k + 1) PROVE g[i] = IF i = 0 THEN 0 ELSE g[i - 1] + Size[blocks[i]]
      OBVIOUS
    <3>1. CASE i = k + 1
      <4>1. g[k + 1] = f[k] + Size[blocks[k + 1]] /\ g[k] = f[k] /\ k + 1 # 0 /\ k + 1 - 1 = k
        OBVIOUS
      <4> HIDE DEF g
      <4>. QED
        BY <3>1, <4>1
    <3>2. CASE i # k + 1
      <4>1. i \in 0..k
        BY <3>2
      <4>2. i # 0 => g[i - 1] = f[i - 1]
        BY <4>1
      <4>3. g[i] = f[i]
        BY <3>2
      <4> HIDE DEF g
      <4>. QED
        BY <2>2, <4>1, <4>2, <4>3
    <3>. QED
      BY <3>1, <3>2
  <2>4. DOMAIN g = 0..(k + 1) /\ g = [i \in 0..(k + 1) |-> g[i]]
    OBVIOUS
  <2> HIDE DEF g
  <2>5. g = [i \in 0..(k + 1) |-> IF i = 0 THEN 0 ELSE g[i - 1] + Size[blocks[i]]]
    BY <2>3, <2>4
  <2>6. Sums(g, blocks, k + 1)
    BY <2>5 DEF Sums
  <2>. QED
    BY <2>6
<1> HIDE DEF T
<1>3. n \in T
  BY <1>1, <1>2, Ascent
<1>. QED
  BY <1>3 DEF T

\* A block is not larger than all of them together.
LEMMA PartOfTotal ==
  ASSUME NEW blocks, Len(blocks) \in Nat, \A i \in 1..Len(blocks) : Size[blocks[i]] \in Nat
  PROVE  Total(blocks) \in Nat /\ \A i \in 1..Len(blocks) : Size[blocks[i]] <= Total(blocks)
<1> DEFINE n == Len(blocks)
           sum == CHOOSE f : Sums(f, blocks, n)
<1>1. Sums(sum, blocks, n)
  BY SumsExist
<1>2. Total(blocks) = sum[n]
  BY DEF Total, Sums
<1>3. sum[0] = 0 /\ \A k \in 1..n : sum[k] = sum[k - 1] + Size[blocks[k]]
  <2>1. n \in Nat
    OBVIOUS
  <2> HIDE DEF n, sum
  <2>2. \A k \in 0..n : sum[k] = IF k = 0 THEN 0 ELSE sum[k - 1] + Size[blocks[k]]
    BY <1>1, <2>1 DEF Sums
  <2>. QED
    BY <2>1, <2>2
<1>4. n \in Nat /\ \A k \in 1..n : Size[blocks[k]] \in Nat
  OBVIOUS
<1> HIDE DEF sum, n
<1> DEFINE T == {k \in Nat : sum[k] \in Nat /\ \A i \in 1..k : i <= n => Size[blocks[i]] <= sum[k]}
<1>5. 0 \in T
  BY <1>3, <1>4
<1>6. ASSUME NEW k \in 0..n, k \in T, k < n PROVE k + 1 \in T
  <2>1. k + 1 \in 1..n /\ k + 1 - 1 = k /\ k \in Nat
    BY <1>4, <1>6
  <2>2. sum[k + 1] = sum[k] + Size[blocks[k + 1]] /\ Size[blocks[k + 1]] \in Nat
    BY <1>3, <1>4, <2>1
  <2>3. sum[k] \in Nat /\ \A i \in 1..k : i <= n => Size[blocks[i]] <= sum[k]
    BY <1>6
  <2>4. sum[k + 1] \in Nat
    BY <2>2, <2>3
  <2>5. ASSUME NEW i \in 1..(k + 1), i <= n PROVE Size[blocks[i]] <= sum[k + 1]
    <3>1. CASE i = k + 1
      BY <2>2, <2>3, <3>1
    <3>2. CASE i # k + 1
      <4>1. i \in 1..k /\ i \in 1..n
        BY <2>1, <2>5, <3>2
      <4>2. Size[blocks[i]] <= sum[k] /\ Size[blocks[i]] \in Nat
        BY <1>4, <2>3, <2>5, <4>1
      <4>. QED
        BY <2>2, <2>3, <4>2
    <3>. QED
      BY <3>1, <3>2
  <2>. QED
    BY <2>1, <2>4, <2>5
<1>7. n \in T
  <2> HIDE DEF T
  <2>1. \A k \in 0..n : k \in T
    BY <1>4, <1>5, <1>6, Ascent
  <2>. QED
    BY <1>4, <2>1
<1>. QED
  BY <1>2, <1>4, <1>7 DEF n

\* The blocks are the files' bytes, each once.
LEMMA BlocksAre ==
  ASSUME NEW d \in Directories
  PROVE  LET blocks == Blocks(EntriesOf(d))
         IN  /\ Len(blocks) \in Nat /\ DOMAIN blocks = 1..Len(blocks)
             /\ \A i \in DOMAIN blocks : blocks[i] \in Contents
             /\ \A i, j \in DOMAIN blocks : blocks[i] = blocks[j] => i = j
<1> DEFINE entries == EntriesOf(d)
           n == Cardinality(DOMAIN d)
           S == {i \in DOMAIN entries : \A j \in 1..(i - 1) : entries[j].src # entries[i].src}
           first == Sorted(S, LAMBDA i, j : i < j)
           blocks == Blocks(entries)
<1>1. n \in Nat /\ DOMAIN entries = 1..n /\ \A i \in 1..n : entries[i].src \in Contents
  BY WalkedEntries
<1> HIDE DEF entries
<1>2. IsFiniteSet(S) /\ S \in SUBSET Nat
  <2>1. S \in SUBSET (1..n)
    BY <1>1
  <2>2. n \in Int /\ 1 \in Int
    BY <1>1
  <2> HIDE DEF S, n
  <2>3. IsFiniteSet(1..n)
    BY <2>2, FS_Interval
  <2>4. IsFiniteSet(S)
    BY <2>1, <2>3, FS_Subset
  <2>. QED
    BY <2>1, <2>2, <2>4
<1>3. first \in SetToSeqs(S)
  <2> DEFINE key == [i \in S |-> i]
  <2> HIDE DEF S
  <2>1. key \in Injection(S, Nat)
    BY <1>2 DEF Injection, IsInjective
  <2>2. PICK s \in SetToSeqs(S) : \A i, j \in DOMAIN s : i < j => key[s[i]] < key[s[j]]
    <3> HIDE DEF key
    <3>. QED
      BY <1>2, <2>1, SortedExists
  <2>3. s \in [1..Cardinality(S) -> S]
    BY DEF SetToSeqs
  <2>4. \A i, j \in DOMAIN s : i < j => s[i] < s[j]
    BY <2>2, <2>3
  <2>. QED
    BY <2>4 DEF Sorted
<1> DEFINE c == Cardinality(S)
<1>4. c \in Nat /\ first \in [1..c -> S] /\ \A i, j \in 1..c : first[i] = first[j] => i = j
  <2> HIDE DEF S, first
  <2>. QED
    BY <1>2, <1>3, FS_CardinalityType DEF SetToSeqs
<1>5. blocks = [k \in DOMAIN first |-> entries[first[k]].src]
  BY DEF Blocks
<1>6. \A i, j \in S : entries[i].src = entries[j].src => i = j
  <2> SUFFICES ASSUME NEW i \in S, NEW j \in S, entries[i].src = entries[j].src, i < j PROVE FALSE
    BY <1>2
  <2>1. i \in 1..(j - 1)
    BY <1>1
  <2>. QED
    BY <2>1
<1>7. \A i \in S : entries[i].src \in Contents
  BY <1>1
<1> HIDE DEF first, S, blocks, c
<1>8. DOMAIN blocks = 1..c /\ \A i \in 1..c : blocks[i] = entries[first[i]].src /\ first[i] \in S
  BY <1>4, <1>5
<1>9. \A i \in 1..c : blocks[i] \in Contents
  BY <1>7, <1>8
<1>10. \A i, j \in 1..c : blocks[i] = blocks[j] => i = j
  BY <1>4, <1>6, <1>8
<1>11. Len(blocks) = c
  <2>1. blocks = [i \in 1..c |-> blocks[i]]
    BY <1>4, <1>5
  <2>2. blocks \in Seq(Contents)
    BY <1>4, <1>9, <2>1
  <2>. QED
    BY <1>4, <1>8, <2>2
<1>. QED
  BY <1>4, <1>8, <1>9, <1>10, <1>11 DEF blocks, entries

\* The CAR: the manifest, then some of the blocks, if not all, then none.
LEMMA CarIs ==
  ASSUME NEW d \in Directories
  PROVE  LET car == PackAssets(d).car
             manifest == PackAssets(d).manifest
         IN  \E n \in Nat : \E inline :
                /\ DOMAIN car = 1..(n + 1) /\ car[1] = Section("dag-cbor", manifest)
                /\ \A i \in 1..n : /\ car[i + 1] = Section("raw", inline[i])
                                   /\ inline[i] \in Contents /\ Size[inline[i]] <= RawCap
                /\ \A i, j \in 1..n : inline[i] = inline[j] => i = j
<1> DEFINE manifest == PackAssets(d).manifest
           blocks == Blocks(EntriesOf(d))
           inline == IF Total(blocks) <= InlineCap THEN blocks ELSE <<>>
           raw == [i \in DOMAIN inline |-> Section("raw", inline[i])]
           car == <<Section("dag-cbor", manifest)>> \o raw
           n == Len(inline)
<1>1. PackAssets(d).car = car
  BY DEF PackAssets, EntriesOf, WalkOf
<1>2. /\ Len(blocks) \in Nat /\ DOMAIN blocks = 1..Len(blocks)
      /\ \A i \in DOMAIN blocks : blocks[i] \in Contents
      /\ \A i, j \in DOMAIN blocks : blocks[i] = blocks[j] => i = j
  BY BlocksAre
<1>3. \A i \in DOMAIN blocks : Size[blocks[i]] \in Nat
  BY <1>2, AssetsAssumption
<1>4. Total(blocks) \in Nat /\ \A i \in DOMAIN blocks : Size[blocks[i]] <= Total(blocks)
  <2> HIDE DEF blocks
  <2>. QED
    BY <1>2, <1>3, PartOfTotal
<1> HIDE DEF blocks, manifest
<1>5. /\ n \in Nat /\ DOMAIN inline = 1..n
      /\ \A i \in 1..n : inline[i] \in Contents /\ Size[inline[i]] <= RawCap
      /\ \A i, j \in 1..n : inline[i] = inline[j] => i = j
  <2>1. CASE inline = <<>>
    <3>1. Len(<<>>) = 0 /\ DOMAIN <<>> = 1..0
      OBVIOUS
    <3> HIDE DEF inline
    <3>. QED
      BY <2>1, <3>1
  <2>2. CASE inline = blocks /\ Total(blocks) <= InlineCap
    <3>1. InlineCap \in Nat /\ RawCap \in Nat /\ InlineCap <= RawCap
      BY AssetsAssumption
    <3>2. \A i \in 1..Len(blocks) : Size[blocks[i]] <= RawCap
      <4> SUFFICES ASSUME NEW i \in 1..Len(blocks) PROVE Size[blocks[i]] <= RawCap
        OBVIOUS
      <4>1. Size[blocks[i]] \in Nat /\ Size[blocks[i]] <= Total(blocks) /\ Total(blocks) \in Nat
        BY <1>2, <1>3, <1>4
      <4>. QED
        BY <2>2, <3>1, <4>1
    <3> HIDE DEF inline
    <3>. QED
      BY <1>2, <2>2, <3>2
  <2>. QED
    BY <2>1, <2>2
<1> HIDE DEF inline
<1>6. DOMAIN car = 1..(n + 1) /\ car[1] = Section("dag-cbor", manifest) /\ \A i \in 1..n : car[i + 1] = raw[i]
  <2>1. DOMAIN raw = 1..n
    BY <1>5
  <2>2. raw \in Seq({raw[i] : i \in 1..n}) /\ Len(raw) = n
    <3>1. raw \in [1..n -> {raw[i] : i \in 1..n}]
      BY <2>1
    <3> HIDE DEF raw
    <3>. QED
      BY <1>5, <3>1
  <2> HIDE DEF raw, n
  <2> DEFINE x == Section("dag-cbor", manifest)
  <2> HIDE DEF x
  <2>3. Len(<<x>>) = 1 /\ <<x>>[1] = x
    OBVIOUS
  <2>4. Len(<<x>> \o raw) = n + 1 /\ DOMAIN (<<x>> \o raw) = 1..(n + 1)
    BY <1>5, <2>2, <2>3
  <2>5. (<<x>> \o raw)[1] = x
    BY <1>5, <2>2, <2>3
  <2>6. \A i \in 1..n : (<<x>> \o raw)[i + 1] = raw[i]
    BY <1>5, <2>2, <2>3
  <2>. QED
    BY <2>4, <2>5, <2>6 DEF x
<1>7. \A i \in 1..n : car[i + 1] = Section("raw", inline[i])
  <2>1. \A i \in 1..n : raw[i] = Section("raw", inline[i])
    BY <1>5
  <2> HIDE DEF raw, car
  <2>. QED
    BY <1>6, <2>1
<1> HIDE DEF car, n
<1>. QED
  BY <1>1, <1>5, <1>6, <1>7 DEF manifest

\* The manifest of a packed directory parses to the files of the directory.
LEMMA PackedIsParsed ==
  ASSUME NEW d \in Directories, Packs(d)
  PROVE  /\ Decodes(PackAssets(d).manifest)
         /\ Section("dag-cbor", PackAssets(d).manifest) \in ParseCarBag(PackAssets(d).car)
<1> DEFINE manifest == PackAssets(d).manifest
           car == PackAssets(d).car
<1>1. manifest \notin Contents
  BY ManifestAssumption
<1>2. Decodes(manifest)
  <2>1. /\ Len(manifest) \in 1..ManifestCap /\ DOMAIN manifest = 1..Len(manifest)
        /\ \A i \in DOMAIN manifest : SplitPath(manifest[i].path)
        /\ \A i, j \in DOMAIN manifest : i < j => KeyPlace[manifest[i].path] < KeyPlace[manifest[j].path]
    BY PackedEntries
  <2> HIDE DEF manifest
  <2>2. ManifestCap \in Nat
    BY AssetsAssumption
  <2>3. \A i \in DOMAIN manifest : i > 1 => i - 1 \in DOMAIN manifest /\ i - 1 < i
    BY <2>1, <2>2
  <2>. QED
    BY <1>1, <2>1, <2>3 DEF Decodes
<1>3. PICK n \in Nat : \E inline :
         /\ DOMAIN car = 1..(n + 1) /\ car[1] = Section("dag-cbor", manifest)
         /\ \A i \in 1..n : /\ car[i + 1] = Section("raw", inline[i])
                            /\ inline[i] \in Contents /\ Size[inline[i]] <= RawCap
         /\ \A i, j \in 1..n : inline[i] = inline[j] => i = j
  BY CarIs
<1>4. PICK inline :
         /\ DOMAIN car = 1..(n + 1) /\ car[1] = Section("dag-cbor", manifest)
         /\ \A i \in 1..n : /\ car[i + 1] = Section("raw", inline[i])
                            /\ inline[i] \in Contents /\ Size[inline[i]] <= RawCap
         /\ \A i, j \in 1..n : inline[i] = inline[j] => i = j
  BY <1>3
<1> HIDE DEF manifest, car
<1>5. car[1].key = manifest /\ car[1].codec = "dag-cbor"
  BY <1>4 DEF Section
<1>6. ASSUME NEW i \in 1..(n + 1), i # 1
      PROVE  /\ i - 1 \in 1..n /\ car[i].key = inline[i - 1] /\ car[i].codec = "raw"
             /\ car[i].bytes = inline[i - 1] /\ inline[i - 1] \in Contents /\ Size[inline[i - 1]] <= RawCap
  <2>1. i - 1 \in 1..n /\ i - 1 + 1 = i
    BY <1>6
  <2>2. car[i] = Section("raw", inline[i - 1])
    BY <1>4, <2>1
  <2>. QED
    BY <1>4, <2>1, <2>2 DEF Section
<1>7. \A i \in DOMAIN car : \/ car[i].codec = "raw" /\ (car[i].bytes \in Contents => Size[car[i].bytes] <= RawCap)
                            \/ car[i].codec = "dag-cbor"
  BY <1>4, <1>5, <1>6
<1>8. ASSUME NEW i \in DOMAIN car, NEW j \in DOMAIN car, car[i].key = car[j].key PROVE i = j
  <2>1. i \in 1..(n + 1) /\ j \in 1..(n + 1)
    BY <1>4
  <2>2. CASE i = 1 /\ j # 1
    BY <1>1, <1>5, <1>6, <1>8, <2>1, <2>2 DEF manifest
  <2>3. CASE i # 1 /\ j = 1
    BY <1>1, <1>5, <1>6, <1>8, <2>1, <2>3 DEF manifest
  <2>4. CASE i # 1 /\ j # 1
    <3>1. i - 1 \in 1..n /\ j - 1 \in 1..n /\ inline[i - 1] = inline[j - 1]
      BY <1>6, <1>8, <2>1, <2>4
    <3>2. i - 1 = j - 1
      BY <1>4, <3>1
    <3>. QED
      BY <2>1, <3>2
  <2>. QED
    BY <2>2, <2>3, <2>4
<1>9. ParseCarBag(car) = ToSet(car)
  BY <1>7, <1>8 DEF ParseCarBag
<1>10. car[1] \in ToSet(car)
  BY <1>4 DEF ToSet
<1>. QED
  BY <1>2, <1>4, <1>9, <1>10 DEF manifest, car

(***************************************************************************)
(* The invariant.                                                          *)
(***************************************************************************)
States == {"idle", "rooting", "hashing", "fetching", "ended"}

StateOK ==
  /\ promise \in Loads \cup {0}
  /\ load \in [Loads -> {"none", "loading", "loaded", "failed"}]
  /\ joined \in [Reads -> Loads \cup {0}]
  /\ read \in [Reads -> States]
  /\ DOMAIN result = Reads
  /\ \A r \in Reads : read[r] # "ended" => result[r] = None

\* Loads begin in the order of their numbers, one at a time.
LoadInv ==
  /\ \E n \in Loads \cup {0} : \A k \in Loads : load[k] # "none" <=> k <= n
  /\ promise # 0 => load[promise] # "none"
  /\ \A k \in Loads : load[k] = "loading" => promise = k /\ ~Memo
  /\ \A r \in Reads : joined[r] # 0 => load[joined[r]] # "none"
  /\ \A r \in Reads : result[r] = "no root" => joined[r] # 0 /\ promise # joined[r]

\* A read that looks for its file's bytes has an entry, and returns what that names.
FileInv ==
  /\ packed \in {PackAssets(d) : d \in {x \in Directories : Packs(x)}}
  /\ \A r \in Reads : read[r] \in {"hashing", "fetching"} => \E e \in Entries : e.path = asked[r]
  /\ \A r \in Reads : result[r] \notin Why => \E e \in Entries : e.path = asked[r] /\ result[r] = e.src

IInv == StateOK /\ LoadInv /\ FileInv

\* An entry of the manifest names a file's bytes, which are no reason why.
LEMMA EntrySrc ==
  ASSUME FileInv, NEW e \in Entries
  PROVE  e.src \notin Why
BY PackedEntries, BundleAssumption DEF FileInv, Entries, Manifest

\* The entry a read with one takes.
LEMMA EntryOfRead ==
  ASSUME NEW r \in Reads, \E e \in Entries : e.path = asked[r]
  PROVE  EntryOf(r) \in Entries /\ EntryOf(r).path = asked[r]
BY DEF EntryOf

LEMMA InitInv == Init => IInv
<1> SUFFICES ASSUME Init PROVE IInv
  OBVIOUS
<1>1. StateOK
  BY DEF Init, StateOK, States
<1>2. \A k \in Loads : load[k] = "none" /\ ~(k <= 0)
  BY BundleAssumption DEF Init, Loads
<1>3. \A r \in Reads : joined[r] = 0 /\ read[r] = "idle" /\ result[r] = None
  BY DEF Init
<1>4. LoadInv
  BY <1>2, <1>3 DEF Init, LoadInv, None
<1>5. FileInv
  BY <1>3 DEF Init, FileInv, Why
<1>. QED
  BY <1>1, <1>4, <1>5 DEF IInv

\* A step that only ends read r, for a reason that is true of it or with what
\* its entry names, keeps the invariant.
LEMMA EndInv ==
  ASSUME IInv, NEW r \in Reads, NEW how,
         read' = [read EXCEPT ![r] = "ended"], result' = [result EXCEPT ![r] = how],
         UNCHANGED <<packed, asked, promise, load, bag, joined>>,
         how = "no root" => joined[r] # 0 /\ promise # joined[r],
         how \notin Why => \E e \in Entries : e.path = asked[r] /\ how = e.src
  PROVE  IInv'
<1>1. /\ DOMAIN result = Reads
      /\ \A s \in Reads : s # r => read'[s] = read[s] /\ result'[s] = result[s]
      /\ read'[r] = "ended" /\ result'[r] = how
  BY DEF IInv, StateOK
<1>2. Loads' = Loads /\ Memo' = Memo /\ Entries' = Entries
  BY DEF Loads, Memo, Entries, Manifest
<1>3. StateOK'
  <2>1. read' \in [Reads -> States] /\ DOMAIN result' = Reads
    BY DEF IInv, StateOK, States
  <2>2. \A s \in Reads : read'[s] # "ended" => result'[s] = None
    BY <1>1 DEF IInv, StateOK
  <2>. QED
    BY <1>2, <2>1, <2>2 DEF IInv, StateOK
<1>4. LoadInv'
  BY <1>1, <1>2 DEF IInv, LoadInv
<1>5. FileInv'
  BY <1>1, <1>2 DEF IInv, FileInv
<1>. QED
  BY <1>3, <1>4, <1>5 DEF IInv

\* A step that moves read r on, to look for its bytes only if it has an entry.
LEMMA MoveInv ==
  ASSUME IInv, NEW r \in Reads, NEW at \in States, read[r] # "ended", at # "ended",
         read' = [read EXCEPT ![r] = at],
         UNCHANGED <<packed, asked, promise, load, bag, joined, result>>,
         at \in {"hashing", "fetching"} => \E e \in Entries : e.path = asked[r]
  PROVE  IInv'
<1>1. /\ \A s \in Reads : s # r => read'[s] = read[s]
      /\ read'[r] = at
  BY DEF IInv, StateOK
<1>2. Loads' = Loads /\ Memo' = Memo /\ Entries' = Entries
  BY DEF Loads, Memo, Entries, Manifest
<1>3. StateOK'
  <2>1. read' \in [Reads -> States]
    BY DEF IInv, StateOK
  <2>2. \A s \in Reads : read'[s] # "ended" => result'[s] = None
    BY <1>1 DEF IInv, StateOK
  <2>. QED
    BY <1>2, <2>1, <2>2 DEF IInv, StateOK
<1>4. LoadInv'
  BY <1>1, <1>2 DEF IInv, LoadInv
<1>5. FileInv'
  BY <1>1, <1>2 DEF IInv, FileInv
<1>. QED
  BY <1>3, <1>4, <1>5 DEF IInv

LEMMA LoadKeeps ==
  ASSUME IInv, NEW k \in Loads, NEW l \in Locs, NEW body, Load(k, l, body)
  PROVE  IInv'
<1>1. load[k] = "loading" /\ promise = k
  BY DEF IInv, LoadInv, Load
<1>2. Loads' = Loads /\ Entries' = Entries
  BY DEF Loads, Entries, Manifest, Load
<1>3. CASE body # Dead /\ Accepted(body)
  <2>1. load' = [load EXCEPT ![k] = "loaded"] /\ UNCHANGED <<packed, asked, promise, read, joined, result>>
    BY <1>3 DEF Load
  <2>2. \A j \in Loads : load'[j] = IF j = k THEN "loaded" ELSE load[j]
    BY <2>1 DEF IInv, StateOK
  <2>3. \A j \in Loads : load'[j] # "loading"
    BY <1>1, <2>2 DEF IInv, LoadInv
  <2>4. \A j \in Loads : load'[j] # "none" <=> load[j] # "none"
    BY <1>1, <2>2
  <2>5. StateOK'
    BY <1>2, <2>1 DEF IInv, StateOK
  <2>6. LoadInv'
    BY <1>2, <2>1, <2>3, <2>4 DEF IInv, StateOK, LoadInv
  <2>7. FileInv'
    BY <1>2, <2>1 DEF IInv, FileInv
  <2>. QED
    BY <2>5, <2>6, <2>7 DEF IInv
<1>4. CASE ~(body # Dead /\ Accepted(body))
  BY <1>2, <1>4 DEF Load, IInv, StateOK, LoadInv, FileInv, Memo
<1>. QED
  BY <1>3, <1>4

LEMMA FailKeeps ==
  ASSUME IInv, NEW k \in Loads, FailLoad(k)
  PROVE  IInv'
<1>1. load[k] = "loading"
  BY DEF FailLoad
<1>2. Loads' = Loads /\ Entries' = Entries /\ Memo' = Memo
  BY DEF Loads, Entries, Manifest, FailLoad, Memo
<1>3. load' = [load EXCEPT ![k] = "failed"] /\ UNCHANGED <<packed, asked, promise, bag, read, joined, result>>
  BY DEF FailLoad
<1>4. \A j \in Loads : load'[j] = IF j = k THEN "failed" ELSE load[j]
  BY <1>3 DEF IInv, StateOK
<1>5. \A j \in Loads : /\ load'[j] = "loading" => load[j] = "loading"
                       /\ load'[j] # "none" <=> load[j] # "none"
  BY <1>1, <1>4
<1>6. StateOK'
  BY <1>2, <1>3 DEF IInv, StateOK
<1>7. LoadInv'
  BY <1>2, <1>3, <1>5 DEF IInv, StateOK, LoadInv
<1>8. FileInv'
  BY <1>2, <1>3 DEF IInv, FileInv
<1>. QED
  BY <1>6, <1>7, <1>8 DEF IInv

LEMMA ForgetKeeps ==
  ASSUME IInv, Forget
  PROVE  IInv'
BY DEF Forget, IInv, StateOK, LoadInv, FileInv, Memo, Loads, Entries, Manifest

\* The load a read begins is none that any read has joined.
LEMMA StartKeeps ==
  ASSUME IInv, NEW r \in Reads, Start(r)
  PROVE  IInv'
<1> DEFINE begun == {j \in Loads : load[j] # "none"}
           k == Cardinality(begun) + 1
           begins == ~Memo /\ promise = 0
<1>1. Loads' = Loads /\ Entries' = Entries /\ Memo' = Memo
  BY DEF Loads, Entries, Manifest, Start, Memo
<1>2. PICK n \in Loads \cup {0} : \A j \in Loads : load[j] # "none" <=> j <= n
  BY DEF IInv, LoadInv
<1>3. k = n + 1
  <2>1. begun = 1..n
    BY <1>2, BundleAssumption DEF Loads
  <2>2. n \in Nat
    BY <1>2, BundleAssumption DEF Loads
  <2>3. Cardinality(1..n) = n
    BY <2>2, FS_Interval
  <2>. QED
    BY <2>1, <2>3
<1>4. read[r] = "idle" /\ result[r] = None
  BY DEF Start, IInv, StateOK
<1>5. /\ read' = [read EXCEPT ![r] = "rooting"]
      /\ joined' = [joined EXCEPT ![r] = IF Memo THEN 0 ELSE promise']
      /\ UNCHANGED <<packed, asked, bag, result>>
  BY DEF Start
<1>6. FileInv'
  BY <1>1, <1>5 DEF IInv, StateOK, FileInv
<1>7. /\ \A s \in Reads : s # r => joined'[s] = joined[s] /\ read'[s] = read[s]
      /\ joined'[r] = IF Memo THEN 0 ELSE promise'
      /\ read'[r] = "rooting" /\ result[r] # "no root"
  BY <1>4, <1>5 DEF IInv, StateOK, None
<1>8. CASE ~begins
  <2>1. promise' = promise /\ load' = load
    BY <1>8 DEF Start
  <2>2. StateOK'
    BY <1>1, <1>4, <1>5, <1>7, <2>1 DEF IInv, StateOK, States
  <2>3. LoadInv'
    BY <1>1, <1>5, <1>7, <2>1 DEF IInv, StateOK, LoadInv
  <2>. QED
    BY <1>6, <2>2, <2>3 DEF IInv
<1>9. CASE begins
  <2>1. k \in Loads /\ promise' = k /\ load' = [load EXCEPT ![k] = "loading"]
    BY <1>9 DEF Start
  <2> HIDE DEF k
  <2>2. load[k] = "none"
    BY <1>2, <1>3, <2>1, BundleAssumption DEF Loads
  <2>3. \A j \in Loads : load'[j] = IF j = k THEN "loading" ELSE load[j]
    BY <2>1 DEF IInv, StateOK
  <2>4. \A j \in Loads : load'[j] # "none" <=> j <= k
    BY <1>2, <1>3, <2>1, <2>3, BundleAssumption DEF Loads
  <2>5. \A j \in Loads : load'[j] = "loading" => j = k
    <3>1. promise = 0
      BY <1>9
    <3>2. \A j \in Loads : load[j] = "loading" => j = 0
      BY <3>1 DEF IInv, LoadInv
    <3>3. 0 \notin Loads
      BY BundleAssumption DEF Loads
    <3>. QED
      BY <2>3, <3>2, <3>3
  <2>6. \A s \in Reads : s # r /\ joined[s] # 0 => joined[s] # k /\ joined[s] \in Loads
    BY <2>2 DEF IInv, StateOK, LoadInv
  <2>7. StateOK'
    BY <1>1, <1>4, <1>5, <1>7, <2>1 DEF IInv, StateOK, States
  <2>8. k # 0
    BY <2>1, BundleAssumption DEF Loads
  <2>9. LoadInv'
    <3>1. \E m \in Loads \cup {0} : \A j \in Loads : load'[j] # "none" <=> j <= m
      BY <2>1, <2>4
    <3>2. promise' # 0 => load'[promise'] # "none"
      BY <2>1, <2>3
    <3>3. \A j \in Loads : load'[j] = "loading" => promise' = j /\ ~Memo'
      BY <1>1, <1>9, <2>1, <2>5
    <3>4. \A s \in Reads : joined'[s] # 0 => load'[joined'[s]] # "none"
      <4>1. ASSUME NEW s \in Reads, s # r, joined'[s] # 0
            PROVE  load'[joined'[s]] # "none"
        <5>1. joined'[s] = joined[s] /\ joined[s] \in Loads
          BY <1>7, <2>6, <4>1
        <5>2. load[joined[s]] # "none"
          BY <4>1, <5>1 DEF IInv, LoadInv
        <5>. QED
          BY <2>3, <5>1, <5>2
      <4>2. load'[joined'[r]] # "none"
        <5>1. joined'[r] = k
          BY <1>7, <1>9, <2>1 DEF Memo
        <5>. QED
          BY <2>1, <2>3, <5>1
      <4>. QED
        BY <4>1, <4>2
    <3>5. \A s \in Reads : result'[s] = "no root" => joined'[s] # 0 /\ promise' # joined'[s]
      BY <1>5, <1>7, <2>1, <2>6 DEF IInv, LoadInv
    <3>. QED
      BY <1>1, <3>1, <3>2, <3>3, <3>4, <3>5 DEF LoadInv
  <2>. QED
    BY <1>6, <2>7, <2>9 DEF IInv
<1>. QED
  BY <1>8, <1>9

LEMMA NextKeeps ==
  ASSUME IInv, [Next]_vars
  PROVE  IInv'
<1>1. ASSUME NEW k \in Loads, FailLoad(k) \/ \E l \in Locs : \E body \in Served \cup {Dead} : Load(k, l, body)
      PROVE  IInv'
  BY <1>1, FailKeeps, LoadKeeps
<1>2. CASE Forget
  BY <1>2, ForgetKeeps
<1>3. ASSUME NEW r \in Reads, Abort(r)
      PROVE  IInv'
  BY <1>3, EndInv DEF Abort, End, Why
<1>4. ASSUME NEW r \in Reads, RootFailed(r)
      PROVE  IInv'
  BY <1>4, EndInv DEF RootFailed, End, Told, Why
<1>5. ASSUME NEW r \in Reads, Refuse(r)
      PROVE  IInv'
  BY <1>5, EndInv DEF Refuse, End, Why
<1>6. ASSUME NEW r \in Reads, Resolve(r)
      PROVE  IInv'
  <2>1. \E e \in Entries : e.path = asked[r]
    BY <1>6 DEF Resolve
  <2>2. read[r] # "ended" /\ UNCHANGED <<packed, asked, promise, load, bag, joined, result>>
    BY <1>6 DEF Resolve
  <2>3. \E at \in {"hashing", "fetching"} : read' = [read EXCEPT ![r] = at]
    BY <1>6 DEF Resolve
  <2>. QED
    BY <2>1, <2>2, <2>3, MoveInv DEF States
<1>7. ASSUME NEW r \in Reads, Serve(r)
      PROVE  IInv'
  <2>1. \E e \in Entries : e.path = asked[r]
    BY <1>7 DEF Serve, IInv, FileInv
  <2>2. EntryOf(r) \in Entries /\ EntryOf(r).path = asked[r] /\ candidate[r] = EntryOf(r).src
    BY <1>7, <2>1, EntryOfRead DEF Serve, Verifies
  <2>3. candidate[r] # "no root"
    BY <2>2, EntrySrc DEF Why, IInv
  <2>. QED
    BY <1>7, <2>2, <2>3, EndInv DEF Serve, End
<1>8. ASSUME NEW r \in Reads, Discard(r)
      PROVE  IInv'
  <2>1. \E e \in Entries : e.path = asked[r]
    BY <1>8 DEF Discard, IInv, FileInv
  <2>. QED
    BY <1>8, <2>1, MoveInv DEF Discard, States
<1>9. ASSUME NEW r \in Reads, Fetch(r)
      PROVE  IInv'
  <2>1. \E e \in Entries : e.path = asked[r]
    BY <1>9 DEF Fetch, IInv, FileInv
  <2>2. EntryOf(r) \in Entries /\ EntryOf(r).path = asked[r]
    BY <2>1, EntryOfRead
  <2>3. PICK how \in {EntryOf(r).src, "no content"} : End(r, how)
    BY <1>9 DEF Fetch
  <2>4. how # "no root" /\ (how \notin Why => how = EntryOf(r).src)
    BY <2>2, EntrySrc DEF Why, IInv
  <2>. QED
    BY <1>9, <2>2, <2>3, <2>4, EndInv DEF Fetch, End
<1>10. CASE UNCHANGED vars
  BY <1>10 DEF vars, IInv, StateOK, LoadInv, FileInv, Memo, Loads, Entries, Manifest
<1>. QED
  BY <1>1, <1>2, <1>3, <1>4, <1>5, <1>6, <1>7, <1>8, <1>9, <1>10, StartKeeps DEF Next

\* The invariant of the proofs.
THEOREM Invariance == Spec => []IInv
<1>1. IInv /\ [Next]_vars => IInv'
  BY NextKeeps
<1>. QED
  BY InitInv, <1>1, PTL DEF Spec

\* OnlyTheFile, for every directory and whatever the proof's hosts serve: a
\* read returns the bytes that the packed directory has under its path.
THEOREM ReadsTheFile == Spec => []OnlyTheFile
<1>1. IInv => OnlyTheFile
  <2> SUFFICES ASSUME IInv, NEW r \in Reads, result[r] \notin Why
               PROVE  \E d \in Directories :
                         PackAssets(d) = packed /\ asked[r] \in DOMAIN d /\ result[r] = d[asked[r]]
    BY DEF OnlyTheFile
  <2>1. PICK e \in Entries : e.path = asked[r] /\ result[r] = e.src
    BY DEF IInv, FileInv
  <2>2. PICK d \in Directories : Packs(d) /\ packed = PackAssets(d)
    BY DEF IInv, FileInv
  <2>3. e.path \in DOMAIN d /\ e.src = d[e.path]
    BY <2>2, PackedEntries DEF Entries, Manifest
  <2>. QED
    BY <2>1, <2>2, <2>3
<1>. QED
  BY <1>1, Invariance, PTL

\* RootIsRetriedOnce, for every number of reads and loads: no read joins a load
\* whose failure a caller was told of, and a root once loaded is not loaded again.
THEOREM RootIsLoadedOnce == Spec => []RootIsRetriedOnce
<1>1. IInv => RootIsRetriedOnce
  BY DEF IInv, LoadInv, RootIsRetriedOnce
<1>. QED
  BY <1>1, Invariance, PTL

\* What a host that serves the packed proof is answered with is accepted.
LEMMA ServesAccepted ==
  ASSUME IInv
  PROVE  Accepted(Block) /\ Accepted(Car(packed.car)) /\ Block # Dead /\ Car(packed.car) # Dead
<1>1. PICK d \in Directories : Packs(d) /\ packed = PackAssets(d)
  BY DEF IInv, FileInv
<1>2. Decodes(Manifest) /\ Section("dag-cbor", Manifest) \in ParseCarBag(packed.car)
  BY <1>1, PackedIsParsed DEF Manifest
<1> DEFINE s == Section("dag-cbor", Manifest)
<1>3. s.key = Manifest /\ s.codec = "dag-cbor" /\ s.bytes = Manifest
  BY DEF Section
<1>4. s \in ParseProof(Block)
  BY DEF ParseProof, Block
<1>5. s \in ParseProof(Car(packed.car))
  <2>1. ParseProof(Car(packed.car)) = ParseCarBag(packed.car)
    BY DEF ParseProof, Car
  <2>. QED
    BY <1>2, <2>1
<1>6. Block # Dead /\ Car(packed.car) # Dead
  BY DEF Block, Car, Dead
<1> HIDE DEF s
<1>. QED
  BY <1>2, <1>3, <1>4, <1>5, <1>6 DEF Accepted

\* PackedIsAccepted holds in every state: what `pack assets` makes of a directory
\* (tools/pack.ts) is taken by the client (proof-source.ts, car.ts, manifest.ts), for
\* any files, shared or not, walked and keyed in any orders, within the budget or not.
THEOREM PackedIsTaken == Spec => []PackedIsAccepted
<1> DEFINE Taken == PackedIsAccepted /\ DOMAIN tried = Locs
<1>1. Init => Taken
  <2>1. Block # Unasked /\ \A sections : Car(sections) # Unasked
    BY DEF Block, Car, Unasked
  <2>. QED
    BY <2>1 DEF Init, PackedIsAccepted
<1>2. IInv /\ Taken /\ [Next]_vars => Taken'
  <2> SUFFICES ASSUME IInv, Taken, [Next]_vars PROVE Taken'
    OBVIOUS
  <2>1. packed' = packed /\ Block' = Block
    BY DEF Next, vars, Load, FailLoad, Forget, Start, Abort, RootFailed, Refuse, Resolve, Serve, Discard, Fetch,
           Block, Manifest
  <2>2. CASE tried' = tried
    BY <2>1, <2>2 DEF PackedIsAccepted, Car
  <2>3. CASE \E r \in Reads : Start(r)
    <3>1. DOMAIN tried' = Locs /\ \A l \in Locs : tried'[l] = tried[l] \/ tried'[l] = Unasked
      BY <2>3 DEF Start
    <3>2. Block # Unasked /\ \A sections : Car(sections) # Unasked
      BY DEF Block, Car, Unasked
    <3>. QED
      BY <2>1, <3>1, <3>2 DEF PackedIsAccepted, Car
  <2>4. CASE \E k \in Loads, l \in Locs : \E body \in Served \cup {Dead} : Load(k, l, body)
    <3>1. PICK k \in Loads, l \in Locs, body \in Served \cup {Dead} : Load(k, l, body)
      BY <2>4
    <3>2. CASE body # Dead /\ Accepted(body)
      <4>1. tried' = tried
        BY <3>1, <3>2 DEF Load
      <4>. QED
        BY <2>2, <4>1
    <3>3. CASE ~(body # Dead /\ Accepted(body))
      <4>1. body \notin {Block, Car(packed.car)}
        BY <3>3, ServesAccepted
      <4>2. \A m \in Locs : tried'[m] = tried[m] \/ tried'[m] = body
        <5>1. tried' = [tried EXCEPT ![l] = body]
          BY <3>1, <3>3 DEF Load
        <5>. QED
          BY <5>1
      <4>3. DOMAIN tried' = Locs
        BY <3>1, <3>3 DEF Load
      <4>. QED
        BY <2>1, <4>1, <4>2, <4>3 DEF PackedIsAccepted, Car
    <3>. QED
      BY <3>2, <3>3
  <2>5. tried' = tried \/ (\E r \in Reads : Start(r))
        \/ \E k \in Loads, l \in Locs : \E body \in Served \cup {Dead} : Load(k, l, body)
    BY DEF Next, vars, FailLoad, Forget, Abort, RootFailed, Refuse, Resolve, Serve, Discard, Fetch
  <2>. QED
    BY <2>2, <2>3, <2>4, <2>5
<1>. QED
  BY <1>1, <1>2, Invariance, PTL DEF Spec

=============================================================================
