-------------------------- MODULE PackingInvariants --------------------------
(***************************************************************************)
(* What the proofs about Packing speak of: the inductive invariants of its *)
(* runs, and what is shown of a tree, of its files and of a client's reads *)
(* on the way.  The proofs are in PackingProofs, in the same order.        *)
(***************************************************************************)
EXTENDS Packing

Writing == {"open", "proofs", "car", "rename"}
Begun == {"mkdir", "alias"} \cup Writing

\* No file this run writes is its input.
NotInput ==
  /\ \A i \in 1..Len(packed.files) : packed.files[i].path # alias
  /\ HasCar => alias # CarTmp

InputInv ==
  /\ next \in Nat \ {0} /\ runs \in Nat
  /\ phase \in Writing => NotInput
  /\ phase = "open" \/ opened => HasCar
  /\ phase = "start" /\ job \notin DiskJobs => DOMAIN disk = {}

CarInv ==
  /\ phase \in Begun => job \in DiskJobs
  /\ phase \in {"start", "mkdir", "alias", "open"} => ~opened
  /\ phase \in {"car", "rename"} => opened
  /\ phase = "rename" => tmp = PostOrder(job.car)
  /\ phase \in {"done", "failed"} /\ opened => tmp = None
  /\ car # None => \E j \in DiskJobs : j.car # NoCar /\ car = PostOrder(j.car)

IInv == InputInv /\ CarInv

(***************************************************************************)
(* The input.                                                              *)
(***************************************************************************)

Untouched ==
  runs' = runs =>
    /\ alias \in DOMAIN disk => disk'[alias] = disk[alias]
    /\ alias = CarTmp => tmp' = tmp

-----------------------------------------------------------------------------
(***************************************************************************)
(* Ranges in order, and those of them that overlap [start, end).           *)
(***************************************************************************)
\* The sums of consecutive lengths.
Sums(f, s, m) == f = [i \in 1..m |-> IF i = 1 THEN 0 ELSE f[i - 1] + s[i - 1].length]

Lengths(s) == s \in Seq(ToSet(s)) /\ \A i \in DOMAIN s : s[i].length \in Nat \ {0}

Ascends(p, n) == \A i, j \in 1..n : i < j => p[i] < p[j]

IsSeq(q) == q \in Seq(ToSet(q))

\* Of the ranges between consecutive places of p, those that overlap [start, end)
\* are consecutive, and reach both ends of it.
Windowed(p, n, start, end) ==
  \E lo, hi \in 1..n :
     /\ lo <= hi
     /\ {i \in 1..n : p[i + 1] > start /\ p[i] < end} = lo..hi
     /\ lo = 1 \/ p[lo] <= start
     /\ hi = n \/ p[hi + 1] >= end

(***************************************************************************)
(* What covers a range asked for.                                          *)
(***************************************************************************)

IsRange(r) == r.offset \in Nat /\ r.length \in Nat \ {0}

\* The ranges of g follow one another, none of them outside [start, end), and
\* reach as far to both its sides as from..to does.
Covers(g, from, to, start, end) ==
  /\ IsSeq(g) /\ Len(g) # 0
  /\ \A i \in DOMAIN g : IsRange(g[i]) /\ Overlaps(g[i], start, end)
  /\ \A i \in 2..Len(g) : g[i].offset = End(g[i - 1])
  /\ g[1].offset >= from /\ (g[1].offset = from \/ g[1].offset <= start)
  /\ End(g[Len(g)]) <= to /\ (End(g[Len(g)]) = to \/ End(g[Len(g)]) >= end)

(***************************************************************************)
(* FlattenSeq joins one sequence after the other.                          *)
(***************************************************************************)

Joins(f, seqs, m) == f = [i \in 1..m |-> IF i = 1 THEN seqs[i] ELSE f[i - 1] \o seqs[i]]

(***************************************************************************)
(* The client's descent.                                                   *)
(***************************************************************************)

\* The entries at each depth, as CoveringShards computes them.
Covering(f, top, size, start, end, store, m) ==
  f = [depth \in 0..m |-> IF depth = 0 THEN Entries(TopDir(top, size), start, end)
                                       ELSE Descend(f[depth - 1], start, end, store)]

-----------------------------------------------------------------------------
(***************************************************************************)
(* The CAR: a DAG's post-order, each block at its first place in it.       *)
(***************************************************************************)
\* The elements of s, each where it is first, by UniqueBy.
Kept(f, s, m) ==
  f = [n \in 0..m |->
         LET before == f[n - 1]
         IN  IF n = 0 THEN <<>>
             ELSE IF \E i \in DOMAIN before : before[i] = s[n] THEN before
             ELSE Append(before, s[n])]

\* u has each element of s's first m once, in the order they first occur there.
Firsts(u, s, m) ==
  /\ \A i, j \in DOMAIN u : u[i] = u[j] => i = j
  /\ \A y \in 1..m : \E i \in DOMAIN u : u[i] = s[y]
  /\ \A i \in DOMAIN u : \E z \in 1..m : s[z] = u[i] /\ \A y \in 1..(z - 1) : \E w \in 1..(i - 1) : u[w] = s[y]

IsDag(dag) ==
  /\ dag \in Seq(Seq(Nat))
  /\ \A b \in DOMAIN dag : ToSet(dag[b]) \subseteq (b + 1)..Len(dag)
  /\ \A b \in 2..Len(dag) : \E a \in DOMAIN dag : b \in ToSet(dag[a])

\* Every block of v comes after those it links to.
KidsFirst(dag, v) ==
  /\ v \in Seq(DOMAIN dag)
  /\ \A x \in DOMAIN v : \A i \in DOMAIN dag[v[x]] : \E y \in 1..(x - 1) : v[y] = dag[v[x]][i]

\* What PostOrder visits from each block.
Visits(visit, dag) ==
  visit = [b \in DOMAIN dag |-> Append(FlattenSeq([i \in DOMAIN dag[b] |-> visit[dag[b][i]]]), b)]

-----------------------------------------------------------------------------
(***************************************************************************)
(* The tree of a pack says what is true of its leaves.  First, runs of     *)
(* consecutive indices, and the subdirectories of a directory.             *)
(***************************************************************************)
\* Consecutive runs g of 1..n, from a to b.
Runs(g, c, a, b) ==
  /\ DOMAIN g = 1..c
  /\ \A k \in 1..c : g[k][1] \in a..b /\ g[k][2] \in g[k][1]..b
  /\ \A k \in 1..c : k < c => g[k + 1][1] = g[k][2] + 1
  /\ c # 0 => g[1][1] = a /\ g[c][2] = b

\* The subdirectories of the directory of a..b hold the shards from rest on.
NestsFrom(a, b, rest) ==
  \E c \in Nat : /\ Runs(Nested(a, b), c, rest, b) /\ (c = 0 <=> rest = b + 1)
                 /\ c + HeadCount(b - a + 1) <= MetaMaxEntries
                 /\ \A k \in 1..c : Nested(a, b)[k] = <<Nested(a, b)[k][1], Nested(a, b)[k][2]>>

(***************************************************************************)
(* What a tree says of a file.  T is a set of <<kind, offset, length,      *)
(* digest>>; the records s say what T does of the range from x to y.       *)
(***************************************************************************)

LinedAt(s, T, q, x, y) ==
  /\ q[1] = x /\ q[Len(s) + 1] = y
  /\ \A i \in 1..Len(s) : /\ s[i].length \in Nat \ {0} /\ q[i + 1] = q[i] + s[i].length
                          /\ <<s[i].kind, q[i], s[i].length, s[i].digest>> \in T

Lined(s, T, x, y) == IsSeq(s) /\ \E q \in [1..(Len(s) + 1) -> Nat] : LinedAt(s, T, q, x, y)

\* Shards, or leaves, that are at r, one after the other.
Placed(shards, r) ==
  /\ IsSeq(shards) /\ r \in [1..(Len(shards) + 1) -> Nat]
  /\ \A k \in 1..Len(shards) : shards[k].length \in Nat \ {0} /\ r[k + 1] = r[k] + shards[k].length

-----------------------------------------------------------------------------
(***************************************************************************)
(* What emitDir emits, by the directory it is called for.                  *)
(***************************************************************************)
\* What EmitDir emits for each directory of the shards.
EmitBody(f, shards, r) ==
  LET nested == Nested(r[1], r[2])
      head == SubSeq(shards, r[1], r[1] + HeadCount(r[2] - r[1] + 1) - 1)
      Group(k) == SubSeq(shards, nested[k][1], nested[k][2])
  IN  [files |-> FlattenSeq([k \in DOMAIN nested |-> Under(Group(k), f[nested[k]])])
                     \o ShardFiles(head),
       meta |-> ShardRecords(head)
                     \o [k \in DOMAIN nested |-> DirRecord(Group(k), f[nested[k]].meta)]]

Emits(f, shards) ==
  f = [r \in (1..Len(shards)) \X (1..Len(shards)) |-> EmitBody(f, shards, r)]

\* The shard t is the leaves of D, at p, from one to another.
ShardOf(D, p, t) ==
  \E a, b \in 1..Len(D) : /\ a <= b /\ t[2] = p[a] /\ t[3] = p[b + 1] - p[a]
                          /\ t[4] = EncodeShard(SubSeq(D, a, b))

\* All that T says is true of D.
TrueOf(T, D, p) ==
  \A t \in T : \/ t[1] = Shard /\ ShardOf(D, p, t)
               \/ t[1] = Dir /\ t[2] \in Nat /\ t[3] \in Nat /\ Lined(t[4], T, t[2], t[2] + t[3])

-----------------------------------------------------------------------------
(***************************************************************************)
(* Sequences cut into consecutive runs: bands, shards, directories.        *)
(***************************************************************************)
\* Where c runs of 1..n begin.
Begins(firsts, c, n) ==
  /\ c \in Nat \ {0} /\ DOMAIN firsts = 1..c /\ Len(firsts) = c /\ firsts[1] = 1
  /\ \A k \in 1..c : firsts[k] \in 1..n
  /\ \A k \in 1..c : k < c => firsts[k] < firsts[k + 1]

\* s is cut into c runs g.
CutInto(parts, s, c, g) ==
  /\ c \in Nat \ {0} /\ Runs(g, c, 1, Len(s)) /\ IsSeq(parts) /\ Len(parts) = c
  /\ \A k \in 1..c : parts[k] = SubSeq(s, g[k][1], g[k][2])

\* Where the shards of the first i leaves begin, for every i.
FirstsOf(F, leaves) ==
  /\ \A i \in 0..Len(leaves) :
       F[i] = IF i <= 1 THEN <<1>>
              ELSE IF FitsShard(leaves, Last(F[i - 1]), i) THEN F[i - 1] ELSE Append(F[i - 1], i)
  /\ \A i \in 1..Len(leaves) : F[i] \in Seq(Nat) /\ \E c : Begins(F[i], c, i)

-----------------------------------------------------------------------------
(***************************************************************************)
(* The leaves of a file, and the shards of a band of them.                 *)
(***************************************************************************)
\* D are the leaves of a file, at p.
IsLine(D, p) == Placed(D, p) /\ Len(D) # 0 /\ \A i \in 1..Len(D) : D[i].offset = p[i]

\* The shards of the leaves from lo to hi, at r.
GroupsAt(shards, r, D, p, lo, hi) ==
  /\ Placed(shards, r) /\ r[1] = p[lo] /\ r[Len(shards) + 1] = p[hi + 1]
  /\ \A k \in 1..Len(shards) : /\ shards[k].start = r[k]
                               /\ ShardOf(D, p, <<Shard, r[k], shards[k].length, shards[k].content>>)

-----------------------------------------------------------------------------
(***************************************************************************)
(* The directories a band becomes, and what the entries placed so far say. *)
(***************************************************************************)
\* q is the part a..b of s, and is placed where that is.
PartOf(q, s, r, a, b) ==
  LET m == b - a + 1
  IN  /\ Len(q) = m
      /\ \E p : /\ Placed(q, p) /\ p[1] = r[a] /\ p[m + 1] = r[b + 1]
                /\ \A i \in 1..m : p[i] = r[a + i - 1] /\ q[i] = s[a + i - 1] /\ a + i - 1 \in 1..Len(s)

\* The entries say what is true of D up to x.
Says(entries, D, p, x) == \E T : TrueOf(T, D, p) /\ Lined(entries, T, p[1], x)

-----------------------------------------------------------------------------
(***************************************************************************)
(* All the bands, and what pack makes of a cut.                            *)
(***************************************************************************)
\* The bands placed one after the other.
Placing(f, bands) ==
  f = [n \in 0..Len(bands) |->
         IF n = 0 THEN [files |-> <<>>, entries |-> <<>>, later |-> Len(bands)]
         ELSE PlaceBand(f[n - 1], bands[n])]

\* Digests are added leaf by leaf.
PartDigested(f, s, a, b) == Digested(f, SubSeq(s, a, b)) = SubSeq(Digested(f, s), a, b)

-----------------------------------------------------------------------------
(***************************************************************************)
(* Finite sets of numbers in order.                                        *)
(***************************************************************************)
\* S has an element of every rank in the order R.
Ranked(S, R) == \A k \in 1..Cardinality(S) : \E x \in S : Cardinality({y \in S : <<y, x>> \in R}) = k - 1

-----------------------------------------------------------------------------
(***************************************************************************)
(* The client: what it is given of a tree that speaks the truth, whatever  *)
(* the proof files are, is true.                                           *)
(***************************************************************************)
\* An entry of the client's says what T does, if it says anything.
Told(e, T) == e.kind = Broken \/ <<e.kind, e.offset, e.length, e.digest>> \in T

AllTold(es, T) == IsSeq(es) /\ \A i \in DOMAIN es : Told(es[i], T)

\* Every leaf is what pack made of it.
Formed(D) == \A i \in 1..Len(D) : D[i] = [offset |-> D[i].offset, length |-> D[i].length, digest |-> D[i].digest]

-----------------------------------------------------------------------------
(***************************************************************************)
(* The cuts of every profile are a line of leaves from 0, cut into bands.  *)
(***************************************************************************)
\* The leaves s lie in a line p from 0 to size.
LineTo(s, p, size) == IsLine(s, p) /\ p[1] = 0 /\ p[Len(s) + 1] = size

\* A set of cut points: the leaves between them make one line from 0 to size.
CutsLine(S, size) == LineTo(LeavesBetween(S), Ascending(S), size)

\* The MP4 walk.
Walk(walk, f) ==
  walk = [n \in 0..Len(f.boxes) |->
            IF n = 0 THEN [at |-> 0, boxes |-> <<>>, bad |-> FALSE]
            ELSE WalkBox(f, walk[n - 1], f.boxes[n])]

\* The boxes follow one another from 0 to `at`.
Chained(boxes, at) ==
  LET n == Len(boxes)
  IN  \E p \in [1..(n + 1) -> Nat] :
         /\ p[1] = 0 /\ p[n + 1] = at
         /\ \A i \in 1..n : /\ boxes[i].offset = p[i] /\ boxes[i].length \in Nat \ {0}
                          /\ p[i + 1] = p[i] + boxes[i].length

\* Cut points from 0 to l.
PointsTo(S, l) == S \in SUBSET Nat /\ IsFiniteSet(S) /\ 0 \in S /\ l \in S /\ \A y \in S : y <= l

\* Ranges that end at M or before.
Ranges(T, M) == {r \in [offset : Nat, length : Nat, tileId : T] : End(r) <= M}

\* The elements of s, each range where it is first, by UniqueBy.
KeptRanges(f, s, m) ==
  f = [n \in 0..m |->
         LET before == f[n - 1]
         IN  IF n = 0 THEN <<>>
             ELSE IF \E i \in DOMAIN before : <<before[i].offset, before[i].length>> = <<s[n].offset, s[n].length>>
                  THEN before
             ELSE Append(before, s[n])]

Groups(g, tiles, budget) ==
  g = [n \in 0..Len(tiles) |-> IF n = 0 THEN <<>> ELSE GroupedWith(g[n - 1], tiles[n], budget)]

\* h[i] are the groups of the first i tiles.
GroupingOf(h, tiles, budget, B) ==
  /\ tiles \in Seq(B) /\ h[0] = <<>>
  /\ \A i \in 1..Len(tiles) : h[i] = GroupedWith(h[i - 1], tiles[i], budget)
  /\ \A i \in 0..Len(tiles) : h[i] \in Seq(B)

SortedFrom(tiles, ranges) == \A i \in 1..Len(ranges) : \E k \in 1..Len(tiles) : tiles[k] = ranges[i]

\* h are the groups of these ranges, tiles the ranges in order.
Grouping(h, tiles, ranges, budget, B) ==
  /\ GroupingOf(h, tiles, budget, B) /\ SortedFrom(tiles, ranges)
  /\ GroupedTileRanges(ranges, budget) = h[Len(tiles)]

\* The leaves are a line over the file, and the bands are cut from them.
IsCut(cut, size) ==
  \E p, c, g : LineTo(cut.leaves, p, size) /\ CutInto(cut.bands, cut.leaves, c, g)

-----------------------------------------------------------------------------
(***************************************************************************)
(* Every anchor is that of a pack of some job (PacksInv).                  *)
(***************************************************************************)
\* A pack of some job.
GoodPack(pack) == pack.ok /\ \E j \in MemoryJobs \cup DiskJobs : pack = Pack(j)

(***************************************************************************)
(* What was packed, and what was printed.                                  *)
(***************************************************************************)

PacksInv ==
  phase # "published" =>
    /\ job \in MemoryJobs \cup DiskJobs
    /\ packed.ok => GoodPack(packed)
    /\ phase \in Begun => packed.ok
    /\ IsSeq(printed) /\ \A i \in DOMAIN printed : GoodPack(printed[i])

-----------------------------------------------------------------------------
(***************************************************************************)
(* The files of a pack, as sets: none has the path of another.             *)
(***************************************************************************)
FileAt(path, content) == [path |-> path, content |-> content]

\* The files of a directory, F of them below it, and its meta.
UnderSet(name, F, meta) ==
  {FileAt(<<name>> \o u.path, u.content) : u \in F} \cup {FileAt(<<name, Meta>>, meta)}

\* The files F have paths that begin from x to y, one content each, and metas
\* within their cap.
Filed(F, x, y) ==
  /\ \A u \in F : /\ u.path \in Seq(Int) /\ u.path # <<>>
                  /\ u.path[1] \in Nat /\ x <= u.path[1] /\ u.path[1] < y
                  /\ Last(u.path) = Meta => Len(u.content) \in 1..MetaMaxEntries
  /\ \A u, v \in F : u.path = v.path => u.content = v.content

-----------------------------------------------------------------------------
(***************************************************************************)
(* The files of a pack hold all that its tree names.  A fact of a tree is  *)
(* <<kind, path, offset, length, digest>>.                                 *)
(***************************************************************************)
\* What the facts H say of the directory at path P.
At(H, P) == {<<h[1], h[3], h[4], h[5]>> : h \in {h \in H : h[2] = Append(P, h[3])}}

\* The last leaf of a shard begins within its range.
Short(s, span) == s[Len(s)].rel < span

\* The files F hold what the fact h names, and H what it leads to.
FactHeld(h, H, F) ==
  /\ h[2] \in Seq(Int) /\ h[3] \in Nat /\ h[4] \in Nat \ {0}
  /\ \/ h[1] = Shard /\ FileAt(h[2], h[5]) \in F /\ Short(h[5], h[4])
     \/ h[1] = Dir /\ FileAt(Append(h[2], Meta), h[5]) \in F /\ Lined(h[5], At(H, h[2]), h[3], h[3] + h[4])

Held(H, F) == \A h \in H : FactHeld(h, H, F)

\* The files F, named from x to y, are a directory's whose meta is s.
Whole(F, s, x, y) == Filed(F, x, y) /\ \E H : Held(H, F) /\ Lined(s, At(H, <<>>), x, y)

\* A fact of the directory that is named n.
Shifted(n, h) == <<h[1], <<n>> \o h[2], h[3], h[4], h[5]>>

\* Shards that are placed at r, each named for where it begins.
Shelf(shards, r) ==
  /\ Placed(shards, r) /\ Len(shards) # 0
  /\ \A k \in 1..Len(shards) : shards[k].start = r[k] /\ Short(shards[k].content, shards[k].length)

\* A shelf from x up to y.
ShelfBetween(shards, x, y) == \E r : Shelf(shards, r) /\ r[1] = x /\ r[Len(shards) + 1] = y

\* The part a..b of the shelf is one.
PartShelf(q, r, a, b) == Len(q) = b - a + 1 /\ \E o : Shelf(q, o) /\ o[1] = r[a] /\ o[b - a + 2] = r[b + 1]

\* A directory of the shelf's shards from a to b.
WholeDir(E, r, a, b) ==
  IsSeq(E.files) /\ Len(E.meta) \in 1..MetaMaxEntries /\ Whole(ToSet(E.files), E.meta, r[a], r[b + 1])

\* The records, and the files, of directories E of runs g of the shards.
DirRecordsOf(s, shards, g, E, c) ==
  s = [k \in 1..c |-> DirRecord(SubSeq(shards, g[k][1], g[k][2]), E[k].meta)]

DirFilesOf(fs, shards, g, E, c) ==
  fs = FlattenSeq([k \in 1..c |-> Under(SubSeq(shards, g[k][1], g[k][2]), E[k])])

\* The parts of what is emitted for a directory, from those of its subdirectories.
EmittedOf(X, shards, g, E, c, head) ==
  \E fs, s : /\ DirFilesOf(fs, shards, g, E, c) /\ DirRecordsOf(s, shards, g, E, c)
             /\ X.files = fs \o ShardFiles(head) /\ X.meta = ShardRecords(head) \o s

-----------------------------------------------------------------------------
(***************************************************************************)
(* All the files of a pack.                                                *)
(***************************************************************************)
WholeTree(tree, x, y) == IsSeq(tree.files) /\ Whole(ToSet(tree.files), tree.entries, x, y)

-----------------------------------------------------------------------------
(***************************************************************************)
(* A client that has all the files of a pack misses none.                  *)
(***************************************************************************)
\* The store has the files F, which decode, and the client descends to them all.
Served(F, store) ==
  \A u \in F : /\ Supplies(store, u.path, u.content)
               /\ IF Last(u.path) = Meta THEN MetaEncodes(u.content) ELSE ShardEncodes(u.content)
               /\ Len(u.path) <= MaxDepth + 1

\* The entry e, d levels down, is of H.
Named(e, H, d) ==
  /\ e.kind = Dir => Len(e.path) = d
  /\ Last(e.path) = e.offset
  /\ \E h \in H : /\ e.kind = h[1] /\ e.path = h[2] /\ e.offset = h[3] /\ e.length = h[4] /\ e.digest = h[5]

AllNamed(es, H, d) == IsSeq(es) /\ \A i \in DOMAIN es : Named(es[i], H, d)

-----------------------------------------------------------------------------
(***************************************************************************)
(* The tree of a pack is whole.                                            *)
(***************************************************************************)
\* The files of pack are those of a whole tree, then its root.
PackedTree(pack, f, x, y) ==
  \E tree : /\ WholeTree(tree, x, y) /\ TreeEncodes(tree)
            /\ pack.anchor = <<f.id, f.length, tree.entries>>
            /\ pack.files = Append(tree.files, RootFile(pack.anchor))

-----------------------------------------------------------------------------
(***************************************************************************)
(* The files of a pack: the root is the last of them, and a client that    *)
(* has them all reads every range.                                         *)
(***************************************************************************)
GoodFiles(pack) ==
  LET n == Len(pack.files)
      file == pack.files
  IN  /\ IsSeq(file) /\ n \in Nat \ {0} /\ DOMAIN file = 1..n
      /\ \A i \in 1..n : file[i].path = <<Root>> <=> i = n
      /\ file[n].content = pack.anchor
      /\ \A i, k \in 1..n : file[i].path = file[k].path => file[i].content = file[k].content
      /\ \A i \in 1..n : Last(file[i].path) = Meta => Len(file[i].content) \in 1..MetaMaxEntries

\* The store supplies every file of a pack, none of them too deep.
Stocked(pack, store) ==
  \A i \in DOMAIN pack.files : /\ Supplies(store, pack.files[i].path, pack.files[i].content)
                               /\ Len(pack.files[i].path) <= MaxDepth + 1

-----------------------------------------------------------------------------
(***************************************************************************)
(* The proof files on disk: the root is written once all others are.       *)
(***************************************************************************)
\* The file i of the pack is on disk.
OnDisk(i) ==
  /\ packed.files[i].path \in DOMAIN disk
  /\ disk[packed.files[i].path] = <<packed.files[i].content>>

\* It is, unless the file being written has its path.
StillThere(i) ==
  \/ OnDisk(i)
  \/ /\ next <= Len(packed.files) /\ packed.files[i].path = Current.path
     /\ Current.path \in DOMAIN disk

Phases == {"start", "idle", "mkdir", "alias", "open", "proofs", "car", "rename",
           "done", "failed", "refused", "verify", "published"}

TypesInv ==
  /\ phase \in Phases /\ runs \in 0..MaxRuns
  /\ packed.ok \in BOOLEAN /\ opened \in BOOLEAN /\ sealed \in BOOLEAN
  /\ next \in 1..(Len(packed.files) + 1)

FilesInv ==
  /\ TypesInv
  /\ phase = "published" => ~sealed
  /\ phase # "published" =>
       /\ ~packed.ok => packed = Refused
       /\ phase \in {"start", "mkdir", "alias", "open"} => next = 1 /\ ~sealed
       /\ sealed => packed.ok /\ next = Len(packed.files) + 1 /\ \A i \in 1..Len(packed.files) : OnDisk(i)
       /\ phase = "proofs" => packed.ok /\ \A i \in 1..(next - 1) : StillThere(i)

-----------------------------------------------------------------------------
(***************************************************************************)
(* A fragment of an MP4 is one leaf.                                       *)
(***************************************************************************)
\* FragmentIsOneLeaf's fragments: a moof after segment boxes, before mdats.
FragmentAt(boxes, s, e) ==
  /\ \E m \in s..(e - 1) : /\ boxes[m].type = "moof"
                           /\ \A i \in s..(m - 1) : boxes[i].type \in SegmentBoxes
                           /\ \A i \in (m + 1)..e : boxes[i].type = "mdat"
  /\ s = 1 \/ boxes[s - 1].type \notin SegmentBoxes \cup {"moof"}
  /\ s > FirstMoof(boxes) => boxes[s - 1].type = "mdat"
  /\ e = Len(boxes) \/ boxes[e + 1].type # "mdat"

\* Where the boxes that follow the first moof are cut.
AfterMdat(boxes) ==
  {i \in (FirstMoof(boxes) + 1)..Len(boxes) : boxes[i - 1].type = "mdat" /\ boxes[i].type # "mdat"}

\* What is verified is the pack of the job.
VerifyInv ==
  phase = "verify" => job \in MemoryJobs \cup DiskJobs /\ packed = Pack(job) /\ packed.ok

\* No band of these entries became a directory.
Flat(es) == \A i \in 1..Len(es) : es[i].kind = Shard

\* t counts the shards of the first bands.
Counts(t, bands, N) ==
  /\ t \in [0..N -> Nat] /\ t[0] = 0
  /\ \A i \in 1..N : /\ Len(ShardGroups(bands[i])) \in Nat \ {0}
                     /\ IsSeq(ShardGroups(bands[i]))
                     /\ t[i] = t[i - 1] + Len(ShardGroups(bands[i]))

\* shardTotal of these bands.
TotalOf(f, bands) ==
  f = [n \in 0..Len(bands) |-> IF n = 0 THEN 0 ELSE f[n - 1] + Len(ShardRanges(bands[n]))]

TotalShards(bands) == (CHOOSE f : TotalOf(f, bands))[Len(bands)]

\* The N bands, digested.
DigestedBands(digested, f, bands, N) ==
  /\ Len(bands) = N
  /\ \A b \in 1..N : IsSeq(bands[b]) /\ Len(bands[b]) # 0 /\ digested[b] = Digested(f, bands[b])

-----------------------------------------------------------------------------
(***************************************************************************)
(* What is fetched for a tile.                                             *)
(***************************************************************************)
\* The group holds the tile, and is no larger than TilesAreCheap allows.
Holds(group, tile, budget) ==
  /\ group.offset <= tile.offset /\ End(tile) <= End(group)
  /\ group.length <= budget \/ group.length <= tile.length

InGroup(groups, tile, budget) == \E g \in 1..Len(groups) : Holds(groups[g], tile, budget)

\* x and y are among the first n positions.
Among(p, n, x, y) == (\E a \in 1..n : p[a] = x) /\ (\E z \in 1..n : p[z] = y)
=============================================================================
