------------------------------ MODULE ProofTree ------------------------------
(***************************************************************************)
(* The proof tree: how the packer lays out shards and metas                *)
(* (buildProofTree in tools/pack.ts, the encoders of proof-format.ts), and *)
(* how the client descends it (proof-index.ts and the decoders).           *)
(*                                                                         *)
(* A file's digest is its content, so equal digests are equal files.  A    *)
(* shard is a sequence of [rel, digest], a meta one of [kind, length,      *)
(* digest].  A path is the sequence of the range starts that name it: a    *)
(* shard is <<start>>, a directory's meta <<start, Meta>>, nested ones are *)
(* longer, and the descriptor is <<Root>>.                                 *)
(***************************************************************************)
EXTENDS Cuts

CONSTANTS
    MaxShardRecords,      \* MAX_SHARD_RECORDS
    MaxRelOffset,         \* MAX_REL_OFFSET
    MetaMaxEntries, TopMaxEntries, SubMetaMaxEntries,
    MaxDepth              \* bound: how deep a client descends

\* The head of a full meta must leave room for at least one directory.
ASSUME TreeAssumption ==
    /\ {MaxShardRecords, MaxRelOffset, TopMaxEntries, SubMetaMaxEntries} \subseteq Nat \ {0}
    /\ MetaMaxEntries \in Nat \ {0, 1}
    /\ TopMaxEntries <= MetaMaxEntries /\ MaxDepth \in Nat

Shard == 0
Dir == 1
Broken == 2            \* what a client makes of a file it must reject
Meta == -1
Root == -2

(***************************************************************************)
(* The packer.                                                             *)
(***************************************************************************)
FitsShard(leaves, first, i) ==
    /\ i - first < MaxShardRecords
    /\ leaves[i].offset - leaves[first].offset <= MaxRelOffset

\* Where the shards begin.
ShardFirsts(leaves) ==
    LET firsts[i \in 0..Len(leaves)] ==
          LET before == firsts[i - 1]
          IN  IF i <= 1 THEN <<1>>
              ELSE IF FitsShard(leaves, Last(before), i) THEN before ELSE Append(before, i)
    IN  firsts[Len(leaves)]

ShardRanges(leaves) == SplitAt(leaves, ShardFirsts(leaves))

EncodeShard(leaves) ==
    [i \in DOMAIN leaves |-> [rel |-> leaves[i].offset - leaves[1].offset,
                              digest |-> leaves[i].digest]]

ShardGroups(leaves) ==
    LET groups == ShardRanges(leaves)
    IN  [k \in DOMAIN groups |-> [start |-> groups[k][1].offset,
                                  length |-> SpanOf(groups[k]),
                                  content |-> EncodeShard(groups[k])]]

SplitEvenly(s, count) ==
    LET size == Len(s) \div count
        extra == Len(s) % count
    IN  SplitAt(s, [i \in 1..count |-> 1 + (i - 1) * size + (IF i - 1 < extra THEN i - 1 ELSE extra)])

ShardFiles(shards) ==
    [k \in DOMAIN shards |-> [path |-> <<shards[k].start>>, content |-> shards[k].content]]

ShardRecords(shards) ==
    [k \in DOMAIN shards |-> [kind |-> Shard, length |-> shards[k].length,
                              digest |-> shards[k].content]]

DirRecord(shards, meta) == [kind |-> Dir, length |-> SpanOf(shards), digest |-> meta]

\* The files of a directory named by its first shard, its meta last.
Under(shards, dir) ==
    LET name == shards[1].start
    IN  [i \in DOMAIN dir.files |-> [path |-> <<name>> \o dir.files[i].path, content |-> dir.files[i].content]]
            \o <<[path |-> <<name, Meta>>, content |-> dir.meta]>>

\* How many of a directory's n shards stay at its top.
HeadCount(n) == IF n > MetaMaxEntries THEN MetaMaxEntries \div 2 ELSE n

\* The first and the last shard of each subdirectory of the directory of a..b.
Nested(a, b) ==
    LET rest == a + HeadCount(b - a + 1)
        size == CeilDiv(b - rest + 1, MetaMaxEntries - HeadCount(b - a + 1))
        count == IF rest = b + 1 THEN 0 ELSE CeilDiv(b - rest + 1, size)
    IN  [k \in 1..count |-> <<rest + (k - 1) * size, IF k = count THEN b ELSE rest + k * size - 1>>]

\* The earliest shards stay at the top of a directory that is too large; the
\* rest nests into subdirectories.  emit[<<a, b>>] is the directory of a..b.
EmitDir(shards) ==
    LET emit[r \in (1..Len(shards)) \X (1..Len(shards))] ==
          LET nested == Nested(r[1], r[2])
              head == SubSeq(shards, r[1], r[1] + HeadCount(r[2] - r[1] + 1) - 1)
              Group(k) == SubSeq(shards, nested[k][1], nested[k][2])
          IN  [files |-> FlattenSeq([k \in DOMAIN nested |-> Under(Group(k), emit[nested[k]])])
                             \o ShardFiles(head),
               meta |-> ShardRecords(head)
                             \o [k \in DOMAIN nested |-> DirRecord(Group(k), emit[nested[k]].meta)]]
    IN  emit[<<1, Len(shards)>>]

PlaceBand(tree, band) ==
    LET shards == ShardGroups(band)
        later == tree.later - 1
        Fits(n) == Len(tree.entries) + n + later <= TopMaxEntries
        dirs == CeilDiv(Len(shards),
                        IF SubMetaMaxEntries < MetaMaxEntries THEN SubMetaMaxEntries
                                                              ELSE MetaMaxEntries)
        runs == SplitEvenly(shards, IF Fits(dirs) THEN dirs ELSE 1)
    IN  IF Len(shards) <= MetaMaxEntries /\ Fits(Len(shards))
        THEN [files |-> tree.files \o ShardFiles(shards),
              entries |-> tree.entries \o ShardRecords(shards), later |-> later]
        ELSE [files |-> tree.files \o FlattenSeq([k \in DOMAIN runs |-> Under(runs[k], EmitDir(runs[k]))]),
              entries |-> tree.entries
                  \o [k \in DOMAIN runs |-> DirRecord(runs[k], EmitDir(runs[k]).meta)],
              later |-> later]

\* Bands are never empty here, as pmtilesBands and packWithChunker make them.
BuildProofTree(bands) ==
    LET placed[n \in 0..Len(bands)] ==
          IF n = 0 THEN [files |-> <<>>, entries |-> <<>>, later |-> Len(bands)]
          ELSE PlaceBand(placed[n - 1], bands[n])
    IN  placed[Len(bands)]

\* The descriptor names the file and carries its size and the top meta.
EncodeDescriptor(f, topMeta) == <<f.id, f.length, topMeta>>

\* encodeShard and encodeMeta accept the content, and the top meta has room.
ShardEncodes(s) ==
    /\ s \in Seq(ToSet(s)) /\ Len(s) \in 1..MaxShardRecords
    /\ s[1].rel = 0 /\ \A i \in DOMAIN s : s[i].rel \in Nat
    /\ \A i \in 2..Len(s) : s[i - 1].rel < s[i].rel
    /\ s[Len(s)].rel <= MaxRelOffset

MetaEncodes(m) ==
    /\ m \in Seq(ToSet(m))
    /\ \A i \in DOMAIN m : m[i].kind \in {Shard, Dir} /\ m[i].length \in Nat \ {0}

TreeEncodes(tree) ==
    /\ Len(tree.entries) <= TopMaxEntries
    /\ MetaEncodes(tree.entries)
    /\ \A i \in DOMAIN tree.files :
          LET file == tree.files[i]
          IN  IF Last(file.path) = Meta THEN MetaEncodes(file.content)
                                        ELSE ShardEncodes(file.content)

(***************************************************************************)
(* The client.                                                             *)
(***************************************************************************)
\* Variant: the sum of a meta's ranges is not compared with its parent's.
MetaDecodesAlone(m, length) == m # <<>> /\ MetaEncodes(m)

MetaDecodes(m, length) ==
    /\ m # <<>>
    /\ MetaEncodes(m)
    /\ SpanOf(m) = length

\* decodeDescriptor, and the index's open: the top meta covers the file.
DecodesDescriptor(d) == MetaDecodes(d[3], d[2])

Overlaps(range, start, end) == End(range) > start /\ range.offset < end

\* What becomes of an entry whose file the client must reject.
Unusable(e) == <<[kind |-> Broken, offset |-> e.offset, length |-> e.length]>>

\* The entries of a directory's meta, its digest, that overlap [start, end);
\* they must cover exactly what its parent committed.
Entries(dir, start, end) ==
    LET m == dir.digest
        entry == [i \in DOMAIN m |->
                    LET offset == dir.offset + Offsets(m)[i]
                    IN  [kind |-> m[i].kind, path |-> Append(dir.path, offset), offset |-> offset,
                         length |-> m[i].length, digest |-> m[i].digest]]
    IN  IF MetaDecodes(m, dir.length)
        THEN Selected(entry, {i \in DOMAIN m : Overlaps(entry[i], start, end)})
        ELSE Unusable(dir)

\* The store, a function from paths to contents, supplies what has the digest.
Supplies(store, path, digest) == path \in DOMAIN store /\ store[path] = digest

\* One level down: every directory replaced by the entries of its meta.
Below(e, start, end, store) ==
    IF e.kind # Dir THEN <<e>>
    ELSE IF Supplies(store, Append(e.path, Meta), e.digest) THEN Entries(e, start, end)
    ELSE Unusable(e)

Descend(entries, start, end, store) ==
    FlattenSeq([i \in DOMAIN entries |-> Below(entries[i], start, end, store)])

TopDir(top, size) == [kind |-> Dir, path |-> <<>>, offset |-> 0, length |-> size, digest |-> top]

CoveringShards(top, size, start, end, store) ==
    LET covering[depth \in 0..MaxDepth] ==
          IF depth = 0 THEN Entries(TopDir(top, size), start, end)
          ELSE Descend(covering[depth - 1], start, end, store)
    IN  covering[MaxDepth]

ValidShard(s, span) == ShardEncodes(s) /\ s[Len(s)].rel < span

\* Variant: the search stops short of a record that begins where it looks.
SearchBelow(s, rel) ==
    CHOOSE i \in DOMAIN s : /\ i = 1 \/ s[i].rel < rel
                            /\ \A j \in (i + 1)..Len(s) : s[j].rel >= rel

\* The binary search: the last record at or before rel, else the first.
Search(s, rel) ==
    CHOOSE i \in DOMAIN s : /\ i = 1 \/ s[i].rel <= rel
                            /\ \A j \in (i + 1)..Len(s) : s[j].rel > rel

\* A shard's leaves that overlap [start, end): from the one the search finds,
\* records are taken until end.
ShardLeavesFor(shard, start, end) ==
    LET s == shard.digest
        leaf == [i \in DOMAIN s |->
                    [offset |-> shard.offset + s[i].rel,
                     length |-> (IF i < Len(s) THEN s[i + 1].rel ELSE shard.length) - s[i].rel,
                     digest |-> s[i].digest]]
    IN  Selected(leaf, {i \in Search(s, start - shard.offset)..Len(s) : leaf[i].offset < end})

\* A shard's file arrives, with its digest and a valid structure.
GoodShard(e, store) ==
    /\ e.kind = Shard
    /\ Supplies(store, e.path, e.digest)
    /\ ValidShard(e.digest, e.length)

\* leavesFor: the covering shards, then their leaves; a file that is missing,
\* does not have its digest or has the wrong structure fails the read.
LeavesFor(top, size, start, end, store) ==
    LET shards == CoveringShards(top, size, start, end, store)
    IN  IF \A i \in DOMAIN shards : GoodShard(shards[i], store)
        THEN [ok |-> TRUE,
              leaves |-> FlattenSeq([i \in DOMAIN shards |-> ShardLeavesFor(shards[i], start, end)])]
        ELSE [ok |-> FALSE, leaves |-> <<>>]

=============================================================================
