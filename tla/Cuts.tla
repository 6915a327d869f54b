-------------------------------- MODULE Cuts --------------------------------
(***************************************************************************)
(* Where the reference packer (tools/pack.ts) cuts a file into leaves, and *)
(* how it groups the leaves into bands.  A file is the structure its       *)
(* profile reads, not its bytes:                                           *)
(*                                                                         *)
(*   any file     type ("pmtiles", "mp4" or "other") and length            *)
(*   PMTiles      the sections root, metadata, leaves and tiles (ranges),  *)
(*                whether the metadata is a JSON object, and the root      *)
(*                directory: entries [run, offset, length, tileId, within],*)
(*                "within" being the entries of the leaf directory that an *)
(*                entry of run 0 names                                     *)
(*   MP4          boxes, in chain order: [type, form, size], form being    *)
(*                32, 64, or 0 for "to the end of the file"                *)
(*                                                                         *)
(* Numbers are naturals: the packer's checks for 2^53 are not modelled.    *)
(***************************************************************************)
EXTENDS Integers, SequencesExt, FiniteSets

CONSTANTS
    Probe,                \* PMTILES_PROBE: what a reader fetches first
    HeaderSize,           \* PMTILES_HEADER_SIZE
    BoxHeader, LargeBoxHeader,   \* an MP4 box header, and one with a 64-bit size
    DefaultChunk,         \* DEFAULT_CHUNK, of the fixed profile
    TileGroupCandidates   \* TILE_GROUP_CANDIDATES, ascending

ASSUME CutsAssumption ==
    /\ {Probe, HeaderSize, BoxHeader, LargeBoxHeader, DefaultChunk} \subseteq Nat \ {0}
    /\ HeaderSize <= Probe /\ BoxHeader < LargeBoxHeader
    /\ TileGroupCandidates \in Seq(Nat) /\ TileGroupCandidates # <<>>

Unset == -1            \* an option that was not given
Outside == -1          \* the "zoom" of a leaf outside the tile data

\* Variant: the last, partial group is forgotten.
FloorDiv(a, b) == a \div b

CeilDiv(a, b) == (a + b - 1) \div b
End(range) == range.offset + range.length

\* What parsePmtiles reads of an archive, and the walk of an MP4's boxes: their
\* numbers are unsigned.
IsSection(range) == range.offset \in Nat /\ range.length \in Nat
IsDirectory(s) == s \in Seq(ToSet(s)) /\ \A i \in DOMAIN s : IsSection(s[i])

IsArchive(f) ==
    /\ \A section \in {f.root, f.metadata, f.leaves, f.tiles} : IsSection(section)
    /\ IsDirectory(f.directory) /\ \A i \in DOMAIN f.directory : IsDirectory(f.directory[i].within)

IsBoxes(s) == s \in Seq(ToSet(s)) /\ \A i \in DOMAIN s : s[i].size \in Nat

\* Where each of consecutive ranges begins, and, last, where they all end.
Offsets(s) ==
    LET at[i \in 1..(Len(s) + 1)] == IF i = 1 THEN 0 ELSE at[i - 1] + s[i - 1].length
    IN  at

SpanOf(s) == Offsets(s)[Len(s) + 1]

\* s without the elements whose key an earlier element has.
UniqueBy(s, Key(_)) ==
    LET kept[n \in 0..Len(s)] ==
          LET before == kept[n - 1]
          IN  IF n = 0 THEN <<>>
              ELSE IF \E i \in DOMAIN before : Key(before[i]) = Key(s[n]) THEN before
              ELSE Append(before, s[n])
    IN  kept[Len(s)]

\* s in the order of its keys, equal keys in the order they had.
StableSort(s, Key(_)) ==
    LET Before(j, i) == \/ Key(s[j]) < Key(s[i])
                        \/ Key(s[j]) = Key(s[i]) /\ j < i
    IN  [k \in DOMAIN s |->
            s[CHOOSE i \in DOMAIN s : Cardinality({j \in DOMAIN s : Before(j, i)}) = k - 1]]

Ascending(S) ==
    [k \in 1..Cardinality(S) |-> CHOOSE x \in S : Cardinality({y \in S : y < x}) = k - 1]

\* The elements of s at the places `at`, in their order.
Selected(s, at) == [k \in 1..Cardinality(at) |-> s[Ascending(at)[k]]]

\* s cut into consecutive runs that begin at the indices `firsts`.
SplitAt(s, firsts) ==
    [k \in DOMAIN firsts |->
        SubSeq(s, firsts[k], IF k < Len(firsts) THEN firsts[k + 1] - 1 ELSE Len(s))]

\* The leaves between consecutive cut points (cutLengths, cutChunker).
LeavesBetween(points) ==
    LET p == Ascending(points)
    IN  [i \in 1..(Len(p) - 1) |-> [offset |-> p[i], length |-> p[i + 1] - p[i]]]

(***************************************************************************)
(* PMTiles.                                                                *)
(***************************************************************************)
LeafEntries(f) == {f.directory[i] : i \in {j \in DOMAIN f.directory : f.directory[j].run = 0}}

\* A leaf directory named twice adds its tiles twice; uniqueRanges drops them.
TileEntries(f) ==
    FlattenSeq([i \in DOMAIN f.directory |->
        IF f.directory[i].run = 0 THEN f.directory[i].within ELSE <<f.directory[i]>>])

Sections(f) ==
    {[offset |-> 0, length |-> HeaderSize], f.root, f.metadata, f.leaves, f.tiles}
        \cup {[offset |-> f.leaves.offset + e.offset, length |-> e.length] : e \in LeafEntries(f)}

TileRanges(f) ==
    LET placed == [i \in DOMAIN TileEntries(f) |->
                      [offset |-> f.tiles.offset + TileEntries(f)[i].offset,
                       length |-> TileEntries(f)[i].length,
                       tileId |-> TileEntries(f)[i].tileId]]
    IN  UniqueBy(placed, LAMBDA r : <<r.offset, r.length>>)

\* parsePmtiles does not throw.
Parses(f) ==
    /\ f.type = "pmtiles"
    /\ End(f.root) <= Probe
    /\ \A s \in Sections(f) : End(s) <= f.length
    /\ \A i \in DOMAIN TileEntries(f) : TileEntries(f)[i].run > 0
    /\ \A i \in DOMAIN TileRanges(f) : End(TileRanges(f)[i]) <= End(f.tiles)
    /\ f.json

\* A tile joins the last group when it follows it and fits the budget.
GroupedWith(groups, tile, budget) ==
    IF \/ groups = <<>>
       \/ tile.offset # End(Last(groups))
       \/ budget = 0
       \/ Last(groups).length + tile.length > budget
    THEN Append(groups, tile)
    ELSE [groups EXCEPT ![Len(groups)].length = @ + tile.length]

\* Contiguous tiles in offset order, joined while they fit the budget.
GroupedTileRanges(ranges, budget) ==
    LET tiles == StableSort(ranges, LAMBDA r : r.offset)
        groups[n \in 0..Len(tiles)] ==
          IF n = 0 THEN <<>> ELSE GroupedWith(groups[n - 1], tiles[n], budget)
    IN  groups[Len(tiles)]

\* Variant: a group's end is not a cut point.
CutAtStartsOnly(f, groups) ==
    {s.offset : s \in Sections(f) \cup {groups[i] : i \in DOMAIN groups}} \cup {0, f.length}

PmtilesCutPoints(f, groups) ==
    (UNION {{s.offset, End(s)} : s \in Sections(f) \cup {groups[i] : i \in DOMAIN groups}})
        \cup {0, f.length} \cup (IF f.length > Probe THEN {Probe} ELSE {})

ZoomOfTileId(id) == CHOOSE z \in 0..id : /\ (4^z - 1) \div 3 <= id
                                         /\ id < (4^(z + 1) - 1) \div 3

InTiles(f, leaf) == f.tiles.offset <= leaf.offset /\ leaf.offset < End(f.tiles)

\* The group pmtilesBands compares a leaf with: the first that ends after it
\* starts; 0 when there is none.
GroupAt(groups, leaf) ==
    LET after == {i \in DOMAIN groups : End(groups[i]) > leaf.offset}
    IN  IF after = {} THEN 0 ELSE CHOOSE i \in after : \A j \in after : i <= j

\* pmtilesBands does not throw: every tile leaf starts inside its group.
BandsMatch(f, leaves, groups) ==
    \A i \in DOMAIN leaves : InTiles(f, leaves[i]) =>
        LET g == GroupAt(groups, leaves[i])
        IN  g # 0 /\ groups[g].offset <= leaves[i].offset

LeafZoom(f, leaf, groups) ==
    IF InTiles(f, leaf) THEN ZoomOfTileId(groups[GroupAt(groups, leaf)].tileId) ELSE Outside

PmtilesBands(f, leaves, groups) ==
    LET zoom == [i \in DOMAIN leaves |-> LeafZoom(f, leaves[i], groups)]
        starts == {i \in DOMAIN leaves : i = 1 \/ zoom[i] # zoom[i - 1]}
    IN  SplitAt(leaves, Ascending(starts))

(***************************************************************************)
(* Fragmented MP4: the walk over the top-level boxes, and its cuts.        *)
(***************************************************************************)
SegmentBoxes == {"styp", "emsg", "prft"}

\* The walk reads one more box.
WalkBox(f, walk, box) ==
    LET left == f.length - walk.at
        header == IF box.form = 64 THEN LargeBoxHeader ELSE BoxHeader
        size == IF box.form = 0 THEN left ELSE box.size
    IN  IF walk.bad \/ left = 0 THEN walk
        ELSE IF left < header \/ size < header \/ size > left
        THEN [walk EXCEPT !.bad = TRUE]
        ELSE [walk EXCEPT !.at = @ + size,
                          !.boxes = Append(@, [offset |-> walk.at, length |-> size,
                                               type |-> box.type])]

\* The boxes the walk yields, and whether it then threw.
Mp4Walk(f) ==
    LET walk[n \in 0..Len(f.boxes)] ==
          IF n = 0 THEN [at |-> 0, boxes |-> <<>>, bad |-> FALSE]
          ELSE WalkBox(f, walk[n - 1], f.boxes[n])
        walked == walk[Len(f.boxes)]
    IN  [walked EXCEPT !.bad = @ \/ walked.at < f.length]

FirstMoof(boxes) ==
    LET moofs == {i \in DOMAIN boxes : boxes[i].type = "moof"}
    IN  IF moofs = {} THEN 0 ELSE CHOOSE i \in moofs : \A j \in moofs : i <= j

IsFragmentedMp4(f) ==
    /\ f.type = "mp4"
    /\ LET boxes == Mp4Walk(f).boxes
       IN  FirstMoof(boxes) # 0 /\ boxes[1].type = "ftyp"

\* Variant: the segment boxes ahead of the first moof stay with the init section.
SegmentStartAtMoof(boxes, i) == i

\* The box where the run of segment boxes right before box i begins, or i.
SegmentStart(boxes, i) ==
    CHOOSE s \in 1..i : /\ \A j \in s..(i - 1) : boxes[j].type \in SegmentBoxes
                        /\ s = 1 \/ boxes[s - 1].type \notin SegmentBoxes

Mp4CutPoints(f) ==
    LET boxes == Mp4Walk(f).boxes
        first == FirstMoof(boxes)
        after == {i \in (first + 1)..Len(boxes) :
                     boxes[i - 1].type = "mdat" /\ boxes[i].type # "mdat"}
    IN  {0, f.length, boxes[SegmentStart(boxes, first)].offset} \cup {boxes[i].offset : i \in after}

(***************************************************************************)
(* pack: the profile an input gets, and the leaves and bands it yields.    *)
(* An option record is [profile, chunk, tileGroup].                        *)
(***************************************************************************)
Profile(f, opts) ==
    IF opts.profile # "auto" THEN opts.profile
    ELSE IF f.type = "pmtiles" THEN "pmtiles"
    ELSE IF IsFragmentedMp4(f) THEN "mp4" ELSE "fixed"

OptionsApply(f, opts) ==
    /\ opts.chunk # Unset => Profile(f, opts) = "fixed" /\ opts.chunk > 0
    /\ opts.tileGroup # Unset => Profile(f, opts) = "pmtiles"

\* An empty file is one empty leaf.
FixedLeaves(f, opts) ==
    LET chunk == IF opts.chunk = Unset THEN DefaultChunk ELSE opts.chunk
    IN  IF f.length = 0 THEN <<[offset |-> 0, length |-> 0]>>
        ELSE LeavesBetween({k * chunk : k \in 0..((f.length - 1) \div chunk)} \cup {f.length})

PmtilesLeaves(f, budget) ==
    LeavesBetween(PmtilesCutPoints(f, GroupedTileRanges(TileRanges(f), budget)))

=============================================================================
