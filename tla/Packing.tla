------------------------------- MODULE Packing -------------------------------
(***************************************************************************)
(* Packing a file, writing its outputs, and reading them back.             *)
(*                                                                         *)
(* A job is [file, opts, car]: a file (see Cuts) with an id that stands    *)
(* for its bytes, the options of pack, and its UnixFS DAG as the function  *)
(* from a block to its links when --full-car asks for it.  Jobs in         *)
(* MemoryJobs are packed and read back in memory (verifyBytes); jobs in    *)
(* DiskJobs are run by packCommand, one after another over the same        *)
(* output directory, where any step may fail and the process may die.      *)
(* Trees in PublishedTrees are what another publisher committed to: the    *)
(* client may assume nothing of their shape.                               *)
(***************************************************************************)
EXTENDS ProofTree

CONSTANTS
    MemoryJobs, DiskJobs,
    PublishedTrees,   \* [anchor, files], in place of jobs
    Faults,           \* the steps that may fail
    MaxRuns           \* bound: runs of packCommand

ASSUME BoundAssumption == MaxRuns \in Nat

ASSUME PublishedAssumption == \A t \in PublishedTrees : t.files \in Seq(ToSet(t.files))

\* Files as their profiles read them, and options as pack takes them.
ASSUME JobsAssumption ==
    \A j \in MemoryJobs \cup DiskJobs :
        /\ j.file.length \in Nat
        /\ j.file.type = "pmtiles" => IsArchive(j.file)
        /\ j.file.type = "mp4" => IsBoxes(j.file.boxes)
        /\ j.opts.profile \in {"auto", "fixed", "pmtiles", "mp4"}
        /\ {j.opts.chunk, j.opts.tileGroup} \subseteq Nat \cup {Unset}

\* The blocks of a DAG are numbered from its root, so that links lead to later
\* blocks, and every other block is linked to.
ASSUME CarAssumption ==
    \A j \in DiskJobs :
        /\ j.car \in Seq(Seq(Nat))
        /\ \A b \in DOMAIN j.car : ToSet(j.car[b]) \subseteq (b + 1)..Len(j.car)
        /\ \A b \in 2..Len(j.car) : \E a \in DOMAIN j.car : b \in ToSet(j.car[a])

VARIABLES
    job,       \* the job being packed, or the last one
    runs,      \* how many runs of packCommand began
    packed,    \* what pack returned for it
    phase,     \* where writeOutputs is
    next,      \* the proof file writeProofs is at
    disk,      \* the proof files by path: <<content>>, <<>> for a truncated file
    dirs,      \* the directories made
    alias,     \* the existing output that is the input file, or None
    tmp,       \* the CAR's .tmp: None, or its blocks so far
    car,       \* the CAR under its final name: None, or its blocks
    opened,    \* this run opened the .tmp
    sealed,    \* this run wrote its root
    printed,   \* the packs whose anchor a run printed, in order
    got        \* the last read: <<>>, or <<[of (a pack), start, end, ok, leaves]>>

output == <<disk, dirs, tmp, car>>
vars == <<job, packed, runs, phase, next, output, alias, opened, sealed, printed, got>>

None == <<-3>>
CarTmp == <<-4>>        \* the path of the CAR's .tmp
NoCar == <<>>           \* the DAG of a job without --full-car
NoRead == <<>>

(***************************************************************************)
(* pack.                                                                   *)
(***************************************************************************)
\* Variant: the shards are counted as if bands did not end them.
ShardTotalOfOneBand(f, budget) == Len(ShardRanges(PmtilesLeaves(f, budget)))

ShardTotal(f, budget) ==
    LET groups == GroupedTileRanges(TileRanges(f), budget)
        bands == PmtilesBands(f, PmtilesLeaves(f, budget), groups)
        total[n \in 0..Len(bands)] ==
          IF n = 0 THEN 0 ELSE total[n - 1] + Len(ShardRanges(bands[n]))
    IN  total[Len(bands)]

ChoosePmtilesTileGroup(f) ==
    LET flat == {i \in DOMAIN TileGroupCandidates : ShardTotal(f, TileGroupCandidates[i]) <= TopMaxEntries}
    IN  IF flat = {} THEN Last(TileGroupCandidates)
        ELSE TileGroupCandidates[CHOOSE i \in flat : \A k \in flat : i <= k]

\* Some leaf in the tile data belongs to no tile: counting shards throws.
HasGap(f, budget) ==
    ~BandsMatch(f, PmtilesLeaves(f, budget), GroupedTileRanges(TileRanges(f), budget))

Refused == [ok |-> FALSE, leaves |-> <<>>, budget |-> Unset, entries |-> <<>>,
            files |-> <<>>, anchor |-> None]

RootFile(descriptor) == [path |-> <<Root>>, content |-> descriptor]

\* Variant: the root is written first.
RootThenFiles(files, descriptor) == <<RootFile(descriptor)>> \o files

\* The proof files in the order they are written: `root` last.
FilesThenRoot(files, descriptor) == Append(files, RootFile(descriptor))

Digested(f, leaves) ==
    [i \in DOMAIN leaves |-> [offset |-> leaves[i].offset, length |-> leaves[i].length,
                              digest |-> <<f.id, leaves[i].offset, leaves[i].length>>]]

\* The end of packWithChunker: the descriptor, which names the file and carries
\* the top meta, then the files.
Finished(f, cut, tree) ==
    LET descriptor == EncodeDescriptor(f, tree.entries)
    IN  IF ~TreeEncodes(tree) THEN Refused
        ELSE [ok |-> TRUE, leaves |-> Digested(f, cut.leaves), budget |-> cut.budget,
              entries |-> tree.entries,
              files |-> FilesThenRoot(tree.files, descriptor),
              anchor |-> descriptor]

PackWithChunker(f, cut) ==
    Finished(f, cut, BuildProofTree([b \in DOMAIN cut.bands |-> Digested(f, cut.bands[b])]))

\* Each profile's leaves and bands, or <<>> when it refuses the file.
CutAt(f, budget) ==
    LET leaves == PmtilesLeaves(f, budget)
    IN  <<[leaves |-> leaves, budget |-> budget,
           bands |-> PmtilesBands(f, leaves, GroupedTileRanges(TileRanges(f), budget))]>>

CutPmtiles(f, opts) ==
    LET candidates == IF opts.tileGroup = Unset THEN ToSet(TileGroupCandidates) ELSE {opts.tileGroup}
    IN  IF ~Parses(f) \/ \E b \in candidates : HasGap(f, b) THEN <<>>
        ELSE CutAt(f, IF opts.tileGroup = Unset THEN ChoosePmtilesTileGroup(f) ELSE opts.tileGroup)

CutMp4(f) ==
    IF f.type # "mp4" \/ Mp4Walk(f).bad \/ FirstMoof(Mp4Walk(f).boxes) = 0 THEN <<>>
    ELSE <<[leaves |-> LeavesBetween(Mp4CutPoints(f)), budget |-> Unset,
            bands |-> <<LeavesBetween(Mp4CutPoints(f))>>]>>

CutFixed(f, opts) ==
    <<[leaves |-> FixedLeaves(f, opts), bands |-> <<FixedLeaves(f, opts)>>, budget |-> Unset]>>

Cut(j) ==
    IF ~OptionsApply(j.file, j.opts) THEN <<>>
    ELSE CASE Profile(j.file, j.opts) = "pmtiles" -> CutPmtiles(j.file, j.opts)
           [] Profile(j.file, j.opts) = "mp4" -> CutMp4(j.file)
           [] Profile(j.file, j.opts) = "fixed" -> CutFixed(j.file, j.opts)

PackCut(f, cut) == IF cut = <<>> THEN Refused ELSE PackWithChunker(f, cut[1])

Pack(j) == PackCut(j.file, Cut(j))

\* The bound on the client's descent reaches every file.
ASSUME DepthAssumption ==
    \A j \in MemoryJobs \cup DiskJobs : \A file \in ToSet(Pack(j).files) :
        Len(file.path) <= MaxDepth + 1

\* The proof files as the map of a source, or of a directory.
FileMap(files) ==
    [p \in {files[i].path : i \in DOMAIN files} |->
        <<files[CHOOSE i \in DOMAIN files : files[i].path = p].content>>]

\* The blocks of the full CAR, from block 1, the DAG's root: children left to
\* right, then the parent, each once.
PostOrder(dag) ==
    LET visit[b \in DOMAIN dag] ==
          Append(FlattenSeq([i \in DOMAIN dag[b] |-> visit[dag[b][i]]]), b)
    IN  IF dag = NoCar THEN None ELSE UniqueBy(visit[1], LAMBDA b : b)

(***************************************************************************)
(* packCommand and writeOutputs.                                           *)
(***************************************************************************)
Settled == {"idle", "done", "failed", "refused"}
Prefixed(path) == {SubSeq(path, 1, n) : n \in 1..(Len(path) - 1)}
HasCar == job.car # NoCar
Current == packed.files[next]

Init ==
    /\ runs = 0 /\ next = 1 /\ dirs = {} /\ alias = None /\ printed = <<>>
    /\ tmp = None /\ car = None /\ opened = FALSE /\ sealed = FALSE /\ got = NoRead
    /\ \/ job \in MemoryJobs /\ phase = "start" /\ disk = <<>> /\ packed = Refused
       \/ job \in DiskJobs /\ phase = "idle" /\ disk = <<>> /\ packed = Refused
       \/ /\ job \in PublishedTrees /\ phase = "published" /\ disk = FileMap(job.files)
          /\ packed = [Refused EXCEPT !.ok = TRUE, !.files = job.files, !.anchor = job.anchor]

\* A run begins; its input may be a hard link to an output an earlier one left.
Begin(j, input) ==
    /\ phase \in Settled /\ job \in DiskJobs /\ runs < MaxRuns
    /\ input \in DOMAIN disk \cup {None} \cup (IF tmp = None THEN {} ELSE {CarTmp})
    /\ job' = j /\ alias' = input /\ packed' = Refused
    /\ phase' = "start"
    /\ runs' = runs + 1 /\ next' = 1 /\ opened' = FALSE /\ sealed' = FALSE
    /\ UNCHANGED <<output, printed>>

\* pack: its proofs are given to verifyBytes, or written by packCommand.
PackInput ==
    /\ phase = "start"
    /\ packed' = Pack(job)
    /\ phase' = IF ~packed'.ok THEN "refused" ELSE IF job \in DiskJobs THEN "mkdir" ELSE "verify"
    /\ IF job \in DiskJobs THEN UNCHANGED <<next, disk, sealed>>
       ELSE /\ next' = Len(packed'.files) + 1
            /\ disk' = FileMap(packed'.files)
            /\ sealed' = packed'.ok
    /\ UNCHANGED <<job, runs, dirs, tmp, car, alias, opened, printed>>

\* mkdir of every file's directory, in order; one whose name a file has throws.
MakeDirs ==
    LET clashes == {i \in DOMAIN packed.files : Prefixed(packed.files[i].path) \cap DOMAIN disk # {}}
        made == {i \in DOMAIN packed.files : \A c \in clashes : i < c}
    IN  /\ phase = "mkdir"
        /\ dirs' = dirs \cup UNION {Prefixed(packed.files[i].path) : i \in made}
        /\ phase' = IF clashes = {} THEN "alias" ELSE "failed"
        /\ UNCHANGED <<job, packed, runs, next, disk, alias, tmp, car, opened, sealed, printed>>

\* Variant: outputs that are the input file are not looked for.
RefuseNothing ==
    /\ phase = "alias"
    /\ phase' = IF HasCar THEN "open" ELSE "proofs"
    /\ UNCHANGED <<job, packed, runs, next, output, alias, opened, sealed, printed>>

RefuseInputAliases ==
    /\ phase = "alias"
    /\ phase' = IF (\E i \in 1..Len(packed.files) : packed.files[i].path = alias)
                      \/ (HasCar /\ alias = CarTmp)
                THEN "failed" ELSE IF HasCar THEN "open" ELSE "proofs"
    /\ UNCHANGED <<job, packed, runs, next, output, alias, opened, sealed, printed>>

\* The .tmp is opened, and truncated, before any proof file; a failure is
\* thrown after them.
OpenCar ==
    /\ phase = "open"
    /\ phase' = "proofs"
    /\ \/ opened' = TRUE /\ tmp' = <<>>
       \/ /\ "open" \in Faults
          /\ UNCHANGED <<opened, tmp>>
    /\ UNCHANGED <<job, packed, runs, next, sealed, disk, dirs, alias, car, printed>>

\* writeFile opens and truncates a file, then fills it.
Truncate ==
    /\ phase = "proofs" /\ next <= Len(packed.files)
    /\ Current.path \notin dirs
    /\ Current.path \in DOMAIN disk => disk[Current.path] # <<>>
    /\ disk' = [p \in DOMAIN disk \cup {Current.path} |-> IF p = Current.path THEN <<>> ELSE disk[p]]
    /\ UNCHANGED <<job, packed, runs, phase, next, dirs, alias, tmp, car, opened, sealed, printed>>

Fill ==
    /\ phase = "proofs" /\ next <= Len(packed.files)
    /\ Current.path \in DOMAIN disk /\ disk[Current.path] = <<>>
    /\ disk' = [disk EXCEPT ![Current.path] = <<Current.content>>]
    /\ next' = next + 1
    /\ sealed' = (sealed \/ Current.path = <<Root>>)
    /\ UNCHANGED <<job, packed, runs, phase, dirs, alias, tmp, car, opened, printed>>

\* Without a CAR the command prints the anchor; when the .tmp could not be
\* opened it throws now.
EndProofs ==
    /\ phase = "proofs" /\ next > Len(packed.files)
    /\ phase' = IF ~HasCar THEN "done" ELSE IF opened THEN "car" ELSE "failed"
    /\ printed' = IF HasCar THEN printed ELSE Append(printed, packed)
    /\ UNCHANGED <<job, packed, runs, next, output, alias, opened, sealed>>

WriteCar ==
    /\ phase = "car"
    /\ tmp' = PostOrder(job.car)
    /\ phase' = "rename"
    /\ UNCHANGED <<job, packed, runs, next, disk, dirs, alias, car, opened, sealed, printed>>

RenameCar ==
    /\ phase = "rename"
    /\ car' = tmp /\ tmp' = None
    /\ phase' = "done"
    /\ printed' = Append(printed, packed)
    /\ UNCHANGED <<job, packed, runs, next, disk, dirs, alias, opened, sealed>>

\* Variant: a failure after the .tmp was opened leaves it.
FailKeepsTmp ==
    /\ phase \in {"car", "rename"} \cap Faults
    /\ phase' = "failed"
    /\ UNCHANGED <<job, packed, runs, next, output, alias, opened, sealed, printed>>

\* A step throws: the disk is full, a proof file's name is a directory's, or
\* the rename fails.  An opened .tmp is removed.
Fail ==
    /\ \/ /\ phase = "proofs" /\ next <= Len(packed.files)
          /\ "write" \in Faults \/ Current.path \in dirs
       \/ phase \in {"car", "rename"} \cap Faults
    /\ tmp' = IF opened THEN None ELSE tmp
    /\ phase' = "failed"
    /\ UNCHANGED <<job, packed, runs, next, disk, dirs, alias, car, opened, sealed, printed>>

\* The process dies: what it had written stays.
Crash ==
    /\ "crash" \in Faults
    /\ phase \in {"alias", "proofs", "car", "rename"}
    /\ phase' = "idle"
    /\ UNCHANGED <<job, packed, runs, next, output, alias, opened, sealed, printed>>

\* What the proof reader finds: every path's content, a truncated file's none.
ProofReader ==
    [path \in {q \in DOMAIN disk : disk[q] # <<>>} |-> disk[path][1]]

\* Someone who has a pack's anchor opens the descriptor and asks for leaves.
Read(pack, start, end) ==
    LET anchor == pack.anchor
        store == ProofReader
        found == IF Supplies(store, <<Root>>, anchor) /\ DecodesDescriptor(anchor)
                 THEN LeavesFor(anchor[3], anchor[2], start, end, store)
                 ELSE [ok |-> FALSE, leaves |-> <<>>]
    IN  /\ phase \in Settled \cup {"verify", "published"} /\ got = NoRead
        /\ got' = <<[of |-> pack, start |-> start, end |-> end, ok |-> found.ok, leaves |-> found.leaves]>>
        /\ UNCHANGED <<job, packed, runs, phase, next, output, alias, opened, sealed, printed>>

\* The packs whose anchor someone has.
Anchored == IF packed.ok THEN Append(printed, packed) ELSE printed

Step ==
    \/ \E j \in DiskJobs, input \in DOMAIN disk \cup {None, CarTmp} : Begin(j, input)
    \/ PackInput
    \/ MakeDirs
    \/ RefuseInputAliases
    \/ OpenCar
    \/ Truncate
    \/ Fill
    \/ EndProofs
    \/ WriteCar
    \/ RenameCar
    \/ Fail
    \/ Crash

Next ==
    \/ Step /\ got' = NoRead
    \/ \E i \in DOMAIN Anchored : \E start \in 0..(Anchored[i].anchor[2] - 1) :
          \E end \in (start + 1)..Anchored[i].anchor[2] : Read(Anchored[i], start, end)

Spec == Init /\ [][Next]_vars

(***************************************************************************)
(* Properties.                                                             *)
(***************************************************************************)
\* Types, and the cap on every meta file (META_FILE_CAP), which no encoder
\* checks: emitDir must keep it.
TypeOK ==
    /\ phase \in {"start", "idle", "mkdir", "alias", "open", "proofs", "car", "rename",
                  "done", "failed", "refused", "verify", "published"}
    /\ runs \in 0..MaxRuns /\ next \in 1..(Len(packed.files) + 1)
    /\ {packed.ok, opened, sealed} \subseteq BOOLEAN
    /\ phase # "published" => \A i \in DOMAIN packed.files :
          LET file == packed.files[i]
          IN  Last(file.path) = Meta => Len(file.content) \in 1..MetaMaxEntries

\* The leaves of a pack that a read of [start, end) should be given.
Wanted(pack, start, end) ==
    Selected(pack.leaves, {i \in DOMAIN pack.leaves : Overlaps(pack.leaves[i], start, end)})

\* Whatever a pack, a failed write or a crash left on disk, the client that
\* descends from an anchor is given exactly that pack's leaves over its range,
\* or nothing (leavesFor; the check of verifyBytes).
ReadsAreRight ==
    \A r \in ToSet(got) : r.ok /\ phase # "published" =>
        r.leaves = Wanted(r.of, r.start, r.end)

\* "root comes last: a reader that finds it can trust every file it names was
\* written first" (packWithChunker): once a run has written its root, and in
\* the map that verifyBytes reads, no read of any range fails.
RootComesLast ==
    \A r \in ToSet(got) : r.of.anchor = packed.anchor /\ sealed => r.ok

\* Whatever tree a publisher commits to, the leaves a client accepts follow
\* one another without gap or overlap and cover the range it asked for
\* (#entries: "covers exactly the range its parent committed"; validateShard).
LeavesTile ==
    \A r \in ToSet(got) : r.ok =>
        /\ r.leaves # <<>>
        /\ r.leaves[1].offset <= r.start /\ End(Last(r.leaves)) >= r.end
        /\ \A i \in DOMAIN r.leaves : r.leaves[i].length > 0
        /\ \A i \in 2..Len(r.leaves) : r.leaves[i].offset = End(r.leaves[i - 1])

\* "buildProofTree inlines every band exactly when the shards of all bands fit
\* in the top meta together" (shardTotal): the budget chosen without building
\* the tree is the first whose tree is flat, and the last one when none is.
FlatWhenFits ==
    LET flat == \A i \in DOMAIN packed.entries : packed.entries[i].kind = Shard
    IN  phase = "verify" /\ packed.budget # Unset /\ got = NoRead =>
            /\ flat <=> ShardTotal(job.file, packed.budget) <= TopMaxEntries
            /\ job.opts.tileGroup = Unset /\ ~flat => packed.budget = Last(TileGroupCandidates)

\* "small groups keep the bytes fetched per tile close to the tile": the
\* leaves a tile needs hold no more than the budget, or the tile itself when
\* it is larger.
TilesAreCheap ==
    phase = "verify" /\ packed.budget # Unset /\ got = NoRead =>
        \A i \in DOMAIN TileRanges(job.file) :
            LET tile == TileRanges(job.file)[i]
                bytes == SpanOf(Wanted(packed, tile.offset, End(tile)))
            IN  bytes <= packed.budget \/ bytes <= tile.length

\* "A player that reads a fragment at the range its sidx lists reads exactly
\* one leaf" (mp4Cuts): a moof right after the segment boxes that open it, up
\* to the end of the mdats that follow it, is one leaf.
FragmentIsOneLeaf ==
    phase = "verify" /\ got = NoRead /\ Profile(job.file, job.opts) = "mp4" =>
        LET boxes == Mp4Walk(job.file).boxes
            Fragment(s, e) ==
                /\ \E m \in s..(e - 1) : /\ boxes[m].type = "moof"
                                         /\ \A i \in s..(m - 1) : boxes[i].type \in SegmentBoxes
                                         /\ \A i \in (m + 1)..e : boxes[i].type = "mdat"
                /\ s = 1 \/ boxes[s - 1].type \notin SegmentBoxes \cup {"moof"}
                /\ s > FirstMoof(boxes) => boxes[s - 1].type = "mdat"
                /\ e = Len(boxes) \/ boxes[e + 1].type # "mdat"
        IN  \A s, e \in DOMAIN boxes : s < e /\ Fragment(s, e) =>
                \E i \in DOMAIN packed.leaves : /\ packed.leaves[i].offset = boxes[s].offset
                                                /\ End(packed.leaves[i]) = End(boxes[e])

\* "A crash mid-write must not leave a truncated CAR under the final name",
\* and "once the .tmp exists, any failure removes it": the CAR is the whole
\* DAG, every block once and after the blocks it links to.
CarIsWhole ==
    /\ car # None =>
          \E j \in DiskJobs :
              LET at(b) == {i \in DOMAIN car : car[i] = b}
              IN  /\ ToSet(car) = DOMAIN j.car
                  /\ \A b \in DOMAIN j.car : Cardinality(at(b)) = 1
                  /\ \A b \in DOMAIN j.car : \A i \in DOMAIN j.car[b] :
                        \A x \in at(j.car[b][i]), y \in at(b) : x < y
    /\ phase \in {"done", "failed"} /\ opened => tmp = None

\* A run never writes the file it packs, though an output of an earlier run
\* may be that very file (refuseInputAliases).
InputUntouched ==
    [][runs' = runs =>
          /\ alias \in DOMAIN disk => disk'[alias] = disk[alias]
          /\ alias = CarTmp => tmp' = tmp]_vars

=============================================================================
