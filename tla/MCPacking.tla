------------------------------ MODULE MCPacking ------------------------------
(***************************************************************************)
(* Small instances of Packing: fixed files of up to 24 units,               *)
(* PMTiles archives in the two layouts the packer's comments name, MP4     *)
(* files of up to six boxes, trees no packer of ours would write, and      *)
(* three files that packCommand writes over one another.                   *)
(***************************************************************************)
EXTENDS Packing, TLC

Candidates == <<1, 3>>

Opts(profile, chunk, group) == [profile |-> profile, chunk |-> chunk, tileGroup |-> group]
Auto == Opts("auto", Unset, Unset)

Fixed(id, n) == [id |-> id, type |-> "other", length |-> n]
FixedJobs ==
    {[file |-> Fixed(0, n), opts |-> Opts(p, c, Unset), car |-> NoCar] :
        n \in {0, 1, 4, 7}, p \in {"auto", "fixed", "mp4", "pmtiles"}, c \in {Unset, 0, 1, 5}}
    \cup {[file |-> Fixed(0, 24), opts |-> Opts("auto", 1, Unset), car |-> NoCar]}

(* An archive: the header and a root directory; then the metadata, the leaf *)
(* directories and the tiles, or the tiles first and the rest after them.   *)
Section(offset, length) == [offset |-> offset, length |-> length]
Archive(entries, tiles, tilesFirst, json) ==
    [id |-> 0, type |-> "pmtiles", json |-> json, length |-> 4 + tiles,
     root |-> Section(1, 1),
     metadata |-> IF tilesFirst THEN Section(2 + tiles, 1) ELSE Section(2, 1),
     leaves |-> IF tilesFirst THEN Section(3 + tiles, 1) ELSE Section(3, 1),
     tiles |-> IF tilesFirst THEN Section(2, tiles) ELSE Section(4, tiles),
     directory |-> entries]

Tile(offset, length, id) == [run |-> 1, offset |-> offset, length |-> length, tileId |-> id,
                             within |-> <<>>]
LeafDir(within) == [run |-> 0, offset |-> 0, length |-> 1, tileId |-> 0, within |-> within]

Places == {<<0, 1>>, <<0, 2>>, <<1, 1>>, <<1, 3>>, <<2, 2>>}
Directories ==
    {<<Tile(a[1], a[2], 0), Tile(b[1], b[2], 1), Tile(c[1], c[2], 2)>> :
        a \in Places, b \in Places, c \in Places}
    \cup {<<Tile(0, 2, 0), LeafDir(<<Tile(2, 1, 1), Tile(3, 2, 2)>>)>>,
          <<LeafDir(<<Tile(0, 3, 1)>>), LeafDir(<<Tile(0, 3, 1)>>), Tile(3, 2, 7)>>,
          <<LeafDir(<<LeafDir(<<>>)>>)>>}
    \cup {[i \in 1..n |-> Tile(i - 1, 1, IF i > 4 THEN 5 ELSE i)] : n \in {5, 8, 11}}

Spread(entries) ==
    LET ends == UNION {{End(e.within[j]) : j \in DOMAIN e.within} \cup
                       (IF e.run = 0 THEN {} ELSE {End(e)}) : e \in {entries[i] : i \in DOMAIN entries}}
    IN  IF ends = {} THEN 1 ELSE CHOOSE m \in ends : \A k \in ends : k <= m

ArchiveJobs ==
    {[file |-> Archive(d, Spread(d), first, TRUE), opts |-> Opts("auto", Unset, g), car |-> NoCar] :
        d \in Directories, first \in BOOLEAN, g \in {Unset, 0, 2}}
    \cup {[file |-> Archive(<<Tile(0, 2, 0)>>, n, FALSE, j), opts |-> Auto, car |-> NoCar] :
             n \in {1, 2, 3}, j \in BOOLEAN}

Box(type, form, size) == [type |-> type, form |-> form, size |-> size]
Mp4(boxes, n) == [id |-> 0, type |-> "mp4", length |-> n, boxes |-> boxes]
BoxTypes == {"styp", "moof", "mdat", "free"}
Mp4Jobs ==
    {[file |-> Mp4([i \in 1..6 |-> Box(IF i = 1 THEN "ftyp" ELSE t[i - 1], 32, 1)], 6),
      opts |-> Auto, car |-> NoCar] : t \in [1..5 -> BoxTypes \ {"free"}]}
    \cup {[file |-> Mp4([i \in 1..5 |-> Box(IF i = 1 THEN "ftyp" ELSE t[i - 1], 32, 1)], 5),
           opts |-> Auto, car |-> NoCar] : t \in [1..4 -> BoxTypes]}
    \cup {[file |-> Mp4(<<Box("ftyp", 32, 2), Box("moof", 64, s), Box("mdat", f, 2)>>, n),
           opts |-> Opts(p, Unset, Unset), car |-> NoCar] :
             s \in {1, 2, 3}, f \in {0, 32}, n \in {6, 7, 8}, p \in {"auto", "mp4"}}

Jobs == FixedJobs \cup ArchiveJobs \cup Mp4Jobs

(* Trees another publisher committed to: two entries, each a shard or a     *)
(* directory of one or two shards, with spans that may not match.           *)
Shards == {<<[rel |-> a, digest |-> "x"]>> : a \in {0, 1}}
          \cup {<<[rel |-> 0, digest |-> "x"], [rel |-> b, digest |-> "y"]>> : b \in {0, 1, 2}}
ShardEntries == {[kind |-> Shard, length |-> n, digest |-> s] : n \in {0, 1, 2}, s \in Shards}
DirEntries == {[kind |-> Dir, length |-> n, digest |-> m] :
                  n \in {1, 2}, m \in {<<e>> : e \in ShardEntries} \cup {<<>>}}
Tops == {<<a>> : a \in ShardEntries \cup DirEntries}
        \cup {<<a, b>> : a \in {[kind |-> Shard, length |-> 1, digest |-> <<[rel |-> 0, digest |-> "z"]>>]},
                         b \in ShardEntries \cup DirEntries}
Serve(top) ==
    LET start(i) == SpanOf(SubSeq(top, 1, i - 1))
        File(path, content) == [path |-> path, content |-> content]
        Files(i) ==
            IF top[i].kind = Shard THEN <<File(<<start(i)>>, top[i].digest)>>
            ELSE <<File(<<start(i), Meta>>, top[i].digest)>>
                 \o [k \in DOMAIN top[i].digest |-> File(<<start(i), start(i)>>, top[i].digest[k].digest)]
        root == <<0, SpanOf(top), top>>
    IN  [anchor |-> root,
         files |-> FlattenSeq([i \in DOMAIN top |-> Files(i)]) \o <<File(<<Root>>, root)>>]
Published == {Serve(t) : t \in Tops}

(* Four leaves in two shards; nine in three directories, one of which has    *)
(* the name of the first one's shard; five in three shards.                 *)
OnDisk ==
    {[file |-> Fixed(1, 4), opts |-> Opts("fixed", 1, Unset), car |-> <<<<2, 3, 2>>, <<3>>, <<>>>>],
     [file |-> Fixed(2, 9), opts |-> Opts("fixed", 1, Unset), car |-> NoCar],
     [file |-> Fixed(3, 5), opts |-> Opts("fixed", 1, Unset), car |-> <<<<2, 2>>, <<>>>>]}

=============================================================================
