------------------------------ MODULE MCPacker ------------------------------
(***************************************************************************)
(* Small instances of Packer: files of leaves shorter and longer than a    *)
(* step and than the distance to the hasher, cut into shards in every way, *)
(* whose chunks repeat or not and whose last chunk may be short.           *)
(***************************************************************************)
EXTENDS Packer, TLC

\* One of one chunk; one of a leaf longer than a step; one of more steps than
\* the queue holds, whose DAG has a parent with a single child.
SmallLeaves == {<<1>>, <<5, 1>>, <<2, 1, 3, 1, 2>>}

\* More steps than the queue, the writer and the walk hold, and a higher DAG.
LongLeaves == {<<3, 1, 3, 4, 1, 2, 3>>}

Compositions(n) == {s \in UNION {[1..k -> 1..n] : k \in 1..n} : FoldLeft(+, 0, s) = n}

\* Chunks that differ, or that repeat after `period`; a short one is its own.
Content(size, period) ==
    [i \in 1..((size + Chunk - 1) \div Chunk) |-> IF i * Chunk > size THEN 0 ELSE 1 + (i % period)]

JobsOf(leaves, cuts, periods) ==
    {[leaves |-> leaves, shards |-> s, unixfs |-> u,
      chunks |-> Content(FoldLeft(+, 0, leaves), period)] :
        s \in cuts, u \in {"off", "root", "car"}, period \in periods}

MixedJobs ==
    UNION {JobsOf(l, Compositions(Len(l)), {1, 2, 9}) : l \in SmallLeaves}
        \cup UNION {JobsOf(l, {<<2, 4, 1>>, <<1, 1, 5>>}, {1, 2, 4, 9}) : l \in LongLeaves}

=============================================================================
