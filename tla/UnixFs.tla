-------------------------------- MODULE UnixFs --------------------------------
(***************************************************************************)
(* The UnixFS DAG of a file (unixfs.rs): the builder, which takes the      *)
(* chunks a few at a time and holds the links that wait for a parent, and  *)
(* the balanced layout it must come to.                                    *)
(*                                                                         *)
(* A node is its content: equal blocks are one node, as equal CIDs are.    *)
(***************************************************************************)
EXTENDS Integers, SequencesExt, FiniteSetsExt

CONSTANT Fanout  \* FANOUT: the links of a full node

ASSUME UnixFsAssumption == Fanout \in Nat \ {0, 1}

Leaf(chunk) == [data |-> <<chunk>>, kids |-> <<>>]
Parent(links) == [data |-> <<>>, kids |-> links]

(***************************************************************************)
(* The builder: per level the links that wait and how many ever came, and  *)
(* the blocks emitted.  `up` is the link on its way to the next level.     *)
(***************************************************************************)
NewBuilder == [pending |-> <<>>, pushed |-> <<>>, emitted |-> <<>>, up |-> <<>>]

Emit(b, node) == [b EXCEPT !.emitted = Append(@, node), !.up = <<node>>]

\* reduce: the waiting links of a level get a parent.
Reduce(b, level) == Emit([b EXCEPT !.pending[level] = <<>>], Parent(b.pending[level]))

\* The link on its way comes to a level, which reduces when that makes it full.
Reach(b, level) ==
    LET held == IF level > Len(b.pending)
                THEN [b EXCEPT !.pending = Append(@, b.up), !.pushed = Append(@, 1), !.up = <<>>]
                ELSE [b EXCEPT !.pending[level] = @ \o b.up, !.pushed[level] = @ + 1, !.up = <<>>]
    IN  IF Len(held.pending[level]) < Fanout THEN held ELSE Reduce(held, level)

\* What base comes to, a turn for each value in order (in a form of which TLC
\* evaluates each turn once).
Loop(Turn(_, _), base, values) ==
    LET after[n \in 0..Len(values)] ==
          IF n = 0 THEN base
          ELSE CHOOSE next \in {Turn(now, values[n]) : now \in {after[n - 1]}} : TRUE
    IN  after[Len(values)]

\* push: from a level up, as long as full levels reduce.
Climb(b, level) == IF b.up = <<>> THEN b ELSE Reach(b, level)
Push(b, level) == Loop(Climb, b, [i \in 1..(Len(b.pending) + 2 - level) |-> level + i - 1])

PushChunk(b, chunk) == Push(Emit(b, Leaf(chunk)), 1)
PushChunks(b, chunks) == Loop(PushChunk, b, chunks)

\* Variant: a single link left over goes up by itself.
CloseUnlessSingle(b, level) ==
    IF b.pushed[level] <= 1 \/ b.pending[level] = <<>> THEN b
    ELSE Push(IF Len(b.pending[level]) = 1
              THEN [b EXCEPT !.pending[level] = <<>>, !.up = b.pending[level]]
              ELSE Reduce(b, level), level + 1)

\* finish: below the root's level, the links left over get a parent, a single
\* one too.
Close(b, level) ==
    IF b.pushed[level] <= 1 \/ b.pending[level] = <<>> THEN b
    ELSE Push(Reduce(b, level), level + 1)

Finish(b) == Loop(Close, b, [level \in DOMAIN b.pending |-> level])

\* The root is at the lowest level to which one node ever came.
Root(b) == b.pending[CHOOSE l \in DOMAIN b.pending :
                        b.pushed[l] = 1 /\ \A m \in 1..(l - 1) : b.pushed[m] > 1][1]

(***************************************************************************)
(* The balanced layout: a node of a layer has the next Fanout nodes of the *)
(* one below, or what is left of them; the root is alone in its layer.     *)
(***************************************************************************)
\* The i-th group of Fanout of s, the last one perhaps smaller.
Siblings(s, i) == SubSeq(s, (i - 1) * Fanout + 1, Min({i * Fanout, Len(s)}))

\* The layer above a layer.
Above(layer) ==
    [i \in 1..((Len(layer) + Fanout - 1) \div Fanout) |-> Parent(Siblings(layer, i))]

Layers(chunks) ==
    LET layer[n \in 0..Len(chunks)] ==
          IF n = 0 THEN [i \in DOMAIN chunks |-> Leaf(chunks[i])] ELSE Above(layer[n - 1])
    IN  layer

Height(chunks) ==
    CHOOSE n \in DOMAIN Layers(chunks) : /\ Len(Layers(chunks)[n]) = 1
                                         /\ \A m \in 0..(n - 1) : Len(Layers(chunks)[m]) > 1

BalancedRoot(chunks) == Layers(chunks)[Height(chunks)][1]

\* Children left to right, then their parent (SPEC 8), for every node of a layer.
OrdersAbove(orders, layer) ==
    [i \in DOMAIN layer |-> Append(FlattenSeq(Siblings(orders, i)), layer[i])]

Orders(chunks) ==
    LET order[n \in 0..Len(chunks)] ==
          IF n = 0 THEN [i \in DOMAIN chunks |-> <<Leaf(chunks[i])>>]
          ELSE OrdersAbove(order[n - 1], Layers(chunks)[n])
    IN  order

PostOrder(chunks) == Orders(chunks)[Height(chunks)][1]

=============================================================================
