------------------------------- MODULE Packer -------------------------------
(***************************************************************************)
(* The Rust packer's outputs (pack.rs, write_outputs) and the pass that    *)
(* makes them (pass.rs, pipeline.rs, scan.rs): a hasher of the whole file, *)
(* a walk that hashes leaves and chunks and writes shards, and a writer of *)
(* the CAR, each a thread.                                                 *)
(*                                                                         *)
(* The plan of the leaves and shards is an input here; how it is made is   *)
(* in Cuts and ProofTree.  Units of length stand for bytes.  A digest is   *)
(* what was digested.  Outputs of earlier runs are Packing's subject: here *)
(* the directory is empty.  A crash may come in any state, and leaves what *)
(* is written in it.                                                       *)
(***************************************************************************)
EXTENDS UnixFs

CONSTANTS
    Jobs,         \* [leaves: their lengths, shards: their counts of leaves, chunks, unixfs]
    Chunk,        \* CHUNK
    HasherSlice,  \* HASHER_SLICE
    Ahead,        \* AHEAD
    StepBytes,    \* STEP_BYTES
    StepLeaves,   \* STEP_LEAVES
    CarQueue,     \* CAR_QUEUE
    MaxU64        \* the largest u64

\* The sums of the first elements of s: none of them, one, two...
SumsOf(s) ==
    LET sum[i \in 0..Len(s)] == IF i = 0 THEN 0 ELSE sum[i - 1] + s[i]
    IN  sum

ASSUME PackerAssumption ==
    /\ {Chunk, HasherSlice, Ahead, StepBytes, StepLeaves, CarQueue} \subseteq Nat \ {0}
    /\ MaxU64 \in Nat

Lengths(s) == s \in Seq(Nat \ {0}) /\ s # <<>>

\* The leaves are not empty (plan refuses a record of length 0), the shards
\* have them all, and the chunks are those of the file.
ASSUME JobsAssumption ==
    \A j \in Jobs :
        /\ Lengths(j.leaves) /\ Lengths(j.shards)
        /\ SumsOf(j.shards)[Len(j.shards)] = Len(j.leaves)
        /\ j.chunks \in Seq(ToSet(j.chunks))
        /\ Len(j.chunks) = (SumsOf(j.leaves)[Len(j.leaves)] + Chunk - 1) \div Chunk
        /\ j.unixfs \in {"off", "root", "car"}

None == "none"
Ok == "ok"

VARIABLES
    job,
    main,     \* where write_outputs is
    mode,     \* UnixFs: "off", "root", or "car"
    refused,  \* car_error: the CAR could not be opened
    hasher,   \* [at, fed, hashed]: its position, the bytes it took, the shared counter
    cancel,   \* the shared flag
    walk,     \* [at, first, last, chunk, err]: the walk's step, next chunk and error
    shards,   \* the assembler: [leaves, next, digests]
    queue,    \* the digests on their way to the CAR writer
    writer,   \* [at, batch]: the CAR writer
    builder,
    disk,     \* [shards, metas, root, car]: what is written whole, <<>> for what is not
    met,      \* history: the errors the system gave
    result

threads == <<hasher, cancel, walk, shards, queue, writer, builder>>
vars == <<job, main, mode, refused, threads, disk, met, result>>

(***************************************************************************)
(* The plan.  Leaves and chunks are numbered from 0.                       *)
(***************************************************************************)
Count == Len(job.leaves)
Start(i) == SumsOf(job.leaves)[i]
Size == Start(Count)
FirstLeaf(s) == SumsOf(job.shards)[s - 1]
LeavesOf(s) == [i \in 1..job.shards[s] |-> FirstLeaf(s) + i - 1]

Init ==
    /\ job \in Jobs
    /\ main = "dirs" /\ mode = "off" /\ refused = FALSE
    /\ hasher = [at |-> "check", fed |-> 0, hashed |-> 0] /\ cancel = FALSE
    /\ walk = [at |-> "step", first |-> 0, last |-> 0, chunk |-> 0, err |-> None]
    /\ shards = [leaves |-> <<>>, next |-> 1, digests |-> [s \in DOMAIN job.shards |-> <<>>]]
    /\ queue = <<>> /\ writer = [at |-> "receive", batch |-> <<>>] /\ builder = NewBuilder
    /\ disk = [shards |-> [s \in DOMAIN job.shards |-> <<>>],
               metas |-> FALSE, root |-> <<>>, car |-> <<>>]
    /\ met = {} /\ result = None

\* write_outputs returns: its CAR, if not committed, is removed.
Return(how) == main' = "ended" /\ result' = how

\* An operation of the system fails.
Fails(error) == met' = met \cup {error}

(***************************************************************************)
(* create_dirs, refuse_input_aliases and unixfs_mode: a CAR that cannot be *)
(* opened is reported once the proofs are written.                         *)
(***************************************************************************)
Prepare ==
    /\ main = "dirs"
    /\ \/ Fails("dirs") /\ Return("dirs") /\ UNCHANGED <<mode, refused>>
       \/ main' = "pass" /\ mode' = job.unixfs /\ UNCHANGED <<refused, met, result>>
       \/ /\ job.unixfs = "car" /\ Fails("open")
          /\ main' = "pass" /\ mode' = "root" /\ refused' = TRUE /\ UNCHANGED result
    /\ UNCHANGED <<job, threads, disk>>

(***************************************************************************)
(* hash_file: between two slices the flag is read, after one the counter   *)
(* is raised.                                                              *)
(***************************************************************************)
Check ==
    /\ main = "pass" /\ hasher.at = "check"
    /\ hasher' = [hasher EXCEPT !.at = IF hasher.fed = Size \/ cancel THEN "stop" ELSE "hash"]
    /\ UNCHANGED <<job, main, mode, refused, cancel, walk, shards, queue, writer, builder, disk, met, result>>

HashSlice ==
    LET slice == Min({HasherSlice, Size - hasher.fed})
    IN  /\ hasher.at = "hash"
        /\ hasher' = [hasher EXCEPT !.at = "check", !.fed = @ + slice, !.hashed = @ + slice]
        /\ UNCHANGED <<job, main, mode, refused, cancel, walk, shards, queue, writer, builder, disk, met, result>>

StopHashing ==
    /\ hasher.at = "stop"
    /\ hasher' = [hasher EXCEPT !.at = "ended", !.hashed = MaxU64]
    /\ UNCHANGED <<job, main, mode, refused, cancel, walk, shards, queue, writer, builder, disk, met, result>>

(***************************************************************************)
(* The walk, a step at a time.                                             *)
(***************************************************************************)
\* step_end.
StepEnd(first) ==
    Max({e \in (first + 1)..Min({first + StepLeaves, Count}) :
            e = first + 1 \/ Start(e - 1) - Start(first) < StepBytes})

\* Variant: the flag is set whatever the walk came to.
CancelAlways(err) == TRUE

\* with_file_digest, once the walk returned: a failed walk needs no digest.
Cancelled(err) == err # None

Walked(err) == walk' = [walk EXCEPT !.at = "ended", !.err = err] /\ cancel' = Cancelled(err)

BeginStep ==
    /\ main = "pass" /\ walk.at = "step"
    /\ IF walk.first < Count
       THEN walk' = [walk EXCEPT !.at = "wait", !.last = StepEnd(walk.first)] /\ UNCHANGED cancel
       ELSE Walked(None)
    /\ UNCHANGED <<job, main, mode, refused, hasher, shards, queue, writer, builder, disk, met, result>>

\* Variant: the sum wraps.
WrappingReach == (hasher.hashed + Ahead) % (MaxU64 + 1)

\* How far the walk may go (saturating_add).
AheadOf == Min({hasher.hashed + Ahead, MaxU64})

\* begin_step's wait; then the leaves and chunks are hashed.
HashStep ==
    /\ walk.at = "wait" /\ Start(walk.last) <= AheadOf
    /\ walk' = [walk EXCEPT !.at = "send"]
    /\ UNCHANGED <<job, main, mode, refused, hasher, cancel, shards, queue, writer, builder, disk, met, result>>

\* The last chunk may be short.
ChunksBefore(end) == IF end = Size THEN (Size + Chunk - 1) \div Chunk ELSE end \div Chunk

\* The sink takes the step's chunk digests: the builder, or the queue to the CAR
\* writer, which holds CarQueue and refuses all once the writer is gone.
SendChunks ==
    LET end == ChunksBefore(Start(walk.last))
        digests == SubSeq(job.chunks, walk.chunk + 1, end)
        sent == walk' = [walk EXCEPT !.at = "write", !.chunk = end] /\ UNCHANGED cancel
    IN  /\ walk.at = "send"
        /\ \/ /\ mode = "off" \/ end <= walk.chunk
              /\ walk' = [walk EXCEPT !.at = "write"] /\ UNCHANGED <<cancel, queue, builder>>
           \/ /\ mode = "root" /\ end > walk.chunk
              /\ sent /\ builder' = PushChunks(builder, digests) /\ UNCHANGED queue
           \/ /\ mode = "car" /\ end > walk.chunk
              /\ writer.at # "failed" /\ Len(queue) < CarQueue
              /\ sent /\ queue' = Append(queue, digests) /\ UNCHANGED builder
           \/ /\ mode = "car" /\ end > walk.chunk
              /\ writer.at = "failed"
              /\ Walked("stopped") /\ UNCHANGED <<queue, builder>>
        /\ UNCHANGED <<job, main, mode, refused, hasher, shards, writer, disk, met, result>>

\* Assembler.add: the leaf digests collected, and the shards they complete.
AddLeaf(a, leaf) ==
    LET leaves == Append(a.leaves, leaf)
    IN  IF leaf + 1 = FirstLeaf(a.next) + job.shards[a.next]
        THEN [a EXCEPT !.leaves = <<>>, !.next = @ + 1, !.digests[a.next] = leaves]
        ELSE [a EXCEPT !.leaves = leaves]

Added == Loop(AddLeaf, shards, [i \in 1..(walk.last - walk.first) |-> walk.first + i - 1])

\* The completed shards are written; when one cannot be, others still may.
WriteShards ==
    LET done == shards.next..(Added.next - 1)
        Written(ss) == disk' = [disk EXCEPT !.shards = [s \in DOMAIN @ |->
                                    IF s \in ss THEN Added.digests[s] ELSE @[s]]]
    IN  /\ walk.at = "write"
        /\ \/ /\ Written(done) /\ shards' = Added
              /\ walk' = [walk EXCEPT !.at = "step", !.first = walk.last]
              /\ UNCHANGED <<cancel, met>>
           \/ \E ss \in SUBSET done \ {done} :
                 /\ Written(ss) /\ UNCHANGED shards
                 /\ Fails("shard") /\ Walked("shard")
        /\ UNCHANGED <<job, main, mode, refused, hasher, queue, writer, builder, result>>

(***************************************************************************)
(* The CAR writer.                                                         *)
(***************************************************************************)
Receive ==
    /\ mode = "car" /\ writer.at = "receive" /\ queue # <<>>
    /\ writer' = [at |-> "push", batch |-> Head(queue)]
    /\ queue' = Tail(queue)
    /\ UNCHANGED <<job, main, mode, refused, hasher, cancel, walk, shards, builder, disk, met, result>>

\* A section that cannot be written ends the writer, and the queue with it.
PushBatch ==
    /\ writer.at = "push"
    /\ \/ /\ writer' = [at |-> "receive", batch |-> <<>>]
          /\ builder' = PushChunks(builder, writer.batch)
          /\ UNCHANGED <<queue, met>>
       \/ /\ writer' = [at |-> "failed", batch |-> <<>>] /\ Fails("car")
          /\ queue' = <<>> /\ UNCHANGED builder
    /\ UNCHANGED <<job, main, mode, refused, hasher, cancel, walk, shards, disk, result>>

\* The sender is dropped and the queue empty.
EndOfQueue ==
    /\ main = "join" /\ mode = "car" /\ writer.at = "receive" /\ queue = <<>>
    /\ writer' = [writer EXCEPT !.at = "ended"]
    /\ UNCHANGED <<job, main, mode, refused, hasher, cancel, walk, shards, queue, builder, disk, met, result>>

(***************************************************************************)
(* write_outputs goes on.                                                  *)
(***************************************************************************)
\* The hasher is joined, and the sender dropped.
JoinHasher ==
    /\ main = "pass" /\ walk.at = "ended" /\ hasher.at = "ended"
    /\ main' = "join"
    /\ UNCHANGED <<job, mode, refused, threads, disk, met, result>>

\* "A CAR write error is the cause of a stopped writer, so it wins."
PassError == IF writer.at = "failed" THEN "car" ELSE walk.err

\* The writer is joined, and the builder finished: into the CAR, if there is one.
EndPass ==
    /\ main = "join" /\ (mode = "car" => writer.at \in {"ended", "failed"})
    /\ IF PassError # None
       THEN Return(PassError) /\ UNCHANGED <<builder, met>>
       ELSE \/ /\ main' = "metas" /\ builder' = (IF mode = "off" THEN builder ELSE Finish(builder))
               /\ UNCHANGED <<met, result>>
            \/ mode = "car" /\ Fails("car") /\ Return("car") /\ UNCHANGED builder
    /\ UNCHANGED <<job, mode, refused, hasher, cancel, walk, shards, queue, writer, disk>>

WriteMetas ==
    /\ main = "metas"
    /\ \/ main' = "root" /\ disk' = [disk EXCEPT !.metas = TRUE] /\ UNCHANGED <<met, result>>
       \/ Fails("proof") /\ Return("proof") /\ UNCHANGED disk
    /\ UNCHANGED <<job, mode, refused, threads>>

Descriptor ==
    [map |-> hasher.fed, shards |-> shards.digests,
     unixfs |-> IF mode = "off" THEN <<>> ELSE <<Root(builder)>>]

WriteRoot ==
    /\ main = "root"
    /\ \/ main' = "commit" /\ disk' = [disk EXCEPT !.root = <<Descriptor>>] /\ UNCHANGED <<met, result>>
       \/ Fails("proof") /\ Return("proof") /\ UNCHANGED disk
    /\ UNCHANGED <<job, mode, refused, threads>>

\* block: a section unless this CID was already written.
AddSection(car, node) == IF node \in ToSet(car) THEN car ELSE Append(car, node)
Sections == Loop(AddSection, <<>>, builder.emitted)

\* car_error, or commit.
Commit ==
    /\ main = "commit"
    /\ IF refused THEN Return("open") /\ UNCHANGED <<disk, met>>
       ELSE \/ /\ disk' = IF mode = "car"
                          THEN [disk EXCEPT !.car = <<[root |-> Root(builder), sections |-> Sections]>>]
                          ELSE disk
               /\ Return(Ok) /\ UNCHANGED met
            \/ mode = "car" /\ Fails("car") /\ Return("car") /\ UNCHANGED disk
    /\ UNCHANGED <<job, mode, refused, threads>>

Hasher == Check \/ HashSlice \/ StopHashing
Walker == BeginStep \/ HashStep \/ SendChunks \/ WriteShards
Writer == Receive \/ PushBatch \/ EndOfQueue
Main == Prepare \/ JoinHasher \/ EndPass \/ WriteMetas \/ WriteRoot \/ Commit

Next == Hasher \/ Walker \/ Writer \/ Main

\* The scheduler runs every thread, and the disk answers.
Fairness == WF_vars(Hasher) /\ WF_vars(Walker) /\ WF_vars(Writer) /\ WF_vars(Main)

Spec == Init /\ [][Next]_vars /\ Fairness

(***************************************************************************)
(* Properties.                                                             *)
(***************************************************************************)
\* "`root` last, so a reader that finds it can trust every file it names was
\* written first" (pack.rs): in any state a crash may leave, a root names shards
\* and metas that are there and whole, in leaf order, and commits to the digest
\* of the whole file and to the root of its balanced DAG.
RootIsTrue ==
    \A root \in ToSet(disk.root) :
        /\ disk.metas
        /\ \A s \in DOMAIN job.shards :
              disk.shards[s] = LeavesOf(s) /\ root.shards[s] = LeavesOf(s)
        /\ root.map = Size
        /\ root.unixfs = IF job.unixfs = "off" THEN <<>> ELSE <<BalancedRoot(job.chunks)>>

\* A CAR under its final name is the file's balanced DAG in the order of SPEC 8,
\* post-order with every block once, where it first occurs, whatever steps its
\* chunks came in; and the root that names the same DAG is there.
CarIsTheDag ==
    \A car \in ToSet(disk.car) :
        LET order == PostOrder(job.chunks)
            First(node) == Min({i \in DOMAIN order : order[i] = node})
        IN  /\ disk.root # <<>> /\ disk.root[1].unixfs = <<car.root>>
            /\ ToSet(car.sections) = ToSet(order)
            /\ \A i, k \in DOMAIN car.sections :
                  i < k => First(car.sections[i]) < First(car.sections[k])

\* A pack ends, whichever threads fail, and reports an error that happened, never
\* one that only followed from it; it reports success only when nothing failed.
EndsWithItsCause ==
    <>(result # None /\ IF result = Ok THEN met = {} ELSE result \in met)

=============================================================================
