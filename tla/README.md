# veritiles in TLA+

A TLA+ model of veritiles: clients that read tiles, assets and ranges of large
files from hosts they do not trust, check every byte against a CID, and move on
to another host when one fails or lies; and the packer that writes the proofs
they check against.

The modules model the TypeScript client in `packages/core` and its routers,
where the hard behaviour is: several reads at once sharing lists, bans, bodies
and caches, each able to abort at any await. They also model the reference packer
(`tools/pack.ts`), the format it shares with the client, the order in which it
writes its outputs, and the threads of the Rust packer. Paths below are those of the repository.

## 1. The system

### Client (TypeScript)

| component | state it keeps | operations | properties that make it correct |
|---|---|---|---|
| **Locations** `core/src/locations.ts` | per CID: the list held, the router's stream (open, ended, stale), values read, the one read under way | `held`, `ended`, `pull`, `exhausted`, `#advance` | a read is shared and settled for all who wait; a stream is read only as far as a fetch needs, at most `MAX_LOCATED_VALUES`, and asked again only after it ended and everything failed |
| **Failover and faults** `failover.ts`, `abortable.ts` | per client: bans per (CID, location), demoted locations by age of last failure; per call: tried, errors | `failover`, `Faults.record`, `served` | honest locations are never banned; SPEC section 4's order; no call gives up while something is left to try; every call ends |
| **Verified store** `verified-store.ts` | LRU cache with a byte budget, fetches in flight with reference counts, counts of checks | `fetchChecked`, `dedup`, `cachePut`, `judged` | a fetch lives exactly as long as somebody wants it; one reader's abort is not another's; the cache's byte count is exact; every read ends |
| **Ranged store and verdicts** `ranged-store.ts`, `verdict.ts` | the leaves a speculative body may hold, a tally of its readers' verdicts | speculative range fetches, per leaf checks, one verdict per body | nothing unverified is cached; one verdict per body, after its last reader |
| **Ranged reader** `ranged-reader.ts` | one read: its shards, its runs, the bodies adopted | `read`, fallback per run | a read returns the bytes it asked for; a bad body costs a second fetch, not the read |
| **Verified file, early requests** `verified-file.ts`, `early-source.ts` | the memoised open, its early responses | `open`, `read`, `claim`, `release` | a failed open is retried by the next read; an early response has one owner and settles once |
| **Proof tree** `proof-format.ts`, `proof-index.ts`, `descriptor.ts` | immutable bytes: root, metas, shards | parse, find the shard of an offset, the leaves of a range | levels tile the file exactly, zero gaps, zero overlaps |
| **Bundle, proof CAR, manifest** `bundle.ts`, `proof-source.ts`, `car.ts`, `manifest.ts` | the shared root promise, candidate CAR sections | open a bundle, find a block | a failed root is forgotten; a section is trusted only for the CID it hashes to |
| **Raw client** `raw.ts` | none | fetch a raw block | none of its own (the store's) |
| **Routers** `default-router.ts`, `hints.ts`, `fisl-router` | hinted directories, probed documents; two raced streams and a deadline | `open`, `rest`, `race` | every ask ends; no value of either stream is lost; nothing is given up while a document may still name a location |
| **Requests** `http-source.ts`, `range-source.ts`, `routing.ts`, `read-body.ts`, `url.ts` | none | HTTP, capped bodies | a body stops at its cap |
| **Codecs** `verify.ts`, `cid.ts`, `drisl.ts` | none | digest, parse, canonical CBOR | decode inverts encode, and nothing else decodes |
| **Router interface, limits** `packages/router`, `limits.ts` | none | types, constants | - |
| **Adapters** `packages/veritiles` | none of their own | PMTiles source, MapLibre protocol | the core clients' |

### Packer (Rust) and its TypeScript reference

| component | state | operations | properties |
|---|---|---|---|
| **Pass over the input** `pipeline.rs`, `scan.rs`, `pass.rs`, `unixfs.rs` | a hasher, a walk and a CAR writer, each a thread; two atomics and a bounded queue between them; the links that wait for a parent | hash leaves and chunks, write shards, push chunks, cancel | no thread waits for another for ever; the error reported is the one that happened; the DAG is that of one importer |
| **Proof tree layout, cuts** `proof/`, `plan/` | none | lay leaves into shards and metas | the tree the client's index reads back |
| **Outputs** `pack.rs`, `car.rs`, `assets.rs` | files of the output directory | write shards, metas, root, CAR, manifest | a root never names a file not written, nor commits to an unfinished digest, also after a crash |
| **Verification** `verify/` | none | compare a proof directory with its input | sequential |
| **Reference packer** `tools/pack.ts` | files of the output directory | profiles, cuts, bands, the tree, the outputs, the asset bundle | what it packs reads back; a root, a CAR and the input stay whole whatever fails |

### How they interact

A read of a `VerifiedFile` or a bundle becomes calls of a store. A store looks
in its cache, joins a fetch in flight or opens one. A fetch is a run of
`failover` over its CID's `Locations`: each attempt is an HTTP request and a
check of what came back. All CIDs of a client share one `Faults`, all readers of
a CID share one `Locations`, all readers of a key share one fetch, and both
stores of a file share one `stats`. JavaScript runs without interruption from
one await to the next, so all of that sharing happens at awaits: each is a point
where every other read may change what the resumed code looks at next.

The hard behaviours, each at its line, are the `hazards` of `PROJECT.json`:
lists that grow and are reordered while a fetch waits; a shared read that must
settle for all; a stream renewed under its reader; reference counts of shared,
cancelled and replaced fetches; a count read before an await and written after
it; budgets and limits at their edge; documents that name one another; trees at the
edge of their caps; writes over older outputs with a crash between any two;
threads that wait for one another while any of them may fail; and that every call
ends.

## 2. The modules

| module | what it is | models |
|---|---|---|
| `Locations` | data and operations of one CID's list and stream; the router is its environment | `locations.ts`, the streams of `default-router.ts` |
| `Failover` | extends `Locations`: concurrent calls of `failover` over shared lists and faults | `failover.ts`, `abortable.ts` |
| `MCFailover` | small instances for TLC | |
| `FailoverProofs` | theorems | |
| `ReadContract` | abstract specification: every reader has its own fetch | the promise in `dedup`'s comment |
| `VerifiedStore` | the store, its cache, shared fetches and counts | `verified-store.ts` |
| `MCVerifiedStore` | small instances for TLC | |
| `VerifiedStoreProofs` | theorems, among them that `VerifiedStore` implements `ReadContract` | |
| `Speculation` | reads of a ranged file that share speculative bodies | `ranged-reader.ts`, `verdict.ts`, the speculative half of `ranged-store.ts` |
| `MCSpeculation` | small instances for TLC | |
| `SpeculationProofs` | theorems | |
| `Opening` | reads of a file before it is open, the shared open, its retries, and the requests sent early | `verified-file.ts`, `early-source.ts` |
| `MCOpening` | a small instance for TLC | |
| `OpeningProofs` | theorems | |
| `Hints` | the built-in router's streams and the hints plugin behind them | `default-router.ts`, `hints.ts` |
| `Fisl` | extends `Hints`: the race of those streams with a lookup in the index | `fisl.ts`, `records.ts` of `packages/fisl-router` |
| `MCRouting` | small instances of `Fisl` for TLC | |
| `FislProofs` | theorems | |
| `Assets` | pure functions: the manifest of a directory, the CAR bag, `pack assets` | `manifest.ts`, `car.ts`, `packAssets` |
| `Bundle` | extends `Assets`: reads of a bundle that share the load of its proof | `bundle.ts`, `proof-source.ts` |
| `MCBundle` | small instances for TLC | |
| `BundleProofs` | theorems | |
| `Cuts` | pure functions: where each profile cuts a file, and its bands | `tools/pack.ts` |
| `ProofTree` | extends `Cuts`: the tree the packer lays out and the client's descent of it | `buildProofTree` and the encoders; `proof-format.ts`, `proof-index.ts`, `descriptor.ts` |
| `Packing` | extends `ProofTree`: pack a file, write its outputs, read any range back | `pack`, `packCommand`, `writeOutputs`, `verifyBytes`, `proofReader` |
| `MCPacking` | small instances for TLC | |
| `PackingInvariants` | extends `Packing`: the invariants its theorems rest on, and what their lemmas speak of | |
| `PackingProofs` | extends `PackingInvariants`: theorems | |
| `UnixFs` | pure functions: the builder of the UnixFS DAG, and the balanced DAG it must come to | `packer/src/unixfs.rs` |
| `Packer` | extends `UnixFs`: the Rust packer's threads and outputs | `pass.rs`, `pipeline.rs`, `scan.rs`, `write_outputs` of `pack.rs`, `car.rs` |
| `MCPacker` | small instances for TLC | |
| `PackerProofs` | theorems | |

A step of a model is the code between two awaits, whole: what the resumed code
records, the loop it goes round, up to the next await, its success or its
failure. Operators named "variant" are other ways the code could have been
written; no specification uses them. Each property has one that breaks it.

### Locations and Failover

| model | code |
|---|---|
| `held`, `state`, `read`, `pending` | `#held`, `#state`, `#read`, `#pending` |
| `banned`, `demoted` | `Faults.#banned`, `Faults.#demoted` (a `Set` in insertion order, so a sequence) |
| `fetch[f]` | a call's locals `tried`, `errors`, the location under way, and where it awaits |
| `Start` | a call, run synchronously to its first await |
| `Serve`, `FailInTransport`, `ServeWrongBytes`, `RejectAborted` | what an attempt comes to, with the `catch` block and the rest of the loop |
| `Read` | one round of `#advance`; the one that settles the read frees all who wait |
| `Resume` | the continuation of `await locations.pull(signal)` |
| `Abort` | the caller's signal; `abortable` frees the waiter, the read goes on |

`calls` counts calls for the bound `MaxCalls`. `faultOrder` is a history variable: every
location that failed, by its latest failure; a success does not take a location
out of it as it does out of `demoted`, so `OrderOfLocations` compares what the
code did with something the code does not keep.

`aborted` stays FALSE for a caller that passes no signal: such a caller simply
never takes `Abort`. A pull that settled before an abort runs on (`resumed`), as
the promise it awaits has already resolved; an attempt that succeeds after an
abort is served, as in the code.

Hosts are in the constants: `Honest` holds the pairs of a CID and a location
that never serves wrong bytes for it, `Reliable` those that serve whenever
asked. Everything else may serve, fail or lie, differently each time.

`#take` passes the built-in router's own values as they are, a custom router's
if they are well formed (`WellFormed`) or came out of `defaults`; a custom
router need not have read `defaults`, so both are possible.

### VerifiedStore and ReadContract

| model | code |
|---|---|
| `cache`, `cacheBytes` | `#cache` (a `Map` in insertion order), `#cacheBytes` |
| `inflight`, `fetch[e]` | `#inflight` and its `Inflight` records, with the run of `failover` each stands for |
| `stats`, `fetch[e].seen` | `stats`; the count that `stats.verified += await check(...)` has read |
| `Refuse`, `Hit`, `Join`, `Open` | the four ways `#checked` and `dedup` begin |
| `Abort`, `Resume` | `onAbort`; the return from `await entry.promise` |
| `Locate`, `RequestFails`, `Receive`, `CheckPasses`, `CheckFails` | what `#whole` and `failover` do at each await |
| `Clean` | the `finally` that takes the entry out of the map, if it is still there |

A reader that aborts waits on until the shared promise settles: that is what the
code does, and `reader[r].pc` stays `reading`. `refs` goes down only when a
reader aborts, not when it has been served. `Settled` and `Clean` are two steps
because `finally` runs in a later microtask than the promise it follows, and
readers may come between. `failover` is abstracted to any sequence of attempts
and pulls below the cap of failures; `Failover` is the model of which.
`passed` is a history variable: the hash checks that passed.

`ReadContract` has two variables, the status of each reader's read and whether
its signal aborted it. `VerifiedStore` maps `reader[r].pc` and `signal[r]` to
them. What it adds - the cache, the sharing, the cancelling - must not show.

### Speculation

| model | code |
|---|---|
| `body[e]` | the `Inflight` entry of a speculative range and the `Tally` beside it; `e` is the read that opened it |
| `read[r].handle` | the promise `speculative` of a read, from waiting to reported |
| `read[r].run` | what became of each leaf's run; all leaves of a run are in the same state |
| `Speculate` | `onShardsRequested`: open or join, and join the tally |
| `Located` | the code from the leaves to the first await: copy, group, cancel, begin each run |
| `TakeBody`, `Report` | the end of `fetchRangeUnverified`, `report` |
| `RunResumes`, `Adopt`, `Reject`, `RunServed`, `RunFails` | a run: `await spec.body`, `adoptSlices`, `fetchRun` |

The file is its leaves in order; a range covers some and has some of them whole.
A body is the set of its leaves whose slices match. `adoptSlices` awaits one
digest after the other, of bytes nobody else touches, so its checks are one
step. `fetchRun` is a shared read of the store: it is served, fails or is
aborted as `ReadContract`, proved of `VerifiedStore`, lets it; that its run and
another may share a fetch does not show. A lookup is such reads too, and its
nodes may be cached (`Lookups`). The cache holds a number of leaves, and which
of them goes is left open. `Kept` is what earlier reads may have left in it.
`stats` is not modelled here.

### Opening

| model | code |
|---|---|
| `memo`, `built`, `open[k]` | `#reader`, `#built`, how far the k-th `#build` came |
| `early`, `request[q]` | the maps of the `EarlySource`; each request sent early, whether it was dropped, and how often its outcome was settled |
| `proof` | `#earlyProof` |
| `Ready`, `Start` | `ready`; `read` up to its first await: the open joined or begun, its `root` and `0`, the read's own range |
| `Locate`, `Build`, `FailOpen`, `Forget` | `#build` at its awaits; the `catch` that clears the memo |
| `Fetch`, `Take`, `Retry`, `AnswerFresh` | `claim`, and what becomes of a claimed or a fresh request |
| `LeaveBeforeOpen`, `OpenFailed`, `Finish`, `Break` | the ways a read ends, each with the release and the drop of its `finally` |
| `Answer`, `Lose` | the network: also of a request that was cancelled |

`Notified(k)` is where the order of promise reactions matters: the open's own
`catch` was attached first, so it has cleared the memo before any read is told
(`OpenFailed` waits for `Forget`). Which of its two early requests a read needs
depends on what the cache holds, so `Opened` leaves it open. `settled` counts
verdicts and cancellations of a body: each must come to exactly one.

### Hints and Fisl

| model | code |
|---|---|
| `docUrls`, `docs`, `inflight`, `attempted` | `#docUrls`, the settled and the pending keys of `#docs`, `#attempted` |
| `wait[p]`, `loads[s]` | what a process awaits; the `load` that an `open` leaves running behind it |
| `stage[s]`, `left[s]`, `todo[s]`, `probed[s]` | where the generator of `DefaultRouter` is, what it has yet to yield or to fetch, what this probing asked for |
| `next[s]`, `answer[s].next` | the promises `race` holds, one per stream |
| `Open`, `Yield`, `BeginRest`, `LoadStep`, `Hinted`, `Probe`, `EndRound`, `Located` | the generator between two awaits or yields |
| `ReadDoc` | the end of `#readDoc`, for all that wait |
| `Begin`, `Pull`, `Hand`, `Finish`, `Close` | `race`: its first `next()`, another, a value, the end, `return()` |
| `Answer`, `Refuse`, `Deadline`, `Abort`, `Name` | the lookup: its answer, failure, deadline, the close that aborts it, its records in rounds |

A stream of the built-in router runs only while a `next()` of it is outstanding;
the load behind it runs by itself. A document's content is a constant and its
fetch may fail each time it is tried. The page a client begins with (what is
configured, what names documents, what was asked for) is one of the constant
`Pages`. `yielded`, `named` and `handed` are histories of what each stream and
the race gave; `handed` is kept per stream, so that the history of one is not that of
the other. A selection from a sequence is written with the places selected
(`Selected`), which the prover can reason about.

### Assets and Bundle

| model | code |
|---|---|
| `packed` | what `packAssets` made; the bundle's CID is its manifest's |
| `promise`, `load[k]`, `bag`, `discarded` | `#rootPromise`, its `#load`s, `#bag` with `#rootMemo`, `#discarded` |
| `tried[l]` | what a location answered in this load |
| `Load`, `FailLoad`, `Forget` | `#load` over its locations; the `finally` that clears the promise |
| `Start`, `Refuse`, `Resolve`, `Serve`, `Discard`, `Fetch` | `bytes` and `#entry` at their awaits |

A host answers with what was packed, with its manifest alone, with a CAR whose
sections lie, or not at all. A digest is the bytes it is of.

### Cuts, ProofTree and Packing

| model | code |
|---|---|
| `job` | the input, its options, and whether a full CAR is asked for |
| `packed` | the `Packed` that `pack` returned |
| `phase`, `next` | where `writeOutputs` is; the proof file `writeProofs` is at |
| `disk`, `dirs`, `tmp`, `car` | the output directory, the CAR's `.tmp` and the CAR |
| `alias` | the existing output that is the input file under another name |
| `Begin`, `PackInput`, `MakeDirs`, `RefuseInputAliases`, `OpenCar`, `Truncate`, `Fill`, `EndProofs`, `WriteCar`, `RenameCar` | `packCommand` and `writeOutputs`, in order |
| `Fail`, `Crash` | a step that throws, with the `.tmp` removed; a process that dies |
| `Read` | a client with an anchor: descriptor, descent, leaves of a range |

A file is the structure its profile reads - sections and directory entries, or
boxes - and not its bytes; a digest is the content it is of, so a path that holds
other content than the tree committed to is a path with a wrong digest. The
algorithms (cuts, grouping, bands, shard ranges, the split of directories, the
search in a shard) are operators that follow the code step by step; what they
must come to is stated by the invariants. `UniqueBy` and `StableSort` are
JavaScript's set by key and stable sort.

A write is two steps, `Truncate` and `Fill`, since `writeFile` truncates first. A
second run writes over what the first left: files of the older pack stay, a name
may be a file in one and a directory in the other. A crash then leaves the old
`root` beside files already replaced; a client that has the old anchor gets an
error and never wrong leaves, which is what `ReadsAreRight` says, while
`RootComesLast` speaks of the run that wrote the root.

### UnixFs and Packer

| model | code |
|---|---|
| `hasher.hashed`, `cancel` | the atomics `hashed` and `cancel` of `Scan` |
| `hasher.fed` | the bytes the BLAKE3 hasher took: the digest is of those |
| `walk`, `shards` | the locals of `walk_leaves`; the `Assembler` |
| `queue`, `writer`, `builder` | the channel to the CAR writer, its thread, the `Builder` it or the walk runs |
| `disk` | what is under its final name; a file being written is not |
| `Prepare` | `create_dirs`, `refuse_input_aliases`, `unixfs_mode` with the CAR that cannot be opened |
| `Check`, `HashSlice`, `StopHashing` | `hash_file`: the flag, a slice with its `fetch_add`, the last store |
| `BeginStep`, `HashStep`, `SendChunks`, `WriteShards` | one round of `walk_leaves` |
| `Receive`, `PushBatch`, `EndOfQueue` | the CAR writer's loop |
| `JoinHasher`, `EndPass`, `WriteMetas`, `WriteRoot`, `Commit` | the joins and the rest of `write_outputs` |

The three threads interleave at their atomics, at the channel and at writes. Leaves
and chunks of a step are hashed by rayon's tasks, which are joined before the walk
goes on, so a step is one action. When several shards of a step are written at
once and one fails, any of the others may have been. A CID is the content it is of, so
equal chunks are one block, which the CAR holds once. A crash is any state the
packer stops in: `RootIsTrue` and `CarIsTheDag` speak of every state's `disk`. The
directory begins empty, as older outputs are `Packing`'s subject. `met` is a
history: the errors the system gave.

## 3. The runs

| run | configuration | what it shows |
|---|---|---|
| `failover` | `Failover.cfg` | Two CIDs with three locations behind the built-in router: a verified fetch of each, called twice and once, and a speculative one. `l1` lies about one CID and is right for the other, `l3` is reliable. Types and limits, `HonestNeverBanned`, `WaitersAreServed`, `OrderOfLocations`, `NeverGivesUpEarly`. |
| `failover_router` | `FailoverRouter.cfg` | A custom router that repeats itself, names a malformed URL, ends or throws; a cap of failures (2) below the number of locations (3) and a cap of values (4). Under fairness, `EveryCallEnds`. |
| `store` | `VerifiedStore.cfg` | Two readers of one key that may abort, one of which reads twice, and a third reader whose key does not fit the cache beside theirs; two fetch records. `FetchesAreShared`, `CacheExact`, the refinement `KeepsContract`, and under fairness `ReadsEnd`. |
| `store_stats` | `VerifiedStoreStats.cfg` | `VerifiedCountsChecks` does not hold: see section 6. |
| `speculation` | `Speculation.cfg` | Three leaves; two cold reads of all of them, one of which may abort, and a warm one of the middle leaf that splits what they miss into two runs; a body is right, wrong, or right in its first leaf only; lookups and verified runs may fail. `Verified`, `OneVerdict`. |
| `speculation_live` | `SpeculationLive.cfg` | Two reads whose range begins inside the first leaf, so that a run adopts the body only if that leaf is cached; one of them may abort. `NoIdleBody`, and under fairness `EveryBodyIsJudged`, `SpeculationIsHarmless`. |
| `speculation_whole` | `SpeculationWhole.cfg` | `WholeBodyOrNothing` does not hold: see section 6. |
| `opening` | `Opening.cfg` | Two reads of one range, one of which may abort, a `ready` beside them, and two opens; each request sent early may be lost. `EarlyNeverHurts`, `RetryIsFresh`, and under fairness `AllSettle`. |
| `routing` | `Routing.cfg` | Two asks on each of four pages of a ranged file; documents that name one another's directories in a circle, one past the cap, one not an object; an index that answers, refuses or says nothing. `NothingLost`, `EmptyHandedAtTheEnd`, and under fairness `Served`. |
| `bundle` | `Bundle.cfg` | Four directories; two reads of any of four paths; two proof hosts that serve what was packed, four lies, or nothing; two loads. `OnlyTheFile`, `PackedIsAccepted`, `RootIsRetriedOnce`. |
| `packing` | `Packing.cfg` | Some 1,500 inputs: fixed files, PMTiles archives in both layouts with shared, overlapping and missing tiles, MP4 files of every order of boxes, trees no packer of this repository would write, and three packs written over one another in two runs with failing steps and crashes; every range of each is read. The eight invariants of `Packing`, and `InputUntouched`. |
| `packer` | `Packer.cfg` | Files of one to seven leaves, shorter and longer than a step and than the distance to the hasher, cut into shards in every way (the longest in two), with chunks that repeat or not, without UnixFS, with its root, and with the CAR; the directories, the CAR's opening and each write may fail. `RootIsTrue`, `CarIsTheDag`, and under fairness `EndsWithItsCause`. |

The properties, in the words of the code:

- `HonestNeverBanned` - a ban is per CID and only for wrong bytes: whatever a
  location did for other CIDs or to callers that aborted, one that never lied
  about a CID is never banned for it.
- `WaitersAreServed` - whoever awaits a pull awaits a read that is under way, of
  an open stream below its limit: nobody's promise is forgotten and no stream is
  renewed under a reader.
- `OrderOfLocations` - the order of SPEC section 4 at each attempt: never a banned
  or already tried one; a demoted one only when no other will do and the router
  has nothing left; then the one whose latest failure is oldest.
- `NeverGivesUpEarly` - a call that fails below its cap has tried every honest
  location held, none of them reliable, and, unless it speculates, has read its
  router to the end and marked it to be asked again.
- `FetchesAreShared` - a fetch that runs and was not cancelled is in the map
  under its key, and counts exactly the readers that still want it, at least one.
- `CacheExact` - no key twice, the byte count is the sum of the sizes, within budget.
- `KeepsContract` - each reader sees what it would if it fetched alone.
- `EveryCallEnds`, `ReadsEnd` - liveness.
- `Verified` - a read that is served has the right bytes of all its leaves, from
  wherever they came, and nothing wrong is cached.
- `OneVerdict` - a shared body's verdict goes out after its last reader is
  through, and is the strongest any of them came to.
- `NoIdleBody` - a body under way is in the map and counts the readers that can
  still use it, at least one.
- `EveryBodyIsJudged` - a body that arrived gets a verdict, whatever its readers do.
- `SpeculationIsHarmless` - a read that is not aborted is served if its leaves
  can be looked up and fetched, whatever its speculation brings.
- `EarlyNeverHurts` - "an early request can save a round trip but never change an
  outcome": a read fails only with its open, or because a request that left when
  the read asked for it failed.
- `RetryIsFresh` - once any caller knows that an open failed, no read joins it.
- `AllSettle` - every read that began ends and every request sent early is settled
  exactly once: claimed, released, dropped or lost, in whatever order.
- `NothingLost` - what the caller got of each raced stream, with the value that
  waits for it, is all the stream yielded, in its order.
- `EmptyHandedAtTheEnd` - a stream ends without a location only if no document
  read names one and every directory beside the anchor, newly hinted ones
  included, was asked for or is past the cap.
- `Served` - whoever waits for a location gets one, or the end of the race.
- `OnlyTheFile` - a read of a bundle returns the bytes the packed directory has
  under its path, whatever the proof's hosts serve.
- `PackedIsAccepted` - what `pack assets` makes, the client takes: shared files,
  sorted keys and the inline budget included.
- `RootIsRetriedOnce` - nobody joins a load of the root known to have failed; a
  root once loaded is not loaded again.
- `ReadsAreRight` - whatever a pack, a failed write or a crash left on disk, a
  client that descends from an anchor gets exactly that pack's leaves over its
  range, or nothing.
- `RootComesLast` - once a run has written its root, no read fails.
- `LeavesTile` - whatever tree a publisher commits to, the leaves a client accepts
  follow one another without gap or overlap and cover the range asked for.
- `FlatWhenFits` - the tile group chosen by counting shards is the first whose tree
  is flat when it is built, and the last one when none is.
- `TilesAreCheap` - the leaves a tile needs hold no more than the budget, or than
  the tile itself.
- `FragmentIsOneLeaf` - a fragment with the boxes that open its segment is one leaf.
- `CarIsWhole` - the CAR is the whole DAG, every block once and after those it
  links to; a failed run leaves no `.tmp` it opened.
- `InputUntouched` - a run never writes the file it packs.
- `RootIsTrue` - in any state a crash may leave, a root names shards and metas that
  are whole, in leaf order, and commits to the digest of the whole file and the
  root of its balanced DAG: never to what a cancelled hasher or a builder left
  unfinished came to.
- `CarIsTheDag` - a CAR under its final name is the file's DAG in the canonical
  order of SPEC section 8, whatever steps its chunks came in, and the root beside it
  names the same DAG.
- `EndsWithItsCause` - a pack ends, and reports an error that happened, not one that
  only followed from it; it reports success only when nothing failed.

`Packing!TypeOK` also says that no meta is larger than its cap, which no encoder
checks, and `Fisl!TypeOK` that a document is fetched once at a time and that no
more are registered than the cap.

### Bounds

`MaxCalls` and `MaxReads` bound how often a caller calls; a second call is what
shows a renewed stream, kept bans and demotions, or a cache that survived, and
one caller makes it while the others are still under way. Three callers give
each shared thing (list, faults, read, fetch) two users with a third that
changes it from outside. Two fetch records are enough for a cancelled fetch
whose check still runs and the fetch that replaced it under the same key, or one
of each key; when no record is free `Open` waits, which removes
behaviours but adds none. `store_stats` has three, and `SharedFetches` and
`ReadersContract` are proved for any number. `MaxLocatedValues`, `MaxFailedLocations` and `MaxFailures` are the code's
limits (`limits.ts`) at small values; in one run each is small enough to be reached and in
another large enough not to be. The proofs hold for every value of all of these.

In `Speculation` a read is one call, and three leaves are the fewest that two
runs need. Aborts are one reader's: the other shows that they are not its own.

Two reads and two opens (`MaxOpens`) are what `Opening` needs for a read that
fails with the first open while the other begins the second, and for a read of
an older open that drops what a newer one sent. In `Routing` two asks give each
document two readers beside the load; `MaxDocs = 3` of four documents makes the
cap bite, `MaxUrls = 2` and `MaxLines = 2` cut a list and an answer. `Bundle` needs
two reads for a root that one retries after the other's load (`MaxLoads = 2`)
failed, and for a section both hash and discard.

`Packing` scales the format down: two records a shard, four entries a meta, two
a sub-meta, groups of 1 or 3 bytes, a probe of 5. At these sizes a 24-leaf file
nests directories three deep; 4, 9 and 5 leaves make a flat tree, directories,
and a flat tree again, whose names clash on disk; and directories of 5, 8 and 11
tiles make trees on both sides of the top meta's cap. `MaxRuns = 2`: one output
over another. `MaxDepth = 4` bounds the depth of the descent, above what these
trees have.

`CHECK_DEADLOCK FALSE` is in every configuration: the calls are bounded, so a
run stops when its last call has ended. That no call is stuck is what
`EveryCallEnds`, `ReadsEnd` and `SpeculationIsHarmless` check.

In `Packer` lengths are scaled down: a fanout of 2, chunks and slices of two units,
steps of three units or two leaves, two units ahead of the hasher, and the
code's own queue of two. A leaf of five units is longer than a step and than what the walk may be
ahead; five steps are more than the queue, the writer and the walk hold; five
chunks make a parent with a single child below the root, and nine a DAG of four
levels above its chunks. `MaxU64 = 31` is above every size, as the code's is; the addition
that reaches it saturates.

No run uses symmetry.

### Fairness

`Failover!Fairness` is weak fairness of the outcome of an attempt, of a
continuation, and of a step of a router's stream. `VerifiedStore!Fairness` is
weak fairness of a fetch's progress and of a reader's continuation. The code
relies on the same: `failover` has no timeout of its own, so it assumes that a
request and a router's `next()` are answered in the end (the page's fetch
fails, or the caller aborts), and the event loop runs every promise reaction
that is queued. `Speculation!Fairness` is weak fairness of a read's steps and of a
body's; as a read has finitely many, that puts none of them off for ever. No fairness is assumed of callers starting or aborting. A router
may yield junk for ever: the calls end because `#advance` counts.

`Opening!Fairness`: each read's steps, each open's, the `catch` that forgets, and an
outcome for each request, assumed of the network as above. `Fisl!Fairness`: the
race's steps, the deadline and the abort of a lookup, the naming of records, the
load, the stream, and the reading of each document. It does not make the index
answer, nor the caller pull or close. `GoesOn(s)` is the weak fairness of a stream's
steps, written as the formula `WF` stands for, because TLC's ENABLED of these
actions is costly: a stream is infinitely often not running, or infinitely
often moves on.

`Packer!Fairness` is weak fairness of each of the four threads: the system runs
every thread, writes return, and the walk's polling sees the counter in the end.

## 4. What is proved

With TLAPS, for every set of CIDs, locations, callers, readers, keys, documents,
directories and jobs and every value of the limits, from the named assumptions of the
modules: the types of the constants, positive limits, reliable hosts being honest,
finitely many readers (`LocationsAssumption`, `FailoverAssumption`,
`VerifiedStoreAssumption`, `SpeculationAssumption`, `OpeningAssumption`); that a page
and the documents name known directories (`HintsAssumption`); that paths have an
order, the inline budget is within the client's cap, a packed directory is a finite
function from paths to contents, and no file in one has the bytes of its manifest, which
would have to name its own digest (`AssetsAssumption`, `BundleAssumption`,
`ManifestAssumption`); that a node has at least two links and steps,
slices and queues hold something (`UnixFsAssumption`, `PackerAssumption`); how the blocks
of a DAG are numbered (`CarAssumption`); and of a
job (`JobsAssumption`) that no leaf is empty, as `plan` refuses a record of length 0
(`packer/src/proof/tree.rs:111`), that the shards have all the leaves, and that the
chunks are those of the file. TLC evaluates each in the runs of its module.

`FailoverProofs`:

- `Invariance`, `TypeCorrect` - the inductive invariant, and `TypeOK` from it;
- `NoHonestLocationBanned` - `Spec => []HonestNeverBanned`;
- `NoWaiterStranded` - `Spec => []WaitersAreServed`;
- `NothingLeftToTry` - `Spec => NeverGivesUpEarly`, an action property;
- `AttemptsInOrder` - `Spec => OrderOfLocations`, an action property.

The invariant is `TypeOK`, the two checked invariants, `StreamInv` and
`CallInv`. `StreamInv` (an open stream is below its limit, a read is of an open
stream) is needed because `Take` closes the stream only at the limit: without
it the count could pass it. `CallInv` (a call that runs has failed at no
reliable location, and one that attempts is below its cap) is needed for `NeverGivesUpEarly`:
that nothing reliable was tried is a fact about the whole call, while the
property is about its last step. One lemma, `LoopInv`, shows that the loop keeps
the invariant whatever step resumed it; each action then only shows that it
hands the loop what the lemma asks for.

`AttemptsInOrder` compares `demoted` with the history `faultOrder`. `OrderInv` says
that neither has a location twice, that what is demoted is in the history, and that two
demoted locations stand in the same order in both, which a failure (to the end of
both) and a success (out of one) keep.

`VerifiedStoreProofs`:

- `Invariance`, `TypeCorrect`;
- `SharedFetches` - `Spec => []FetchesAreShared`;
- `ReadersContract` - `Spec => KeepsContract`: the store implements
  `ReadContract`. Initial states map to initial states, each step to a step
  of the contract or a stutter.

The invariant adds to `FetchesAreShared` that a reader awaits an existing fetch
(`ReadingInv`), that the map names only live fetches under their own key
(`MapInv`: otherwise a reader could join a fetch that is not its own), and that
only readers that have aborted await an aborted fetch (`AbortInv`: otherwise a
fetch cancelled by one reader could end another's read as aborted, which the
contract forbids). Counting is by `Cardinality(Waiting(e))`, so the lemmas at the top of
the module say how a reader that comes or aborts changes that set.

- `CacheIsExact` - `Spec => []CacheExact`.

`Bytes` is a sum over a set of keys. The library's induction rules cannot be used
here, but a fact about one definition can be shown by its least counterexample:
`BytesIsTotal` builds the sum over a finite set key by key and shows that no set is the
smallest without one, from which `BytesWithout` and `BytesOfUnion` follow. `Put` splits
the keys of the cache into those it evicts and those it keeps; it evicts
the fewest that bring the sum within the budget.

`SpeculationProofs`:

- `TypeCorrect`;
- `ReadsAreVerified` - `Spec => []Verified`, whatever bodies the hosts send and
  however reads share, abort and fail;
- `OneVerdictPerBody` - `Spec => []OneVerdict`;
- `NoBodyForNobody` - `Spec => []NoIdleBody`.

The invariant speaks of each leaf as soon as it was copied from the cache or its run is
done (`LeafInv`), because a read assembles its bytes over many steps; that a
read is served when all its runs are done (`ServedInv`) makes `Verified` of it.

`TallyInv` is the counting: a body that can be joined counts the reads that can still use it,
a tally waits for exactly the reads that have not reported, and the worst verdict is
that of one of its readers. Each action adds, removes or moves one read in one of
those sets.

`OpeningProofs`:

- `TypeCorrect` - with it, that no request is settled twice;
- `EarlyHarmless` - `Spec => []EarlyNeverHurts`;
- `FreshRetry` - `Spec => []RetryIsFresh`.

That a request is settled at most once is not inductive: it follows from who owns
it. `OwnedInv` says that a request is its source's until it is claimed and then one
fetch's of one read, and that what has an owner was neither dropped nor settled;
`WaitInv` that what has not arrived is not settled; `SentInv` that what an open or a read
is about to send was never sent, which needs opens to be numbered as they begin
(`NumberInv`: otherwise a retry could reuse a request). `ReadInv` remembers how a
failed read failed: with its open, which the memo has forgotten, or by a fresh
request that was lost. Each operation on requests (send, drop, claim, settle) has
a lemma; the actions cite them.

`BundleProofs`:

- `ReadsTheFile` - `Spec => []OnlyTheFile`;
- `RootIsLoadedOnce` - `Spec => []RootIsRetriedOnce`;
- `PackedIsTaken` - `Spec => []PackedIsAccepted`.

What a read returns is the source of an entry of the packed manifest under its path
(`FileInv`): a CAR's section is used only for the CID it hashes to. That this is the
directory's file is a fact about `PackAssets`, whose two sorts must lose and add
nothing, repeat nothing and put the keys in order, and whose blocks are each in the CAR
at most once and within the client's cap (`BlocksAre`, `CarIs`, `PackedIsParsed`).
`SortedExists` shows that a sort exists: an element's place is the number of
those with a smaller key. Loads begin in order, one at a time and never once the
root is there (`LoadInv`).

`FislProofs`:

- `TypeCorrect`;
- `RaceLosesNothing` - `Spec => []NothingLost`;
- `NoneIsForgotten` - `Spec => EmptyHandedAtTheEnd`, an action property.

For the race, `RaceInv`: it reads on only the stream of its last value, which is
idle by then, and a lookup that ends overwrites the promise of a `next()` that is
still outstanding: neither holds a value, so none is dropped. For the streams,
`ResolverInv` (what is registered, in flight, read and attempted), `ProbeInv` (what a
probing asked for was attempted, or the cap is reached) and `EmptyInv` (a stream that has yielded
nothing still has something to yield, or goes on to its probes). A stream goes
through sequences that are selected, joined and freed of repetitions on the way;
the lemmas at the top of that part say what each of these keeps.

`PackingProofs`:

- `InputIsKept` - `Spec => InputUntouched`, an action property;
- `CarsAreWhole` - `Spec => []CarIsWhole`: a CAR under its final name holds every block
  of some job's DAG once, after those it links to, and a run that is over left no `.tmp`;
- `AcceptedLeavesTile` - `Spec => []LeavesTile`: the leaves a client accepts follow one
  another without gap or overlap and cover what it asked for, whatever tree the
  anchor commits to and whatever the disk holds;
- `ReadsAreTrue` - `Spec => []ReadsAreRight`: a client that descends from the anchor of
  a pack gets exactly that pack's leaves over its range, or nothing, for every input,
  profile and option and whatever runs, failures and crashes left on the disk;
- `RootIsLast` - `Spec => []RootComesLast`: once a run has written its root, and in the
  map that `verifyBytes` reads, no read of any range of that pack fails;
- `TypesHold` - `Spec => []TypeOK`: above all, that no meta `emitDir` makes, of any
  number of shards, exceeds the cap that readers put on it;
- `FragmentsAreLeaves` - `Spec => []FragmentIsOneLeaf`: a fragment of any video, with the
  boxes that open its segment, is exactly one leaf;
- `CountsAreRight` - `Spec => []FlatWhenFits`: a tree is flat exactly when the shards that
  `shardTotal` counts without building it fit;
- `TilesCostLittle` - `Spec => []TilesAreCheap`: the leaves a tile needs hold no more than the
  budget, or than the tile.

`InputInv`: once a run has looked for aliases nothing it writes is its input, and it
writes nothing before. `CarInv` follows the `.tmp` from its opening to its rename, and
`PostOrderIs` says what `PostOrder` makes of a DAG: the visit of a block lists its own
blocks before it (`VisitsAre`, from the last block to the first), and keeping each block where
it first occurs (`UniqueIsFirsts`) loses none and moves none before a block it links to. Of a DAG
`CarAssumption` says how it is numbered, links leading to later blocks, and that
nothing is in it that the root does not reach.

`AcceptedLeavesTile` rests on one predicate, `Covers`: ranges that follow one
another, all of them within reach of `[start, end)`, and that go as far to both its
sides as what they stand for does. The offsets of a meta or a shard ascend
(`StepsAscend`, `OffsetsAre`), so the entries that overlap a range are consecutive
(`Window`) and cover it (`SelectedCovers`). Covers that follow one another join to one
(`JoinedCover`, `FlattenCovers`), so each level of the descent keeps it, by induction
over the depth (`DescendCovers`, `CoveringExists`), the shards' leaves keep it too
(`SearchFinds`, `ShardLeavesCover`), and what has come of the top meta covers the whole range. The only
use of digests is that a file that is read is the one that was committed to; the
lengths are checked by the client itself. A tree deeper than `MaxDepth`, any
natural, is not read.

`ReadsAreTrue` follows a pack from its file to the leaves read. Every profile cuts the
file into a line of leaves, from 0 to its end without gap, and its bands join to that
line (`CutIsLine`: the leaves between ascending cut points, from `Fixed`, from the
boxes walked, `Mp4`, or from the sections and the grouped tiles of an archive,
`ArchiveLines`). What the packer builds of a line then says only what is true of it
(`Says`): there is a set T of facts, each a kind, an offset, a length and a digest, such
that a shard in T is a run of the line's leaves (`ShardOf`), a directory in T has a meta
whose records, at the offsets their lengths come to, are in T too (`TrueOf`), and the
entries of the top meta are in T. So shards do (`ShardFirstsBegin`, `SplitIs`),
directories nested to any depth (`NestedRuns`, `EmitSays`), a band placed whole or cut
evenly (`PlaceBandSays`), and the tree (`TreeSays`, `PackSays`). The client finds nothing
else: what it has at any level is in T or is broken (`EntriesTold`, `DescendTold`,
`CoveringTold`), so the leaves it accepts are leaves of the pack (`LeavesIn`); `Covers`
says that they are consecutive and reach as far as the range, hence they are all the
leaves over it and no others (`LeavesAreWanted`). Of the steps only `PacksInv` is needed:
every anchor a client can have is that of `Pack` of some job. `JobsAssumption` says what
a job is: the numbers of an archive's sections and of a video's boxes are unsigned, as
their parsers read them, the profile is one of the four `pack` does not throw on, and the
chunk and the tile group, when given, are naturals.

`RootIsLast` is the other direction: what a client asks for is there. It takes the
files of a pack as a set. A directory's files are `Whole`: there is a set H of facts, each a
kind, a path, an offset, a length and a digest, such that the file of every fact is among
them, the records of a directory in H are at the offsets their lengths come to and are in
H again, and those of the directory itself begin and end where its range does (`Held`,
`Lined`). Shards of a band are (`Shelf`, `BandShelf`); `emitDir` makes whole directories of
whole ones (`BodyWhole`), bands placed side by side stay whole (`TreeWhole`), and so the
tree of every pack is, from 0 to the file's length (`PackIsWhole`). No two of its
files share a path: the names in a directory are the offsets of its shards, which ascend (`Filed`).
Down such a tree a client finds at every level the entries it asks for, and then the
leaves (`StockedReads`). What remains is about the steps: in `FilesInv` the files
before the one being written are on the disk, each as the pack has it - which needs the paths to
differ, or a later file might overwrite an earlier one - and the root is the
last. `DepthAssumption` says that `MaxDepth`, the model's bound on the client's
descent, which the client itself does not have, reaches every file; `BoundAssumption` and
`PublishedAssumption` give `MaxRuns` and the published files their types. `TypesHold`
needs the same two invariants: `Filed` has the cap.

The last three theorems are about the shape of a tree. `VerifyInv` says that what is
verified is the pack of the job; the rest is about `Pack`. The boxes of a video are
chained from 0 to its end (`Chained`). A cut lies at both ends of a fragment and none
between them (`FragmentBegins`, `FragmentCut`), and two neighbouring cut points enclose a
leaf (`LeafBetween`).

`shardTotal` counts the shards of each band on its own, before there are digests. Digests
do not move the shards (`SameFirsts`), so the count of the tree is the same; every band
that is left has a shard at least (`CountsGrow`), so while the count fits, each band is
placed whole (`PlacedFlat`, `TreeFlat`), and a tree that is flat has as many entries as
were counted. With a budget nobody chose, a tree that does not fit has the last
candidate's (`ChosenIs`).

A group that a tile starts is the tile; one that a tile joins stays within the budget, and
still holds what it held (`Holds`, `GroupedHolds`), by induction over the sorted
tiles (`TilesAreHeld`). Both ends of a group are cut points, hence positions of
leaves (`GroupEnds`), and leaves chosen between two positions span no more than lies
between them (`SpanWithin`). Of a job this needs that a budget is a natural, as
`tileGroupBudget` checks (`JobsAssumption`).

`PackerProofs`:

- `PassIsSound` - `Spec => []PassInv`, the inductive invariant;
- `RootsAreTrue` - `Spec => []RootIsTrue`;
- `CarsAreTheDag` - `Spec => []CarIsTheDag`;
- `BuilderIsBalanced` - of the builder alone: the root it finishes with is that of the
  balanced layout, and it emits the blocks children first, left to right, then their
  parent, for every file, every fan-out and every cut of its chunks into two batches.

`PassInv` says of each thread that what it holds is what the part of the file before
it comes to: the hasher took what its counter says, and stops short only for a walk
that failed (`HashInv`); the assembler has the leaves of the steps done, and the
shards they complete are on the disk, whole (`WalkInv`); the chunks sent are those that
end before the step does (`ChunkInv`); and between the sink and the builder none is lost
or out of order: the builder has the chunks before those with the writer, which are
before those in the queue, which are before those to send (`FedInv`). `Staged` says
which threads run while `write_outputs` is somewhere, `DoneInv` that a root is
written from a walk that ended well, after the metas. `CarInv` adds that a CAR is
written after the root and is that of the job's chunks.

`FedInv` rests on what the builder holds after n chunks (`Fed`), stated against the
layers of the reference layout: the nodes that came to a level are the first ones of its
layer, as many as the chunks so far fill (`LevelIs`), and those pending are the ones after the last
full group. A chunk makes every level it climbs to keep that (`Rising`); `finish` turns the
short group of each level into the layer's last node (`Closed`). For their order, the blocks
emitted are cut where those under each level's pending nodes begin, from the highest
level down, and each piece is the orders of these nodes, joined (`Cuts`, `Traced`); when
all is closed the root's piece is left, which is `PostOrder`. The CAR keeps each block where it first occurs
(`Sectioned`).

All these are loops. `Turns` says that a function on 0..n is the successive states of a loop, and
each loop of the model, `SumsOf`, `Layers` and `Orders` is shown to be its turns; `Ascent`, from a
least counterexample, is the induction over them.

## 5. What is only model-checked

Liveness under fairness, which is out of the prover's reach: `EveryCallEnds`,
`ReadsEnd`, `EveryBodyIsJudged`, `SpeculationIsHarmless`, `AllSettle`, `Served` and
`EndsWithItsCause`. Every other property of a passing run is a theorem of section 4.

## 6. What the models found

`stats.verified += (await check(body.bytes)) ?? 1` (`core/src/verified-store.ts:212`)
reads `stats.verified` before the await and writes the sum after it. Two checks
that overlap - shards requested together, bundle files read at once, the two
stores of a file, which share one `stats` - lose counts: the last to end
overwrites the others'. `packages/core/README.md:49` says that "`stats` counts
the hash checks passed". Run `store_stats` shows the shortest case: two fetches are received, both
checks pass, one is counted. Nothing but the counter is affected.

SPEC 2.3 (`SPEC.md:107-109`) says that a speculative range may be adopted "only once the
descended leaf digests verify every slice", and that "a mismatch discards the
whole speculative response". The reader adopts run by run
(`core/src/ranged-reader.ts:123`): if a leaf in the middle is cached, the leaves before
it are adopted although one after it does not match. Run `speculation_whole` shows it.
What is adopted is verified all the same (`ReadsAreVerified`).

## 7. What is not modelled, and the plan

Parts of modelled components that are left out:

- `ProofTree`: `cachedLeavesFor`, the synchronous descent of what is cached, and the
  byte layouts of the format; sizes are naturals, so the checks for 2^53 are not
  met.
- `Bundle`: `stat`, content types, the bytes of CBOR and CAR. That a path is well
  formed is a constant (`WellNamed`).
- `Fisl`: `fetch`, which puts the same deadline on requests the router carries; the
  lookup is assumed to honour its signal.
- `Packing`: argument parsing, decompression of directories, permissions. A second
  run whose file has the name of an older directory, or the reverse, fails, as
  `EISDIR` and `EEXIST` make it.

- `Packer`: older outputs and aliases of the input, which are in `Packing`; the bytes
  of the CAR's `.tmp`, which nobody reads; the tasks of rayon inside a step. `verify`
  walks the file by the same `begin_step` and flag, with no outputs.

Left out for good: requests (I/O; what they come to are the outcomes of an
attempt), codecs and digests (a check is one that passes or fails), the raw
client and the adapters (no state of their own), the verification of a proof
directory (sequential; what a client accepts of a tree is in `ProofTree`). The Rust
packer's layout and cuts have no model of their own: `tools/pack.ts` makes the
same, and the repository's vectors hold both to the same bytes.
