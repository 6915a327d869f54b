------------------------------- MODULE Assets -------------------------------
(***************************************************************************)
(* A bundle's proof: the MASL manifest of a directory (manifest.ts), the   *)
(* CAR bag that carries it with its files' raw sections (car.ts), and how  *)
(* `pack assets` makes both (tools/pack.ts).                               *)
(*                                                                         *)
(* A file's bytes are a model value and a manifest is the sequence of its  *)
(* entries.  sha2-256 is injective on what is compared: the digest of      *)
(* bytes is the bytes.                                                     *)
(***************************************************************************)
EXTENDS Integers, SequencesExt, FiniteSetsExt

CONSTANTS
    Contents, Size,     \* the bytes a file may have, and how many they are
    Paths,
    WalkPlace,          \* WalkPlace[p]: where packAssets' walk meets p
    KeyPlace,           \* KeyPlace[p]: p's place by the bytes of its encoded key
    WellNamed,          \* the paths splitPath and validatePathKey accept
    ManifestCap,        \* stands for MANIFEST_CAP, in entries
    RawCap,             \* RAW_SECTION_CAP
    InlineCap           \* INLINE_TOTAL_CAP

ASSUME AssetsAssumption ==
    /\ Size \in [Contents -> Nat]
    /\ WalkPlace \in Injection(Paths, Nat) /\ KeyPlace \in Injection(Paths, Nat)
    /\ WellNamed \subseteq Paths
    /\ {ManifestCap, RawCap, InlineCap} \subseteq Nat /\ InlineCap <= RawCap

NoManifest == <<>>
Sorted(set, before(_, _)) == CHOOSE s \in SetToSeqs(set) : \A i, j \in DOMAIN s : i < j => before(s[i], s[j])

\* splitPath, and validatePathKey around it, take the path.
SplitPath(p) == p \in WellNamed

Entry(p, bytes) == [path |-> p, src |-> bytes, size |-> Size[bytes]]

\* encodeManifest orders the resources by their encoded keys.
InKeyOrder(entries) == Sorted(ToSet(entries), LAMBDA a, b : KeyPlace[a.path] < KeyPlace[b.path])

\* encodeManifest throws without a resource, for a bad path, and over the cap.
EncodeManifest(entries) ==
    IF entries = <<>> \/ Len(entries) > ManifestCap \/ \E i \in DOMAIN entries : ~SplitPath(entries[i].path)
    THEN NoManifest ELSE InKeyOrder(entries)

\* decodeManifest takes strictly ordered, well-named resources within the cap.
Decodes(bytes) ==
    /\ bytes \notin Contents /\ Len(bytes) \in 1..ManifestCap
    /\ \A i \in DOMAIN bytes :
          /\ SplitPath(bytes[i].path)
          /\ i > 1 => KeyPlace[bytes[i - 1].path] < KeyPlace[bytes[i].path]

Section(codec, bytes) == [key |-> bytes, codec |-> codec, bytes |-> bytes]

\* Variant: a section for every file.
EveryFile(entries) == [i \in DOMAIN entries |-> entries[i].src]

\* Identical files share one section, where the first is met.
Blocks(entries) ==
    LET first == Sorted({i \in DOMAIN entries : \A j \in 1..(i - 1) : entries[j].src # entries[i].src},
                        LAMBDA i, j : i < j)
    IN  [k \in DOMAIN first |-> entries[first[k]].src]

\* How many bytes the blocks are.
Total(blocks) ==
    LET total[n \in 0..Len(blocks)] == IF n = 0 THEN 0 ELSE total[n - 1] + Size[blocks[n]]
    IN  total[Len(blocks)]

\* packAssets: the manifest of the directory's files, and the CAR of it and,
\* within the budget, of their blocks.  (`d` maps its files' paths to bytes.)
PackAssets(d) ==
    LET walk == Sorted(DOMAIN d, LAMBDA p, q : WalkPlace[p] < WalkPlace[q])
        entries == [i \in DOMAIN walk |-> Entry(walk[i], d[walk[i]])]
        manifest == EncodeManifest(entries)
        blocks == Blocks(entries)
        inline == IF Total(blocks) <= InlineCap THEN blocks ELSE <<>>
    IN  [manifest |-> manifest,
         car |-> <<Section("dag-cbor", manifest)>> \o [i \in DOMAIN inline |-> Section("raw", inline[i])]]

\* packAssets throws when encodeManifest does.
Packs(d) == PackAssets(d).manifest # NoManifest

\* parseCarBag: each section's CID has a known codec and its block a length
\* within that codec's cap, and no digest comes twice.
ParseCarBag(car) ==
    IF /\ \A i \in DOMAIN car :
             \/ car[i].codec = "raw" /\ (car[i].bytes \in Contents => Size[car[i].bytes] <= RawCap)
             \/ car[i].codec = "dag-cbor"
       /\ \A i, j \in DOMAIN car : car[i].key = car[j].key => i = j
    THEN ToSet(car) ELSE {}

=============================================================================
