------------------------------- MODULE Bundle -------------------------------
(***************************************************************************)
(* A VerifiedBundle (bundle.ts) and its proof (proof-source.ts).  Reads    *)
(* share the load of the manifest; then each takes its file from a section *)
(* of the proof's CAR, once that hashes right, or from the file's own      *)
(* locations.                                                              *)
(*                                                                         *)
(* Proof hosts are untrusted: each request may be answered by what was     *)
(* packed, by a CAR whose sections lie, or not at all.  The order in which *)
(* locations are tried, and what the store of the files does, are in       *)
(* Failover and VerifiedStore.                                             *)
(***************************************************************************)
EXTENDS Assets

CONSTANTS
    Directories,    \* the directories that may have been packed
    Reads,
    Locs,           \* the proof's locations
    OtherCars,      \* CARs a host may serve in place of the packed one
    MaxFile,        \* maxFileBytes
    MaxLoads        \* bound: loads of the root

None == "none"
Why == {None, "aborted", "no root", "refused", "no content"}    \* a read has no bytes
ASSUME BundleAssumption ==
    /\ \A d \in Directories :
          IsFiniteSet(DOMAIN d) /\ DOMAIN d \subseteq Paths /\ d \in [DOMAIN d -> Contents]
    /\ Contents \cap Why = {} /\ MaxLoads \in Nat

\* A manifest names the digests of the files, so none of these is the manifest.
ASSUME ManifestAssumption == \A d \in Directories : PackAssets(d).manifest \notin Contents

Unasked == [kind |-> "unasked"]
Dead == [kind |-> "dead"]

VARIABLES
    packed,     \* what packAssets made; the bundle's CID is that of its manifest
    promise,    \* #rootPromise: the load reads join, 0 for none
    load,       \* load[k]: how far it is
    tried,      \* tried[l]: what l answered in this load, or Unasked
    bag,        \* #bag: the proof's sections; {} until #rootMemo is set
    discarded,  \* #discarded: digests
    asked,      \* asked[r]: the path r reads
    read,       \* read[r]: where r is
    joined,     \* joined[r]: the load r waits for, 0 for none
    candidate,  \* candidate[r]: the section's bytes r hashes
    result      \* result[r]: the bytes it got, or why it got none

vars == <<packed, promise, load, tried, bag, discarded, asked, read, joined, candidate, result>>

Loads == 1..MaxLoads
Manifest == packed.manifest
Memo == bag # {}
Entries == ToSet(Manifest)
EntryOf(r) == CHOOSE e \in Entries : e.path = asked[r]

Init ==
    /\ packed \in {PackAssets(d) : d \in {x \in Directories : Packs(x)}}
    /\ promise = 0 /\ load = [k \in Loads |-> "none"]
    /\ tried = [l \in Locs |-> Unasked]
    /\ bag = {} /\ discarded = {}
    /\ asked \in [Reads -> Paths]
    /\ read = [r \in Reads |-> "idle"] /\ joined = [r \in Reads |-> 0]
    /\ candidate = [r \in Reads |-> None] /\ result = [r \in Reads |-> None]

(***************************************************************************)
(* The proof.                                                              *)
(***************************************************************************)
\* parseProof: the anchor's own block, or a CAR bag.
ParseProof(body) == IF body.kind = "block" THEN {Section("dag-cbor", body.block)} ELSE ParseCarBag(body.car)

\* #load: the root's section is there, hashes to the anchor, and decodes.
Accepted(body) ==
    \E s \in ParseProof(body) :
        s.key = Manifest /\ s.codec = "dag-cbor" /\ s.bytes = Manifest /\ Decodes(s.bytes)

Block == [kind |-> "block", block |-> Manifest]
Car(sections) == [kind |-> "car", car |-> sections]
Served == {Block, Car(packed.car)} \cup {Car(<<Head(packed.car)>> \o sections) : sections \in OtherCars}
              \cup {Car(sections) : sections \in OtherCars}

\* A location of a load under way answers or fails; a bad proof is demoted.
Load(k, l, body) ==
    /\ load[k] = "loading" /\ tried[l] = Unasked
    /\ IF body # Dead /\ Accepted(body)
       THEN /\ load' = [load EXCEPT ![k] = "loaded"]
            /\ bag' = ParseProof(body)
            /\ UNCHANGED tried
       ELSE /\ tried' = [tried EXCEPT ![l] = body]
            /\ UNCHANGED <<load, bag>>
    /\ UNCHANGED <<packed, asked, promise, discarded, read, joined, candidate, result>>

FailLoad(k) ==
    /\ load[k] = "loading" /\ \A l \in Locs : tried[l] # Unasked
    /\ load' = [load EXCEPT ![k] = "failed"]
    /\ UNCHANGED <<packed, asked, promise, tried, bag, discarded, read, joined, candidate, result>>

\* The load's own catch and finally, which run before a read's caller is told.
Forget ==
    /\ promise # 0 /\ load[promise] \in {"loaded", "failed"}
    /\ promise' = 0
    /\ UNCHANGED <<packed, asked, load, tried, bag, discarded, read, joined, candidate, result>>

(***************************************************************************)
(* A read.                                                                 *)
(***************************************************************************)
\* root: the memo, the load under way, or a new one.
Start(r) ==
    LET k == Cardinality({j \in Loads : load[j] # "none"}) + 1
        begins == ~Memo /\ promise = 0
    IN  /\ read[r] = "idle" /\ SplitPath(asked[r])
        /\ begins => k \in Loads
        /\ promise' = IF begins THEN k ELSE promise
        /\ load' = IF begins THEN [load EXCEPT ![k] = "loading"] ELSE load
        /\ tried' = IF begins THEN [l \in Locs |-> Unasked] ELSE tried
        /\ joined' = [joined EXCEPT ![r] = IF Memo THEN 0 ELSE promise']
        /\ read' = [read EXCEPT ![r] = "rooting"]
        /\ UNCHANGED <<packed, asked, bag, discarded, candidate, result>>

End(r, how) ==
    /\ read' = [read EXCEPT ![r] = "ended"]
    /\ result' = [result EXCEPT ![r] = how]

\* A signal ends the wait for the root, or for the file's bytes.
Abort(r) ==
    /\ read[r] \in {"rooting", "fetching"}
    /\ End(r, "aborted")
    /\ UNCHANGED <<packed, asked, promise, load, tried, bag, discarded, joined, candidate>>

\* Variant: the promise is kept until the reads were told.
ToldFirst(k) == load[k] = "failed"

Told(k) == load[k] = "failed" /\ promise # k

RootFailed(r) ==
    /\ read[r] = "rooting" /\ joined[r] # 0 /\ Told(joined[r])
    /\ End(r, "no root")
    /\ UNCHANGED <<packed, asked, promise, load, tried, bag, discarded, joined, candidate>>

\* splitPath refuses the path; or the manifest has no such file, or a large one.
Refuse(r) ==
    /\ \/ read[r] = "idle" /\ ~SplitPath(asked[r])
       \/ read[r] = "rooting" /\ Memo /\ \A e \in Entries : e.path = asked[r] => e.size > MaxFile
    /\ End(r, "refused")
    /\ UNCHANGED <<packed, asked, promise, load, tried, bag, discarded, joined, candidate>>

\* leafCandidate: a raw section under the file's digest, unless it lied before.
Candidates(src) ==
    IF src \in discarded THEN {} ELSE {s.bytes : s \in {x \in bag : x.key = src /\ x.codec = "raw"}}

\* With the manifest: a candidate of the right length is hashed, another is
\* discarded, and without one the file's locations are asked.
Resolve(r) ==
    LET e == EntryOf(r)
    IN  /\ read[r] = "rooting" /\ Memo
        /\ \E x \in Entries : x.path = asked[r] /\ x.size <= MaxFile
        /\ \/ /\ Candidates(e.src) = {}
              /\ read' = [read EXCEPT ![r] = "fetching"]
              /\ UNCHANGED <<discarded, candidate>>
           \/ \E bytes \in Candidates(e.src) :
                 IF bytes \in Contents /\ Size[bytes] = e.size
                 THEN /\ read' = [read EXCEPT ![r] = "hashing"]
                      /\ candidate' = [candidate EXCEPT ![r] = bytes]
                      /\ UNCHANGED discarded
                 ELSE /\ read' = [read EXCEPT ![r] = "fetching"]
                      /\ discarded' = discarded \cup {e.src}
                      /\ UNCHANGED candidate
    /\ UNCHANGED <<packed, asked, promise, load, tried, bag, joined, result>>

\* Variant: a section of the right length is believed.
Believed(r) == TRUE

Verifies(r) == candidate[r] = EntryOf(r).src

Serve(r) ==
    /\ read[r] = "hashing" /\ Verifies(r)
    /\ End(r, candidate[r])
    /\ UNCHANGED <<packed, asked, promise, load, tried, bag, discarded, joined, candidate>>

Discard(r) ==
    /\ read[r] = "hashing" /\ ~Verifies(r)
    /\ discarded' = discarded \cup {EntryOf(r).src}
    /\ read' = [read EXCEPT ![r] = "fetching"]
    /\ UNCHANGED <<packed, asked, promise, load, tried, bag, joined, candidate, result>>

\* fetchCheckedFrom: the file's bytes, verified, or every location failed.
Fetch(r) ==
    /\ read[r] = "fetching"
    /\ \E how \in {EntryOf(r).src, "no content"} : End(r, how)
    /\ UNCHANGED <<packed, asked, promise, load, tried, bag, discarded, joined, candidate>>

Next ==
    \/ \E k \in Loads : FailLoad(k) \/ \E l \in Locs : \E body \in Served \cup {Dead} : Load(k, l, body)
    \/ Forget
    \/ \E r \in Reads :
          \/ Start(r) \/ Abort(r) \/ RootFailed(r) \/ Refuse(r) \/ Resolve(r)
          \/ Serve(r) \/ Discard(r) \/ Fetch(r)

Spec == Init /\ [][Next]_vars

(***************************************************************************)
(* Properties.                                                             *)
(***************************************************************************)
\* Whatever the proof's hosts serve, a read returns the bytes that the packed
\* directory has under its path: no section that lies is ever served, although
\* its key is the digest and its length is right.
OnlyTheFile ==
    \A r \in Reads : result[r] \notin Why =>
        \E d \in Directories : PackAssets(d) = packed /\ asked[r] \in DOMAIN d /\ result[r] = d[asked[r]]

\* What `pack assets` makes of a directory, the client takes: a host that serves
\* the packed CAR or its manifest block is never counted as failed, shared
\* files, sorted keys and the inline budget included.
PackedIsAccepted == \A l \in Locs : tried[l] \notin {Block, Car(packed.car)}

\* Once a caller knows that the root could not be loaded, no read joins that
\* load; a root once loaded is never loaded again.
RootIsRetriedOnce ==
    /\ \A r \in Reads : result[r] = "no root" => promise # joined[r]
    /\ Memo => \A k \in Loads : load[k] # "loading"

=============================================================================
