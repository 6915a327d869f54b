-------------------------------- MODULE Hints --------------------------------
(***************************************************************************)
(* The built-in router's streams of locations (default-router.ts) with the *)
(* hints plugin behind them (hints.ts): one resolver per client, which     *)
(* reads documents lazily, shares their fetches and keeps what it parsed,  *)
(* and one stream per ask, each yielding the CID's configured locations,   *)
(* then the documents', then what documents probed beside the anchor name. *)
(*                                                                         *)
(* A stream runs only while a `next()` of it is outstanding.  Documents    *)
(* are untrusted and may name one another's directories in circles; their  *)
(* fetches may fail, and a failed one may be tried again.                  *)
(***************************************************************************)
EXTENDS Integers, SequencesExt, FiniteSetsExt

CONSTANTS
    Streams,              \* the asks of the router
    Anchor, Ranged,       \* the client's anchor; #kind = 'ranged'
    Pages,                \* the pages checked, as below
    BesideAnchor,         \* BesideAnchor[l]: hints.json beside an anchor location
    Document,             \* Document[d][c]: the elements d lists for c, or NotAnObject
    NotAnObject,
    Valid,                \* the elements that resolve to an http(s) URL within the byte cap
    Root,                 \* Root[u]: a hinted base's `/root`, or NoRoot with a query string
    NoRoot,
    MaxDocs,              \* MAX_HINT_DOCS
    MaxUrls               \* MAX_HINT_URLS_PER_CID

Docs == DOMAIN Document

\* Beside each anchor location, configured or hinted, is a document.
ASSUME HintsAssumption ==
    /\ MaxDocs \in Nat /\ MaxUrls \in Nat \ {0}
    /\ BesideAnchor \in [DOMAIN BesideAnchor -> Docs]
    /\ \A p \in Pages :
          /\ p.named \in Seq(Docs) /\ Len(p.named) <= MaxDocs
          /\ p.sourceDocs \in Seq(Docs) /\ p.configured[Anchor] \in Seq(DOMAIN BesideAnchor)
    /\ \A d \in Docs : Document[d] # NotAnObject =>
          LET listed == ToSet(Document[d][Anchor])
          IN  /\ Document[d][Anchor] \in Seq(listed)
              /\ \A u \in listed \cap Valid :
                    IF Ranged THEN Root[u] \in DOMAIN BesideAnchor \cup {NoRoot} ELSE u \in DOMAIN BesideAnchor

None == "none"

VARIABLES
    \* The page, which never changes: whether it names its documents and which
    \* the client begins with, each CID's configured locations, the documents
    \* beside its sources, and the CID each stream is for.
    page,
    docUrls,   \* #docUrls
    docs,      \* the keys of #docs: the documents read and parsed
    inflight,  \* inflight[d]: how many fetches of d are in flight
    attempted, \* #attempted: the documents ever asked for
    wait,      \* wait[p]: the document a load or a stream waits for, or None
    loads,     \* loads[s]: the next document of the load s's open began, 0 for no load
    stage,     \* stage[s]: where s is
    left,      \* left[s]: what s has yet to yield in this stage
    todo,      \* todo[s]: the documents s goes through: the next one's index, or those to probe
    probed,    \* probed[s]
    next,      \* next[s]: the outstanding next(), and what came of it
    yielded    \* yielded[s]: what s has yielded so far

resolverVars == <<docUrls, docs, inflight, attempted>>
hintVars == <<page, resolverVars, wait, loads, stage, left, todo, probed, next, yielded>>

\* A load is a process of its own beside the stream whose open began it.
Load(s) == <<"load", s>>
Stream(s) == <<"stream", s>>
Processes == {Load(s) : s \in Streams} \cup {Stream(s) : s \in Streams}

Idle == [at |-> "idle", value |-> None]
Asked == [at |-> "asked", value |-> None]
Arrived(v) == [at |-> "arrived", value |-> v]
Ended == [at |-> "ended", value |-> None]

HintsInit ==
    /\ page \in Pages /\ docUrls = page.named /\ docs = {} /\ inflight = [d \in Docs |-> 0] /\ attempted = {}
    /\ wait = [p \in Processes |-> None]
    /\ loads = [s \in Streams |-> 0]
    /\ stage = [s \in Streams |-> "unopened"]
    /\ left = [s \in Streams |-> <<>>] /\ todo = [s \in Streams |-> <<>>]
    /\ probed = [s \in Streams |-> {}]
    /\ next = [s \in Streams |-> Idle] /\ yielded = [s \in Streams |-> <<>>]

(***************************************************************************)
(* The resolver.                                                           *)
(***************************************************************************)
\* The elements of seq at the places `at`, in their order.  (SelectSeq, of which
\* nothing can be proved.)
Selected(seq, at) ==
    [k \in 1..Cardinality(at) |-> seq[CHOOSE i \in at : Cardinality({j \in at : j < i}) = k - 1]]
Those(seq, Keep(_)) == Selected(seq, {i \in DOMAIN seq : Keep(seq[i])})

\* parseHintsDocument salvages the valid elements; null for another body.
Parsed(d, c) == Those(Document[d][c], LAMBDA u : u \in Valid)

FirstOccurrences(seq) == Selected(seq, {i \in DOMAIN seq : \A j \in 1..(i - 1) : seq[j] # seq[i]})

\* known: the matches of the documents read so far, in document order.
Known(c) ==
    LET read == Those(docUrls, LAMBDA d : d \in docs)
        urls == FirstOccurrences(FlattenSeq([k \in DOMAIN read |-> Parsed(read[k], c)]))
    IN  SubSeq(urls, 1, Min({Len(urls), MaxUrls}))

\* A ranged anchor's hinted URLs are proof bases.
AsLocations(c, urls) ==
    IF c # Anchor \/ ~Ranged THEN urls
    ELSE LET clean == Those(urls, LAMBDA u : Root[u] # NoRoot)
         IN  [k \in DOMAIN clean |-> Root[clean[k]]]

\* Variant: concurrent readers each fetch a document.
FetchesOwn(d) == d \notin docs

\* #fetchDoc sends a request unless the document is parsed or on its way.
Sends(d) == d \notin docs /\ inflight[d] = 0

\* Process p fetches and waits; a document already parsed is not waited for.
FetchDoc(p, d) ==
    /\ inflight' = [inflight EXCEPT ![d] = IF Sends(d) THEN @ + 1 ELSE @]
    /\ attempted' = IF d \in docs THEN attempted ELSE attempted \cup {d}
    /\ wait' = [wait EXCEPT ![p] = IF d \in docs THEN None ELSE d]

\* #readDoc ends: the document is kept if its body came and is an object, else
\* it may be fetched again.  Everyone who waits goes on.
ReadDoc(d) ==
    /\ inflight[d] > 0
    /\ inflight' = [inflight EXCEPT ![d] = @ - 1]
    /\ \E came \in BOOLEAN : docs' = IF came /\ Document[d] # NotAnObject THEN docs \cup {d} ELSE docs
    /\ wait' = [p \in Processes |-> IF wait[p] = d THEN None ELSE wait[p]]
    /\ UNCHANGED <<page, docUrls, attempted, loads, stage, left, todo, probed, next, yielded>>

\* load, as the open began it: each document known, those added meanwhile too.
LoadNext(s) ==
    /\ loads[s] > 0 /\ wait[Load(s)] = None
    /\ IF loads[s] <= Len(docUrls)
       THEN /\ loads' = [loads EXCEPT ![s] = @ + 1]
            /\ FetchDoc(Load(s), docUrls[loads[s]])
       ELSE /\ loads' = [loads EXCEPT ![s] = 0]
            /\ UNCHANGED <<inflight, attempted, wait>>
    /\ UNCHANGED <<page, docUrls, docs, stage, left, todo, probed, next, yielded>>

(***************************************************************************)
(* A stream.  Each action is one run of it between two awaits or yields.   *)
(***************************************************************************)
Cid(s) == page.cid[s]
IsConfigured(s) == page.configured[Cid(s)] # <<>>
Runs(s) == next[s].at = "asked" /\ wait[Stream(s)] = None

\* DefaultRouter.open, by the first next(): explicit documents load behind it.
Open(s) ==
    /\ stage[s] = "unopened" /\ Runs(s)
    /\ stage' = [stage EXCEPT ![s] = "configured"]
    /\ left' = [left EXCEPT ![s] = page.configured[Cid(s)]]
    /\ loads' = [loads EXCEPT ![s] = IF page.explicit THEN 1 ELSE 0]
    /\ UNCHANGED <<page, resolverVars, wait, todo, probed, next, yielded>>

Yield(s) ==
    /\ Runs(s) /\ left[s] # <<>>
    /\ next' = [next EXCEPT ![s] = Arrived(Head(left[s]))]
    /\ yielded' = [yielded EXCEPT ![s] = Append(@, Head(left[s]))]
    /\ left' = [left EXCEPT ![s] = Tail(@)]
    /\ UNCHANGED <<page, resolverVars, wait, loads, stage, todo, probed>>

Through(s, here) == Runs(s) /\ stage[s] = here /\ left[s] = <<>>

\* rest: the documents, the default one only for a CID with nothing configured.
BeginRest(s) ==
    /\ Through(s, "configured")
    /\ stage' = [stage EXCEPT ![s] = IF page.explicit \/ ~IsConfigured(s) THEN "loading" ELSE "locating"]
    /\ todo' = [todo EXCEPT ![s] = <<1>>]
    /\ UNCHANGED <<page, resolverVars, wait, loads, left, probed, next, yielded>>

LoadStep(s) ==
    /\ Runs(s) /\ stage[s] = "loading" /\ todo[s][1] <= Len(docUrls)
    /\ todo' = [todo EXCEPT ![s] = <<@[1] + 1>>]
    /\ FetchDoc(Stream(s), docUrls[todo[s][1]])
    /\ UNCHANGED <<page, docUrls, docs, loads, stage, left, probed, next, yielded>>

EndStream(s) ==
    /\ stage' = [stage EXCEPT ![s] = "done"]
    /\ next' = [next EXCEPT ![s] = Ended]
    /\ UNCHANGED <<page, resolverVars, wait, loads, left, todo, probed, yielded>>

GoOn(s, to, values, documents) ==
    /\ stage' = [stage EXCEPT ![s] = to]
    /\ left' = [left EXCEPT ![s] = values]
    /\ todo' = [todo EXCEPT ![s] = documents]
    /\ UNCHANGED <<page, resolverVars, wait, loads, probed, next, yielded>>

\* Variants: directories that were probed are probed again; hinted anchor
\* locations have no directory.
AllDirs(s) ==
    LET known == FirstOccurrences(page.configured[Anchor] \o AsLocations(Anchor, Known(Anchor)))
    IN  [k \in DOMAIN known |-> BesideAnchor[known[k]]]
ConfiguredDirs(s) ==
    Those([k \in DOMAIN page.configured[Anchor] |-> BesideAnchor[page.configured[Anchor][k]]],
              LAMBDA d : d \notin probed[s])

\* The documents beside the anchor's configured and hinted locations that this
\* probing has not asked for.
NewDirs(s) ==
    LET known == FirstOccurrences(page.configured[Anchor] \o AsLocations(Anchor, Known(Anchor)))
    IN  Those([k \in DOMAIN known |-> BesideAnchor[known[k]]], LAMBDA d : d \notin probed[s])

\* Where #probe begins: beside each source for the anchor, else beside the
\* anchor's locations.
ToProbe(s) == IF Cid(s) = Anchor THEN page.sourceDocs ELSE NewDirs(s)

\* What the documents name; for a CID with nothing configured and nothing
\* hinted, on to the probes, with no await at which a fetch could end between.
Hinted(s) ==
    LET urls == AsLocations(Cid(s), Known(Cid(s)))
    IN  /\ Runs(s) /\ stage[s] = "loading" /\ todo[s][1] > Len(docUrls)
        /\ \/ (IsConfigured(s) \/ urls # <<>>) /\ GoOn(s, "locating", urls, <<>>)
           \/ /\ ~IsConfigured(s) /\ urls = <<>>
              /\ IF ToProbe(s) = <<>> THEN EndStream(s) ELSE GoOn(s, "probing", <<>>, ToProbe(s))

\* #addDoc: a document not registered yet, under the cap.
Adds(d) == d \notin ToSet(docUrls) /\ Len(docUrls) < MaxDocs

\* probe: a new document is skipped past the cap.
Probe(s) ==
    /\ Runs(s) /\ stage[s] = "probing" /\ todo[s] # <<>>
    /\ LET d == Head(todo[s])
       IN  /\ docUrls' = IF Adds(d) THEN Append(docUrls, d) ELSE docUrls
           /\ IF Adds(d) \/ d \in ToSet(docUrls)
              THEN FetchDoc(Stream(s), d)
              ELSE UNCHANGED <<inflight, attempted, wait>>
           /\ probed' = [probed EXCEPT ![s] = @ \cup {d}]
    /\ todo' = [todo EXCEPT ![s] = Tail(@)]
    /\ UNCHANGED <<page, docs, loads, stage, left, next, yielded>>

\* A round is over: what the documents name now, else another round beside the
\* anchor locations they brought, else the end.
EndRound(s) ==
    LET urls == AsLocations(Cid(s), Known(Cid(s)))
        more == IF Cid(s) = Anchor THEN <<>> ELSE NewDirs(s)
    IN  /\ Runs(s) /\ stage[s] = "probing" /\ todo[s] = <<>>
        /\ \/ urls # <<>> /\ GoOn(s, "locating", urls, <<>>)
           \/ urls = <<>> /\ more # <<>> /\ GoOn(s, "probing", <<>>, more)
           \/ urls = <<>> /\ more = <<>> /\ EndStream(s)

Located(s) == Through(s, "locating") /\ EndStream(s)

StreamStep(s) ==
    \/ Open(s) \/ Yield(s) \/ BeginRest(s) \/ LoadStep(s) \/ Hinted(s)
    \/ Probe(s) \/ EndRound(s) \/ Located(s)

=============================================================================
