-------------------------------- MODULE Fisl --------------------------------
(***************************************************************************)
(* The fisl router (packages/fisl-router/src) over the built-in router's   *)
(* streams (Hints): for each ask, `locate` races the page's own locations  *)
(* against what a lookup in the index answers.  The caller (Locations)     *)
(* takes one value at a time, and may close the race once it has enough.   *)
(*                                                                         *)
(* The index may answer, fail or say nothing at all: then the deadline     *)
(* ends the lookup.                                                        *)
(***************************************************************************)
EXTENDS Hints

CONSTANTS
    Lines,      \* Lines[c]: the answer's lines, each the live URLs of its record, or <<>>
    MaxLines    \* stands for MAX_ANSWER_BYTES

VARIABLES
    race,      \* race[s]: "new", "pulled" (a next() of it is outstanding), "yielded", "closed"
    last,      \* last[s]: the stream whose value was handed out last, or None
    lookup,    \* lookup[s]: "none", "waiting", "answered" or "over"
    answer,    \* answer[s]: [at, value], as in `next`, and `left`, what it has yet to yield
    named,     \* named[s]: what the lookup has yielded so far
    handed     \* handed[s][i]: the values of stream i the race gave its caller

fislVars == <<race, last, lookup, answer, named, handed>>
vars == <<hintVars, fislVars>>

Raced == {"defaults", "lookup"}    \* the streams of a race

Init ==
    /\ HintsInit
    /\ race = [s \in Streams |-> "new"] /\ last = [s \in Streams |-> None]
    /\ lookup = [s \in Streams |-> "none"]
    /\ answer = [s \in Streams |-> [next |-> Idle, left |-> <<>>]]
    /\ named = [s \in Streams |-> <<>>] /\ handed = [s \in Streams |-> [i \in Raced |-> <<>>]]

(***************************************************************************)
(* The lookup.                                                             *)
(***************************************************************************)
\* readRecords: the lines up to the byte bound, those with a live record.
Records(c) == SelectSeq(SubSeq(Lines[c], 1, Min({MaxLines, Len(Lines[c])})), LAMBDA urls : urls # <<>>)

\* interleave: each record's first URL, then each one's second, and so on.
Rounds(groups) ==
    LET longest == Max({0} \cup {Len(groups[g]) : g \in DOMAIN groups})
        round(k) == LET longer == SelectSeq(groups, LAMBDA urls : k <= Len(urls))
                    IN  [g \in DOMAIN longer |-> longer[g][k]]
    IN  FlattenSeq([k \in 1..longest |-> round(k)])

EndLookup(s, urls) ==
    /\ lookup' = [lookup EXCEPT ![s] = IF urls = <<>> THEN "over" ELSE "answered"]
    /\ answer' = [answer EXCEPT ![s] = [next |-> IF urls = <<>> THEN Ended ELSE Asked, left |-> urls]]
    /\ UNCHANGED <<hintVars, race, last, named, handed>>

Answer(s) == lookup[s] = "waiting" /\ EndLookup(s, Rounds(Records(Cid(s))))
Refuse(s) == lookup[s] = "waiting" /\ EndLookup(s, <<>>)
\* withDeadline: the request's signal aborts ANSWER_TIMEOUT_MS after it left.
Deadline(s) == lookup[s] = "waiting" /\ EndLookup(s, <<>>)
\* closing.abort(): the same signal aborts when the race is closed.
Abort(s) == lookup[s] = "waiting" /\ race[s] = "closed" /\ EndLookup(s, <<>>)

Name(s) ==
    /\ lookup[s] = "answered" /\ answer[s].next.at = "asked"
    /\ IF answer[s].left = <<>>
       THEN /\ answer' = [answer EXCEPT ![s].next = Ended]
            /\ lookup' = [lookup EXCEPT ![s] = "over"]
            /\ UNCHANGED named
       ELSE /\ answer' = [answer EXCEPT ![s] = [next |-> Arrived(Head(@.left)), left |-> Tail(@.left)]]
            /\ named' = [named EXCEPT ![s] = Append(@, Head(answer[s].left))]
            /\ UNCHANGED lookup
    /\ UNCHANGED <<hintVars, race, last, handed>>

(***************************************************************************)
(* The race.                                                               *)
(***************************************************************************)
\* The promises the race holds: one stream's result each, until it is taken.
Result(s, i) == IF i = "defaults" THEN next[s] ELSE answer[s].next

\* The streams read on: none, one, or both as the race begins.
Step(s, read) ==
    /\ next' = IF "defaults" \in read THEN [next EXCEPT ![s] = Asked] ELSE next
    /\ answer' = IF "lookup" \in read THEN [answer EXCEPT ![s].next = Asked] ELSE answer

\* The first next(): both streams are asked, and the lookup's request leaves.
Begin(s) ==
    /\ race[s] = "new" /\ s \in DOMAIN page.cid
    /\ race' = [race EXCEPT ![s] = "pulled"]
    /\ Step(s, Raced)
    /\ lookup' = [lookup EXCEPT ![s] = "waiting"]
    /\ UNCHANGED <<page, resolverVars, wait, loads, stage, left, todo, probed, yielded, last, named, handed>>

\* Variant: every stream is read on, whether or not its value was taken.
EveryStream(s) == Raced

\* The stream whose value was taken.
ReadOn(s) == {last[s]}

Pull(s) ==
    /\ race[s] = "yielded"
    /\ race' = [race EXCEPT ![s] = "pulled"]
    /\ Step(s, ReadOn(s))
    /\ UNCHANGED <<page, resolverVars, wait, loads, stage, left, todo, probed, yielded, last, lookup, named, handed>>

\* A stream's value arrived first: it is the race's.
Hand(s, i) ==
    /\ race[s] = "pulled" /\ Result(s, i).at = "arrived"
    /\ race' = [race EXCEPT ![s] = "yielded"]
    /\ last' = [last EXCEPT ![s] = i]
    /\ handed' = [handed EXCEPT ![s][i] = Append(@, Result(s, i).value)]
    /\ next' = IF i = "defaults" THEN [next EXCEPT ![s] = Idle] ELSE next
    /\ answer' = IF i = "lookup" THEN [answer EXCEPT ![s].next = Idle] ELSE answer
    /\ UNCHANGED <<page, resolverVars, wait, loads, stage, left, todo, probed, yielded, lookup, named>>

\* Both streams ended: so does the race.
Finish(s) ==
    /\ race[s] = "pulled" /\ next[s].at = "ended" /\ answer[s].next.at = "ended"
    /\ race' = [race EXCEPT ![s] = "closed"]
    /\ UNCHANGED <<hintVars, last, lookup, answer, named, handed>>

\* return(), of a race that waits for its caller: each stream is closed where
\* it waits for the race, or ends at its next yield.
Close(s) ==
    /\ race[s] = "yielded"
    /\ race' = [race EXCEPT ![s] = "closed"]
    /\ next' = [next EXCEPT ![s] = IF @.at = "asked" THEN @ ELSE Ended]
    /\ answer' = [answer EXCEPT ![s].next = IF @.at = "asked" THEN @ ELSE Ended]
    /\ lookup' = [lookup EXCEPT ![s] = IF @ = "answered" THEN "over" ELSE @]
    /\ UNCHANGED <<page, resolverVars, wait, loads, stage, left, todo, probed, yielded, last, named, handed>>

RaceStep(s) == Finish(s) \/ \E i \in Raced : Hand(s, i)
DefaultsStep(s) == StreamStep(s) /\ UNCHANGED fislVars
LoadStepOf(s) == LoadNext(s) /\ UNCHANGED fislVars
ReadStep(d) == ReadDoc(d) /\ UNCHANGED fislVars

Next ==
    \/ \E s \in Streams :
          \/ Begin(s) \/ Pull(s) \/ Close(s) \/ RaceStep(s)
          \/ Answer(s) \/ Refuse(s) \/ Deadline(s) \/ Abort(s) \/ Name(s)
          \/ DefaultsStep(s) \/ LoadStepOf(s)
    \/ \E d \in Docs : ReadStep(d)

\* A stream that runs goes on: weak fairness of DefaultsStep(s), which Runs(s)
\* enables, written without the costly ENABLED.
GoesOn(s) ==
    LET at == <<stage[s], left[s], todo[s], next[s], wait[Stream(s)]>>
    IN  []<>(~Runs(s)) \/ []<><<Runs(s) /\ at' # at>>_vars

\* The timer fires, a documents' host answers or fails in the end, and promises'
\* reactions run.  The index need not answer, nor the caller pull or close.
Fairness ==
    /\ \A s \in Streams :
          /\ WF_vars(RaceStep(s)) /\ WF_vars(Deadline(s)) /\ WF_vars(Abort(s)) /\ WF_vars(Name(s))
          /\ WF_vars(LoadStepOf(s)) /\ GoesOn(s)
    /\ \A d \in Docs : WF_vars(ReadStep(d))

Spec == Init /\ [][Next]_vars /\ Fairness

(***************************************************************************)
(* Properties.                                                             *)
(***************************************************************************)
\* A document is fetched once however many wait for it, and no more documents
\* are registered than the cap.
TypeOK ==
    /\ ToSet(docUrls) \cup docs \cup attempted \subseteq Docs
    /\ Len(docUrls) <= MaxDocs /\ inflight \in [Docs -> 0..1]
    /\ wait \in [Processes -> Docs \cup {None}] /\ loads \in [Streams -> 0..(MaxDocs + 1)]
    /\ stage \in [Streams -> {"unopened", "configured", "loading", "probing", "locating", "done"}]
    /\ race \in [Streams -> {"new", "pulled", "yielded", "closed"}]
    /\ lookup \in [Streams -> {"none", "waiting", "answered", "over"}]

\* "Each stream read on only once its last value was taken": what the caller got
\* of each stream, and the value that waits for it, is all the stream yielded,
\* in its order, however the two interleave.
NothingLost ==
    \A s \in Streams, i \in Raced :
        LET waiting == IF Result(s, i).at = "arrived" THEN <<Result(s, i).value>> ELSE <<>>
        IN  race[s] # "closed" => handed[s][i] \o waiting = IF i = "defaults" THEN yielded[s] ELSE named[s]

\* Where a CID's documents may lie: beside the sources for the anchor, else
\* beside every anchor location now known.
Beside(c) ==
    IF c = Anchor THEN ToSet(page.sourceDocs)
    ELSE {BesideAnchor[l] : l \in ToSet(page.configured[Anchor] \o AsLocations(Anchor, Known(Anchor)))}

\* "Until it is found or the directories run out": a stream ends without a
\* location only if no document read names one, whoever read it, and every
\* directory beside the anchor, newly hinted ones included, was asked or is
\* past the cap.
EmptyHandedAtTheEnd ==
    [][\A s \in Streams :
          stage[s] # "done" /\ stage'[s] = "done" /\ yielded[s] = <<>> =>
              /\ AsLocations(Cid(s), Known(Cid(s))) = <<>>
              /\ Beside(Cid(s)) \subseteq attempted \/ Len(docUrls) = MaxDocs]_vars

\* Whoever waits for a location gets one or the end of the race: probing ends
\* though the documents name each other's directories, and an index that never
\* answers is given up.
Served == \A s \in Streams : race[s] = "pulled" ~> race[s] # "pulled"

=============================================================================
