----------------------------- MODULE FislProofs -----------------------------
(***************************************************************************)
(* Proofs about Fisl and the streams of Hints it races, for every page,    *)
(* document, index and number of asks.                                     *)
(*                                                                         *)
(* The race.  A value is safe while the promise that holds it is not read  *)
(* on.  The race reads on the stream of its last value, which is idle by   *)
(* then, and an ending lookup overwrites the promise of a `next()` that is *)
(* still outstanding (RaceInv): neither holds a value.                     *)
(*                                                                         *)
(* The streams.  What a stream asked for in its probing was attempted, or  *)
(* the cap is reached (ProbeInv); one that has yielded nothing still has   *)
(* something to yield, or goes on to its probes (EmptyInv).  So when it    *)
(* ends without a location it has asked for everything it knows.           *)
(***************************************************************************)
EXTENDS Fisl, SequenceTheorems, FiniteSetTheorems, TLAPS

IsSeq(q) == q \in Seq(ToSet(q))

Waiting(s, i) == IF Result(s, i).at = "arrived" THEN <<Result(s, i).value>> ELSE <<>>
Given(s, i) == IF i = "defaults" THEN yielded[s] ELSE named[s]

Shape ==
  /\ DOMAIN next = Streams /\ DOMAIN yielded = Streams /\ DOMAIN named = Streams
  /\ race \in [Streams -> {"new", "pulled", "yielded", "closed"}]
  /\ lookup \in [Streams -> {"none", "waiting", "answered", "over"}] /\ DOMAIN last = Streams
  /\ DOMAIN answer = Streams /\ \A s \in Streams : DOMAIN answer[s] = {"next", "left"}
  /\ DOMAIN handed = Streams /\ \A s \in Streams : DOMAIN handed[s] = Raced

\* A new race has nothing anywhere; a race that waits for its caller is to read
\* on a stream that holds no value; a lookup under way holds none.
RaceInv(s) ==
  /\ race[s] = "new" =>
        /\ next[s] = Idle /\ lookup[s] = "none" /\ answer[s].next = Idle
        /\ yielded[s] = <<>> /\ named[s] = <<>> /\ \A i \in Raced : handed[s][i] = <<>>
  /\ race[s] = "yielded" => last[s] \in Raced /\ Result(s, last[s]).at = "idle"
  /\ lookup[s] = "waiting" /\ race[s] # "closed" => answer[s].next.at = "asked"

HandedInv(s) ==
  \A i \in Raced :
     /\ IsSeq(handed[s][i]) /\ IsSeq(Given(s, i))
     /\ race[s] # "closed" => handed[s][i] \o Waiting(s, i) = Given(s, i)

StreamInv(s) == RaceInv(s) /\ HandedInv(s)
IInv == Shape /\ \A s \in Streams : StreamInv(s)

LEMMA EmptyIsSeq == IsSeq(<<>>)
BY DEF IsSeq

LEMMA ConcatEmpty == ASSUME NEW q, IsSeq(q) PROVE q \o <<>> = q
BY DEF IsSeq

\* A sequence with one more element.
LEMMA AppendIsSeq ==
  ASSUME NEW q, IsSeq(q), NEW v
  PROVE  IsSeq(Append(q, v)) /\ Append(q, v) = q \o <<v>> /\ Append(q, v) \o <<>> = Append(q, v)
<1> DEFINE S == ToSet(q) \cup {v}
           a == Append(q, v)
<1>1. q \in Seq(S)
  BY DEF IsSeq
<1>2. a \in Seq(S) /\ a = q \o <<v>> /\ a \o <<>> = a
  BY <1>1
<1>3. a \in Seq(ToSet(a))
  <2>1. Len(a) \in Nat /\ a = [k \in 1..Len(a) |-> a[k]] /\ DOMAIN a = 1..Len(a)
    BY <1>2
  <2>2. \A k \in 1..Len(a) : a[k] \in ToSet(a)
    BY <2>1 DEF ToSet
  <2> HIDE DEF a
  <2>. QED
    BY <2>1, <2>2
<1>. QED
  BY <1>2, <1>3 DEF IsSeq

LEMMA InitInv == Init => IInv
<1> SUFFICES ASSUME Init PROVE IInv
  OBVIOUS
<1>1. Shape
  BY DEF Init, HintsInit, Shape
<1>2. ASSUME NEW s \in Streams
      PROVE  StreamInv(s)
  <2>1. /\ race[s] = "new" /\ next[s] = Idle /\ lookup[s] = "none" /\ answer[s].next = Idle
        /\ yielded[s] = <<>> /\ named[s] = <<>> /\ \A i \in Raced : handed[s][i] = <<>>
    BY DEF Init, HintsInit
  <2>2. RaceInv(s)
    BY <2>1 DEF RaceInv
  <2>3. \A i \in Raced : Waiting(s, i) = <<>> /\ Given(s, i) = <<>>
    BY <2>1 DEF Waiting, Given, Result, Idle
  <2>4. HandedInv(s)
    BY <2>1, <2>3, EmptyIsSeq, ConcatEmpty DEF HandedInv
  <2>. QED
    BY <2>2, <2>4 DEF StreamInv
<1>. QED
  BY <1>1, <1>2 DEF IInv

\* What a stream's invariant is about.
Parts(s) == <<race[s], last[s], lookup[s], answer[s], named[s], handed[s], next[s], yielded[s]>>

LEMMA Elsewhere ==
  ASSUME NEW s \in Streams, StreamInv(s), Parts(s)' = Parts(s)
  PROVE  StreamInv(s)'
BY DEF StreamInv, RaceInv, HandedInv, Waiting, Given, Result, Parts

\* A step that leaves every race alone.
LEMMA RaceUnchanged ==
  ASSUME IInv, UNCHANGED <<fislVars, next, yielded>>
  PROVE  IInv'
<1>1. Shape'
  BY DEF IInv, Shape, fislVars
<1>2. \A s \in Streams : Parts(s)' = Parts(s)
  BY DEF Parts, fislVars
<1>. QED
  BY <1>1, <1>2, Elsewhere DEF IInv

\* What a step of ask s has to show of it.
LEMMA OneStream ==
  ASSUME IInv, Shape', NEW s \in Streams, StreamInv(s)',
         \A t \in Streams : t # s => Parts(t)' = Parts(t)
  PROVE  IInv'
BY Elsewhere DEF IInv

(***************************************************************************)
(* The page's own locations.                                               *)
(***************************************************************************)
LEMMA YieldInv ==
  ASSUME IInv, NEW s \in Streams, Yield(s), UNCHANGED fislVars
  PROVE  IInv'
<1> DEFINE v == Head(left[s])
<1>1. next' = [next EXCEPT ![s] = Arrived(v)] /\ yielded' = [yielded EXCEPT ![s] = Append(yielded[s], v)]
  BY DEF Yield
<1> HIDE DEF v
<1>2. next[s].at = "asked"
  BY DEF Yield, Runs
<1>3. Shape'
  BY <1>1 DEF IInv, Shape, fislVars
<1>4. /\ next'[s] = Arrived(v) /\ yielded'[s] = Append(yielded[s], v)
      /\ UNCHANGED <<race[s], last[s], lookup[s], answer[s], named[s], handed[s]>>
  BY <1>1 DEF IInv, Shape, fislVars
<1>5. race[s] # "new"
  BY <1>2 DEF IInv, StreamInv, RaceInv, Idle
<1>6. RaceInv(s)'
  <2>1. race[s] = "yielded" => last[s] # "defaults"
    BY <1>2 DEF IInv, StreamInv, RaceInv, Result
  <2>. QED
    BY <1>4, <1>5, <2>1 DEF IInv, StreamInv, RaceInv, Result, Raced
<1>7. HandedInv(s)'
  <2>1. /\ Waiting(s, "defaults") = <<>> /\ Waiting(s, "defaults")' = <<v>>
        /\ Given(s, "defaults")' = Append(Given(s, "defaults"), v)
    BY <1>2, <1>4 DEF Waiting, Given, Result, Arrived
  <2>2. Waiting(s, "lookup")' = Waiting(s, "lookup") /\ Given(s, "lookup")' = Given(s, "lookup")
    BY <1>4 DEF Waiting, Given, Result
  <2>3. IsSeq(handed[s]["defaults"]) /\ IsSeq(Given(s, "defaults"))
    BY DEF IInv, StreamInv, HandedInv, Raced
  <2>4. race[s] # "closed" => handed[s]["defaults"] = Given(s, "defaults")
    BY <2>1, <2>3, ConcatEmpty DEF IInv, StreamInv, HandedInv, Raced
  <2>5. /\ IsSeq(Append(Given(s, "defaults"), v))
        /\ Append(Given(s, "defaults"), v) = Given(s, "defaults") \o <<v>>
    BY <2>3, AppendIsSeq
  <2>6. race'[s] = race[s] /\ handed'[s] = handed[s]
    BY <1>4
  <2>. QED
    BY <2>1, <2>2, <2>3, <2>4, <2>5, <2>6 DEF IInv, StreamInv, HandedInv, Raced
<1>8. \A t \in Streams : t # s => Parts(t)' = Parts(t)
  BY <1>1 DEF Parts, fislVars, IInv, Shape
<1>. QED
  BY <1>3, <1>6, <1>7, <1>8, OneStream DEF StreamInv

LEMMA EndStreamInv ==
  ASSUME IInv, NEW s \in Streams, Runs(s), EndStream(s), UNCHANGED fislVars
  PROVE  IInv'
<1>1. next' = [next EXCEPT ![s] = Ended] /\ UNCHANGED yielded
  BY DEF EndStream
<1>2. next[s].at = "asked"
  BY DEF Runs
<1>3. Shape'
  BY <1>1 DEF IInv, Shape, fislVars
<1>4. /\ next'[s] = Ended /\ yielded'[s] = yielded[s]
      /\ UNCHANGED <<race[s], last[s], lookup[s], answer[s], named[s], handed[s]>>
  BY <1>1 DEF IInv, Shape, fislVars
<1>5. race[s] # "new" /\ (race[s] = "yielded" => last[s] # "defaults")
  BY <1>2 DEF IInv, StreamInv, RaceInv, Idle, Result
<1>6. RaceInv(s)'
  BY <1>4, <1>5 DEF IInv, StreamInv, RaceInv, Result, Raced
<1>7. \A i \in Raced : Waiting(s, i)' = Waiting(s, i) /\ Given(s, i)' = Given(s, i)
  BY <1>2, <1>4 DEF Waiting, Given, Result, Ended, Raced
<1>8. HandedInv(s)'
  BY <1>4, <1>7 DEF IInv, StreamInv, HandedInv
<1>9. \A t \in Streams : t # s => Parts(t)' = Parts(t)
  BY <1>1 DEF Parts, fislVars, IInv, Shape
<1>. QED
  BY <1>3, <1>6, <1>8, <1>9, OneStream DEF StreamInv

LEMMA DefaultsInv ==
  ASSUME IInv, NEW s \in Streams, DefaultsStep(s)
  PROVE  IInv'
<1>1. UNCHANGED fislVars
  BY DEF DefaultsStep
<1>2. CASE Yield(s)
  BY <1>1, <1>2, YieldInv
<1>3. CASE Runs(s) /\ EndStream(s)
  BY <1>1, <1>3, EndStreamInv
<1>4. CASE UNCHANGED <<next, yielded>>
  BY <1>1, <1>4, RaceUnchanged
<1>5. Yield(s) \/ (Runs(s) /\ EndStream(s)) \/ UNCHANGED <<next, yielded>>
  <2>1. CASE Hinted(s)
    BY <2>1 DEF Hinted, GoOn
  <2>2. CASE EndRound(s)
    BY <2>2 DEF EndRound, GoOn
  <2>3. CASE Located(s)
    BY <2>3 DEF Located, Through
  <2>4. CASE Open(s) \/ BeginRest(s) \/ LoadStep(s) \/ Probe(s)
    BY <2>4 DEF Open, BeginRest, LoadStep, Probe
  <2>. QED
    BY <2>1, <2>2, <2>3, <2>4 DEF DefaultsStep, StreamStep
<1>. QED
  BY <1>2, <1>3, <1>4, <1>5

(***************************************************************************)
(* The lookup.                                                             *)
(***************************************************************************)
LEMMA EndLookupInv ==
  ASSUME IInv, NEW s \in Streams, lookup[s] = "waiting", NEW urls, EndLookup(s, urls)
  PROVE  IInv'
<1> DEFINE to == IF urls = <<>> THEN Ended ELSE Asked
<1>1. /\ lookup' = [lookup EXCEPT ![s] = IF urls = <<>> THEN "over" ELSE "answered"]
      /\ answer' = [answer EXCEPT ![s] = [next |-> to, left |-> urls]]
      /\ UNCHANGED <<next, yielded, race, last, named, handed>>
  BY DEF EndLookup, hintVars
<1>2. Shape'
  BY <1>1 DEF IInv, Shape
<1>3. /\ lookup'[s] # "waiting" /\ answer'[s].next = to
      /\ UNCHANGED <<race[s], last[s], named[s], handed[s], next[s], yielded[s]>>
  BY <1>1 DEF IInv, Shape
<1>4. to.at # "arrived"
  BY DEF Ended, Asked
<1> HIDE DEF to
<1>5. race[s] # "new" /\ (race[s] # "closed" => answer[s].next.at = "asked")
  BY DEF IInv, StreamInv, RaceInv
<1>6. RaceInv(s)'
  <2>1. race[s] = "yielded" => last[s] # "lookup"
    BY <1>5 DEF IInv, StreamInv, RaceInv, Result
  <2>. QED
    BY <1>3, <1>5, <2>1 DEF IInv, StreamInv, RaceInv, Result, Raced
<1>7. \A i \in Raced : Given(s, i)' = Given(s, i) /\ (race[s] # "closed" => Waiting(s, i)' = Waiting(s, i))
  BY <1>3, <1>4, <1>5 DEF Waiting, Given, Result, Raced
<1>8. HandedInv(s)'
  BY <1>3, <1>7 DEF IInv, StreamInv, HandedInv
<1>9. \A t \in Streams : t # s => Parts(t)' = Parts(t)
  BY <1>1 DEF Parts, IInv, Shape
<1>. QED
  BY <1>2, <1>6, <1>8, <1>9, OneStream DEF StreamInv

LEMMA NameInv ==
  ASSUME IInv, NEW s \in Streams, Name(s)
  PROVE  IInv'
<1> DEFINE v == Head(answer[s].left)
<1>1. /\ lookup[s] = "answered" /\ answer[s].next.at = "asked"
      /\ UNCHANGED <<next, yielded, race, last, handed>>
  BY DEF Name, hintVars
<1>2. race[s] # "new" /\ (race[s] = "yielded" => last[s] # "lookup")
  BY <1>1 DEF IInv, StreamInv, RaceInv, Result
<1>3. CASE answer[s].left = <<>>
  <2>1. answer' = [answer EXCEPT ![s].next = Ended] /\ lookup' = [lookup EXCEPT ![s] = "over"] /\ UNCHANGED named
    BY <1>3 DEF Name
  <2>2. Shape'
    BY <1>1, <2>1 DEF IInv, Shape
  <2>3. /\ lookup'[s] = "over" /\ answer'[s].next = Ended
        /\ UNCHANGED <<race[s], last[s], named[s], handed[s], next[s], yielded[s]>>
    BY <1>1, <2>1 DEF IInv, Shape
  <2>4. RaceInv(s)'
    BY <1>2, <2>3 DEF IInv, StreamInv, RaceInv, Result, Raced
  <2>5. \A i \in Raced : Given(s, i)' = Given(s, i) /\ Waiting(s, i)' = Waiting(s, i)
    BY <1>1, <2>3 DEF Waiting, Given, Result, Ended, Raced
  <2>6. HandedInv(s)'
    BY <2>3, <2>5 DEF IInv, StreamInv, HandedInv
  <2>7. \A t \in Streams : t # s => Parts(t)' = Parts(t)
    BY <1>1, <2>1 DEF Parts, IInv, Shape
  <2>. QED
    BY <2>2, <2>4, <2>6, <2>7, OneStream DEF StreamInv
<1>4. CASE answer[s].left # <<>>
  <2> DEFINE new == [next |-> Arrived(v), left |-> Tail(answer[s].left)]
  <2>1. answer' = [answer EXCEPT ![s] = new] /\ named' = [named EXCEPT ![s] = Append(named[s], v)] /\ UNCHANGED lookup
    BY <1>4 DEF Name
  <2>2. new.next = Arrived(v) /\ DOMAIN new = {"next", "left"}
    OBVIOUS
  <2> HIDE DEF new, v
  <2>3. Shape'
    BY <1>1, <2>1, <2>2 DEF IInv, Shape
  <2>4. /\ lookup'[s] = lookup[s] /\ answer'[s].next = Arrived(v) /\ named'[s] = Append(named[s], v)
        /\ UNCHANGED <<race[s], last[s], handed[s], next[s], yielded[s]>>
    BY <1>1, <2>1, <2>2 DEF IInv, Shape
  <2>5. RaceInv(s)'
    BY <1>1, <1>2, <2>4 DEF IInv, StreamInv, RaceInv, Result, Raced
  <2>6. /\ Waiting(s, "lookup") = <<>> /\ Waiting(s, "lookup")' = <<v>>
        /\ Given(s, "lookup")' = Append(Given(s, "lookup"), v)
    BY <1>1, <2>4 DEF Waiting, Given, Result, Arrived
  <2>7. Waiting(s, "defaults")' = Waiting(s, "defaults") /\ Given(s, "defaults")' = Given(s, "defaults")
    BY <2>4 DEF Waiting, Given, Result
  <2>8. IsSeq(handed[s]["lookup"]) /\ IsSeq(Given(s, "lookup"))
    BY DEF IInv, StreamInv, HandedInv, Raced
  <2>9. race[s] # "closed" => handed[s]["lookup"] = Given(s, "lookup")
    BY <2>6, <2>8, ConcatEmpty DEF IInv, StreamInv, HandedInv, Raced
  <2>10. /\ IsSeq(Append(Given(s, "lookup"), v))
         /\ Append(Given(s, "lookup"), v) = Given(s, "lookup") \o <<v>>
    BY <2>8, AppendIsSeq
  <2>11. race'[s] = race[s] /\ handed'[s] = handed[s]
    BY <2>4
  <2>12. HandedInv(s)'
    BY <2>6, <2>7, <2>8, <2>9, <2>10, <2>11 DEF IInv, StreamInv, HandedInv, Raced
  <2>13. \A t \in Streams : t # s => Parts(t)' = Parts(t)
    BY <1>1, <2>1 DEF Parts, IInv, Shape
  <2>. QED
    BY <2>3, <2>5, <2>12, <2>13, OneStream DEF StreamInv
<1>. QED
  BY <1>3, <1>4

(***************************************************************************)
(* The race.                                                               *)
(***************************************************************************)
\* The streams that are read on hold no value.
LEMMA StepInv ==
  ASSUME IInv, NEW s \in Streams, NEW read \in SUBSET Raced, Step(s, read),
         race[s] \in {"new", "yielded"}, \A i \in read : Result(s, i).at = "idle",
         race' = [race EXCEPT ![s] = "pulled"], UNCHANGED <<yielded, last, named, handed>>,
         \/ UNCHANGED lookup
         \/ read = Raced /\ lookup' = [lookup EXCEPT ![s] = "waiting"]
  PROVE  IInv'
<1>1. /\ next' = IF "defaults" \in read THEN [next EXCEPT ![s] = Asked] ELSE next
      /\ answer' = IF "lookup" \in read THEN [answer EXCEPT ![s].next = Asked] ELSE answer
  BY DEF Step
<1>2. Shape'
  BY <1>1 DEF IInv, Shape
<1>3. /\ \A i \in read : Result(s, i)' = Asked
      /\ \A i \in Raced \ read : Result(s, i)' = Result(s, i)
      /\ race'[s] = "pulled" /\ UNCHANGED <<yielded[s], last[s], named[s], handed[s]>>
  BY <1>1 DEF IInv, Shape, Result, Raced
<1>4. lookup'[s] = "waiting" => answer'[s].next.at = "asked"
  <2>1. CASE "lookup" \in read
    BY <1>3, <2>1 DEF Result, Asked
  <2>2. CASE "lookup" \notin read
    <3>1. UNCHANGED lookup /\ answer' = answer
      BY <1>1, <2>2 DEF Raced
    <3>. QED
      BY <3>1 DEF IInv, StreamInv, RaceInv
  <2>. QED
    BY <2>1, <2>2
<1>5. RaceInv(s)'
  BY <1>3, <1>4 DEF RaceInv
<1>6. \A i \in Raced : Given(s, i)' = Given(s, i) /\ Waiting(s, i)' = Waiting(s, i)
  BY <1>3 DEF Waiting, Given, Asked
<1>7. HandedInv(s)'
  BY <1>3, <1>6 DEF IInv, StreamInv, HandedInv
<1>8. \A t \in Streams : t # s => Parts(t)' = Parts(t)
  BY <1>1 DEF Parts, IInv, Shape
<1>. QED
  BY <1>2, <1>5, <1>7, <1>8, OneStream DEF StreamInv

LEMMA BeginInv ==
  ASSUME IInv, NEW s \in Streams, Begin(s)
  PROVE  IInv'
<1>1. \A i \in Raced : Result(s, i).at = "idle"
  BY DEF Begin, IInv, StreamInv, RaceInv, Result, Idle
<1>2. Raced \in SUBSET Raced
  OBVIOUS
<1>3. Step(s, Raced)
  BY DEF Begin
<1>. QED
  BY <1>1, <1>2, <1>3, StepInv DEF Begin

LEMMA PullInv ==
  ASSUME IInv, NEW s \in Streams, Pull(s)
  PROVE  IInv'
<1>1. ReadOn(s) \in SUBSET Raced /\ \A i \in ReadOn(s) : Result(s, i).at = "idle"
  BY DEF Pull, IInv, StreamInv, RaceInv, ReadOn
<1>. QED
  BY <1>1, StepInv DEF Pull

LEMMA HandInv ==
  ASSUME IInv, NEW s \in Streams, NEW i \in Raced, Hand(s, i)
  PROVE  IInv'
<1> DEFINE v == Result(s, i).value
           given == Append(handed[s][i], v)
<1>1. /\ race[s] = "pulled" /\ Result(s, i).at = "arrived"
      /\ race' = [race EXCEPT ![s] = "yielded"] /\ last' = [last EXCEPT ![s] = i]
      /\ handed' = [handed EXCEPT ![s][i] = given]
      /\ next' = IF i = "defaults" THEN [next EXCEPT ![s] = Idle] ELSE next
      /\ answer' = IF i = "lookup" THEN [answer EXCEPT ![s].next = Idle] ELSE answer
      /\ UNCHANGED <<yielded, lookup, named>>
  BY DEF Hand
<1> HIDE DEF given
<1>2. Shape'
  BY <1>1 DEF IInv, Shape
<1>3. /\ race'[s] = "yielded" /\ last'[s] = i /\ handed'[s][i] = given
      /\ \A j \in Raced : j # i => handed'[s][j] = handed[s][j] /\ Result(s, j)' = Result(s, j)
      /\ Result(s, i)' = Idle
      /\ \A j \in Raced : Given(s, j)' = Given(s, j)
      /\ lookup'[s] = lookup[s]
  BY <1>1 DEF IInv, Shape, Result, Given, Raced
<1>4. RaceInv(s)'
  <2>1. lookup[s] = "waiting" => i # "lookup" /\ answer[s].next.at = "asked"
    BY <1>1 DEF IInv, StreamInv, RaceInv, Result
  <2>2. lookup'[s] = "waiting" => answer'[s].next.at = "asked"
    BY <1>1, <1>3, <2>1
  <2>. QED
    BY <1>3, <2>2 DEF RaceInv, Idle
<1>5. IsSeq(given) /\ given = handed[s][i] \o <<v>> /\ given \o <<>> = given
  BY AppendIsSeq DEF IInv, StreamInv, HandedInv, given
<1>6. Waiting(s, i) = <<v>> /\ Waiting(s, i)' = <<>> /\ \A j \in Raced : j # i => Waiting(s, j)' = Waiting(s, j)
  BY <1>1, <1>3 DEF Waiting, Idle
<1>7. given = Given(s, i)
  BY <1>1, <1>5, <1>6 DEF IInv, StreamInv, HandedInv
<1>8. HandedInv(s)'
  BY <1>1, <1>3, <1>5, <1>6, <1>7 DEF IInv, StreamInv, HandedInv
<1>9. \A t \in Streams : t # s => Parts(t)' = Parts(t)
  BY <1>1 DEF Parts, IInv, Shape
<1>. QED
  BY <1>2, <1>4, <1>8, <1>9, OneStream DEF StreamInv

\* A closed race owes its caller nothing.
LEMMA ClosedInv ==
  ASSUME IInv, Shape', NEW s \in Streams, race' = [race EXCEPT ![s] = "closed"],
         UNCHANGED <<yielded, last, named, handed>>,
         \A t \in Streams : t # s => Parts(t)' = Parts(t)
  PROVE  IInv'
<1>1. race'[s] = "closed" /\ UNCHANGED <<yielded[s], named[s], handed[s]>>
  BY DEF IInv, Shape
<1>2. RaceInv(s)'
  BY <1>1 DEF RaceInv
<1>3. HandedInv(s)'
  BY <1>1 DEF IInv, StreamInv, HandedInv, Given
<1>. QED
  BY <1>2, <1>3, OneStream DEF StreamInv

LEMMA FinishInv ==
  ASSUME IInv, NEW s \in Streams, Finish(s)
  PROVE  IInv'
<1>1. race' = [race EXCEPT ![s] = "closed"] /\ UNCHANGED <<next, yielded, last, lookup, answer, named, handed>>
  BY DEF Finish, hintVars
<1>2. Shape' /\ \A t \in Streams : t # s => Parts(t)' = Parts(t)
  BY <1>1 DEF Parts, IInv, Shape
<1>. QED
  BY <1>1, <1>2, ClosedInv

LEMMA CloseInv ==
  ASSUME IInv, NEW s \in Streams, Close(s)
  PROVE  IInv'
<1>1. race' = [race EXCEPT ![s] = "closed"] /\ UNCHANGED <<yielded, last, named, handed>>
  BY DEF Close
<1>2. Shape' /\ \A t \in Streams : t # s => Parts(t)' = Parts(t)
  BY DEF Close, Parts, IInv, Shape
<1>. QED
  BY <1>1, <1>2, ClosedInv

LEMMA NextInv ==
  ASSUME IInv, [Next]_vars
  PROVE  IInv'
<1>1. ASSUME NEW s \in Streams, Answer(s) \/ Refuse(s) \/ Deadline(s) \/ Abort(s)
      PROVE  IInv'
  BY <1>1, EndLookupInv DEF Answer, Refuse, Deadline, Abort
<1>2. ASSUME NEW s \in Streams, RaceStep(s)
      PROVE  IInv'
  BY <1>2, FinishInv, HandInv DEF RaceStep
<1>3. ASSUME NEW s \in Streams, LoadStepOf(s)
      PROVE  IInv'
  BY <1>3, RaceUnchanged DEF LoadStepOf, LoadNext
<1>4. ASSUME NEW d \in Docs, ReadStep(d)
      PROVE  IInv'
  BY <1>4, RaceUnchanged DEF ReadStep, ReadDoc
<1>5. CASE UNCHANGED vars
  BY <1>5, RaceUnchanged DEF vars, hintVars
<1>. QED
  BY <1>1, <1>2, <1>3, <1>4, <1>5, BeginInv, PullInv, CloseInv, NameInv, DefaultsInv DEF Next

THEOREM Invariance == Spec => []IInv
<1>1. IInv /\ [Next]_vars => IInv'
  BY NextInv
<1>. QED
  BY InitInv, <1>1, PTL DEF Spec

\* NothingLost, for every page, index and number of asks: what the caller got of
\* each stream, and the value that waits for it, is all the stream yielded.
THEOREM RaceLosesNothing == Spec => []NothingLost
<1>1. IInv => NothingLost
  BY DEF IInv, StreamInv, HandedInv, Waiting, Given, NothingLost
<1>. QED
  BY <1>1, Invariance, PTL

(***************************************************************************)
(* The sequences a stream goes through.                                    *)
(***************************************************************************)
\* The k-th place of a set of them, as `Selected` finds it.
LEMMA Places ==
  ASSUME NEW at \in SUBSET Nat, IsFiniteSet(at)
  PROVE  /\ Cardinality(at) \in Nat
         /\ \A k \in 1..Cardinality(at) : \E i \in at : Cardinality({j \in at : j < i}) = k - 1
         /\ \A i \in at : Cardinality({j \in at : j < i}) \in 0..(Cardinality(at) - 1)
         /\ \A i, k \in at : Cardinality({j \in at : j < i}) = Cardinality({j \in at : j < k}) => i = k
<1> DEFINE n == Cardinality(at)
           below(i) == {j \in at : j < i}
           rank == [i \in at |-> Cardinality(below(i)) + 1]
<1>1. n \in Nat /\ IsFiniteSet(1..n) /\ Cardinality(1..n) = n
  BY FS_CardinalityType, FS_Interval
<1>2. ASSUME NEW i \in at
      PROVE  IsFiniteSet(below(i)) /\ Cardinality(below(i)) \in Nat /\ Cardinality(below(i)) < n
  <2>1. below(i) \in SUBSET at /\ i \notin below(i)
    OBVIOUS
  <2>2. IsFiniteSet(below(i)) /\ Cardinality(below(i)) <= n /\ Cardinality(below(i)) # n
    BY <2>1, FS_Subset
  <2>. QED
    BY <1>1, <2>2, FS_CardinalityType
<1>3. ASSUME NEW i \in at, NEW k \in at, i < k
      PROVE  Cardinality(below(i)) < Cardinality(below(k))
  <2>1. i \in below(k) /\ i \notin below(i) /\ \A j \in at : j < i => j < k
    BY <1>3
  <2>2. below(i) \in SUBSET below(k)
    BY <2>1
  <2>3. Cardinality(below(i)) <= Cardinality(below(k)) /\ Cardinality(below(i)) # Cardinality(below(k))
    BY <1>2, <2>1, <2>2, FS_Subset
  <2>4. Cardinality(below(i)) \in Nat /\ Cardinality(below(k)) \in Nat
    BY <1>2
  <2> HIDE DEF below
  <2>. QED
    BY <2>3, <2>4
<1>4. ASSUME NEW i \in at, NEW k \in at, Cardinality(below(i)) = Cardinality(below(k))
      PROVE  i = k
  <2>1. Cardinality(below(i)) \in Nat /\ i \in Nat /\ k \in Nat
    BY <1>2
  <2> HIDE DEF below
  <2>. QED
    BY <1>3, <1>4, <2>1
<1>5. \A i \in at : Cardinality(below(i)) \in 0..(n - 1)
  <2> HIDE DEF below, n
  <2>. QED
    BY <1>1, <1>2
<1>6. rank \in Injection(at, 1..n)
  <2>1. \A i \in at : rank[i] \in 1..n
    <3> HIDE DEF below, n
    <3>. QED
      BY <1>1, <1>5
  <2>2. ASSUME NEW i \in at, NEW k \in at, rank[i] = rank[k]
        PROVE  i = k
    <3>1. Cardinality(below(i)) \in Nat /\ Cardinality(below(k)) \in Nat
      BY <1>2
    <3>2. Cardinality(below(i)) + 1 = Cardinality(below(k)) + 1
      BY <2>2
    <3> HIDE DEF below, rank
    <3>. QED
      BY <1>4, <3>1, <3>2
  <2>3. rank \in [at -> 1..n]
    BY <2>1
  <2>. QED
    BY <2>2, <2>3 DEF Injection, IsInjective
<1>7. rank \in Surjection(at, 1..n)
  <2> HIDE DEF rank
  <2>. QED
    BY <1>1, <1>6, FS_Injection
<1>8. ASSUME NEW k \in 1..n PROVE \E i \in at : Cardinality(below(i)) = k - 1
  <2>1. PICK i \in at : rank[i] = k
    BY <1>7 DEF Surjection
  <2>2. Cardinality(below(i)) \in Nat /\ Cardinality(below(i)) + 1 = k
    BY <1>2, <2>1
  <2> HIDE DEF below, rank
  <2>3. Cardinality(below(i)) = k - 1
    BY <2>2
  <2>. QED
    BY <2>3
<1>. QED
  BY <1>1, <1>4, <1>5, <1>8

\* Selected is the sequence of what is at those places.
LEMMA SelectedSeq ==
  ASSUME NEW S, NEW seq \in Seq(S), NEW at \in SUBSET (DOMAIN seq)
  PROVE  /\ Selected(seq, at) \in Seq({seq[i] : i \in at})
         /\ ToSet(Selected(seq, at)) = {seq[i] : i \in at}
         /\ Selected(seq, at) = <<>> => at = {}
<1> DEFINE n == Cardinality(at)
           below(i) == {j \in at : j < i}
           place(k) == CHOOSE i \in at : Cardinality(below(i)) = k - 1
           sel == Selected(seq, at)
<1>1. at \in SUBSET Nat /\ IsFiniteSet(at)
  <2>1. IsFiniteSet(1..Len(seq)) /\ DOMAIN seq = 1..Len(seq) /\ Len(seq) \in Nat
    BY FS_Interval
  <2>. QED
    BY <2>1, FS_Subset
<1>2. /\ n \in Nat
      /\ \A k \in 1..n : \E i \in at : Cardinality(below(i)) = k - 1
      /\ \A i \in at : Cardinality(below(i)) \in 0..(n - 1)
      /\ \A i, k \in at : Cardinality(below(i)) = Cardinality(below(k)) => i = k
  BY <1>1, Places
<1>3. sel = [k \in 1..n |-> seq[place(k)]]
  BY DEF Selected
<1> HIDE DEF sel, below, n
<1>4. ASSUME NEW k \in 1..n PROVE place(k) \in at
  BY <1>2
<1>5. ASSUME NEW i \in at PROVE \E k \in 1..n : place(k) = i
  <2> DEFINE k == Cardinality(below(i)) + 1
  <2>1. Cardinality(below(i)) \in 0..(n - 1)
    BY <1>2
  <2>2. k \in 1..n /\ k - 1 = Cardinality(below(i))
    BY <1>2, <2>1
  <2> HIDE DEF k
  <2>3. place(k) \in at /\ Cardinality(below(place(k))) = k - 1
    BY <1>2, <2>2
  <2>4. place(k) = i
    BY <1>2, <2>2, <2>3
  <2>. QED
    BY <2>2, <2>4
<1> HIDE DEF place
<1>6. sel \in [1..n -> {seq[i] : i \in at}]
  BY <1>3, <1>4
<1>7. sel \in Seq({seq[i] : i \in at})
  BY <1>2, <1>6
<1>8. ToSet(sel) = {seq[i] : i \in at}
  <2>1. DOMAIN sel = 1..n
    BY <1>3
  <2>2. ASSUME NEW i \in at PROVE seq[i] \in ToSet(sel)
    BY <1>3, <1>5, <2>1 DEF ToSet
  <2>. QED
    BY <1>6, <2>1, <2>2 DEF ToSet
<1>9. sel = <<>> => at = {}
  <2>1. ToSet(<<>>) = {}
    BY DEF ToSet
  <2>. QED
    BY <1>8, <2>1
<1>. QED
  BY <1>7, <1>8, <1>9 DEF sel

\* A set of naturals has a least one.
LEMMA LeastNat ==
  ASSUME NEW T \in SUBSET Nat, T # {}
  PROVE  \E m \in T : \A k \in T : m <= k
<1>1. PICK m \in T : \A k \in T : ~(<<k, m>> \in OpToRel(<, Nat))
  BY NatLessThanWellFounded, WFMin
<1>2. ASSUME NEW k \in T PROVE m <= k
  <2>1. <<k, m>> \in Nat \X Nat /\ ~(<<k, m>> \in OpToRel(<, Nat))
    BY <1>1
  <2>2. ~(k < m)
    BY <2>1 DEF OpToRel
  <2>. QED
    BY <2>2
<1>. QED
  BY <1>2

\* The first occurrences are all that occurs.
LEMMA FirstOccurrencesSeq ==
  ASSUME NEW S, NEW seq \in Seq(S)
  PROVE  FirstOccurrences(seq) \in Seq(S) /\ ToSet(FirstOccurrences(seq)) = ToSet(seq)
<1> DEFINE first == {i \in DOMAIN seq : \A j \in 1..(i - 1) : seq[j] # seq[i]}
<1>1. first \in SUBSET (DOMAIN seq) /\ FirstOccurrences(seq) = Selected(seq, first)
  BY DEF FirstOccurrences
<1>2. ASSUME NEW x \in ToSet(seq) PROVE \E i \in first : seq[i] = x
  <2> DEFINE T == {i \in DOMAIN seq : seq[i] = x}
  <2>1. T \in SUBSET Nat /\ T # {}
    BY DEF ToSet
  <2>2. PICK m \in T : \A k \in T : m <= k
    BY <2>1, LeastNat
  <2>3. ASSUME NEW j \in 1..(m - 1) PROVE seq[j] # seq[m]
    <3>1. j \in DOMAIN seq /\ ~(m <= j)
      OBVIOUS
    <3>. QED
      BY <2>2, <3>1
  <2>. QED
    BY <2>3
<1> HIDE DEF first
<1>3. ToSet(seq) = {seq[i] : i \in first}
  BY <1>1, <1>2 DEF ToSet
<1>4. {seq[i] : i \in first} \subseteq S
  BY <1>1
<1>5. Selected(seq, first) \in Seq({seq[i] : i \in first}) /\ ToSet(Selected(seq, first)) = {seq[i] : i \in first}
  BY <1>1, SelectedSeq
<1>. QED
  BY <1>1, <1>3, <1>4, <1>5

\* Concatenating sequences over S yields one.
LEMMA FlattenIsSeq ==
  ASSUME NEW S, NEW seqs \in Seq(Seq(S))
  PROVE  FlattenSeq(seqs) \in Seq(S)
<1> DEFINE n == Len(seqs)
           Eq(f, m) == f = [i \in 1..m |-> IF i = 1 THEN seqs[i] ELSE f[i - 1] \o seqs[i]]
<1>1. n \in Nat /\ \A i \in 1..n : seqs[i] \in Seq(S)
  OBVIOUS
<1> HIDE DEF n
<1>2. CASE n = 0
  <2>1. FlattenSeq(seqs) = seqs /\ seqs = <<>>
    BY <1>2 DEF FlattenSeq, n
  <2>. QED
    BY <2>1
<1>3. CASE n # 0
  <2> DEFINE Bad == {m \in 0..n : ~\E f : Eq(f, m)}
  <2>1. Bad = {}
    <3> SUFFICES ASSUME Bad # {} PROVE FALSE
      OBVIOUS
    <3> HIDE DEF Eq
    <3>1. Bad \in SUBSET Nat
      BY <1>1
    <3>2. PICK m \in Bad : \A k \in Bad : m <= k
      <4> HIDE DEF Bad
      <4>. QED
        BY <3>1, LeastNat
    <3>3. m # 0
      <4>1. Eq(<<>>, 0)
        BY DEF Eq
      <4>. QED
        BY <4>1
    <3>4. m - 1 \in 0..n /\ m \in 1..n
      BY <1>1, <3>3
    <3>5. m - 1 \notin Bad
      <4>1. ~(m <= m - 1)
        BY <3>4
      <4> HIDE DEF Bad
      <4>. QED
        BY <3>2, <4>1
    <3>6. PICK f : Eq(f, m - 1)
      BY <3>4, <3>5
    <3> DEFINE g == [i \in 1..m |-> IF i = 1 THEN seqs[i] ELSE f[i - 1] \o seqs[i]]
    <3>7. ASSUME NEW i \in 1..m, i # 1 PROVE g[i - 1] = f[i - 1]
      <4>1. i - 1 \in 1..m /\ i - 1 \in 1..(m - 1)
        BY <3>4, <3>7
      <4>2. f[i - 1] = IF i - 1 = 1 THEN seqs[i - 1] ELSE f[i - 1 - 1] \o seqs[i - 1]
        BY <3>6, <4>1 DEF Eq
      <4>3. g[i - 1] = IF i - 1 = 1 THEN seqs[i - 1] ELSE f[i - 1 - 1] \o seqs[i - 1]
        BY <4>1
      <4>. QED
        BY <4>2, <4>3
    <3>8. Eq(g, m)
      <4>1. g = [i \in 1..m |-> IF i = 1 THEN seqs[i] ELSE g[i - 1] \o seqs[i]]
        BY <3>7
      <4>. QED
        BY <4>1 DEF Eq
    <3> HIDE DEF g
    <3>. QED
      BY <3>8
  <2>2. \E f : Eq(f, n)
    <3>1. n \in 0..n
      BY <1>1
    <3> HIDE DEF Eq
    <3>. QED
      BY <2>1, <3>1
  <2> DEFINE F == CHOOSE f : Eq(f, n)
  <2>3. Eq(F, n)
    BY <2>2
  <2>4. FlattenSeq(seqs) = F[n]
    BY <1>3 DEF FlattenSeq, n
  <2> HIDE DEF F
  <2> DEFINE Odd == {i \in 1..n : F[i] \notin Seq(S)}
  <2>5. Odd = {}
    <3> SUFFICES ASSUME Odd # {} PROVE FALSE
      OBVIOUS
    <3>1. Odd \in SUBSET Nat
      BY <1>1
    <3>2. PICK m \in Odd : \A k \in Odd : m <= k
      BY <3>1, LeastNat
    <3>3. F[m] = IF m = 1 THEN seqs[m] ELSE F[m - 1] \o seqs[m]
      BY <2>3
    <3>4. m # 1
      BY <1>1, <3>3
    <3>5. m - 1 \in 1..n /\ ~(m <= m - 1)
      BY <1>1, <3>4
    <3>6. F[m - 1] \in Seq(S)
      BY <3>2, <3>5
    <3>7. seqs[m] \in Seq(S) /\ F[m] = F[m - 1] \o seqs[m]
      BY <1>1, <3>3, <3>4
    <3>8. F[m] \in Seq(S)
      BY <3>6, <3>7, ConcatProperties
    <3>. QED
      BY <3>8
  <2>. QED
    BY <1>1, <1>3, <2>4, <2>5
<1>. QED
  BY <1>2, <1>3

\* What the documents read name for the anchor are valid URLs they list.
Listed == {u \in Valid : \E d \in Docs : Document[d] # NotAnObject /\ u \in ToSet(Document[d][Anchor])}

LEMMA KnownSeq ==
  ASSUME docUrls \in Seq(Docs), \A d \in docs : Document[d] # NotAnObject
  PROVE  Known(Anchor) \in Seq(Listed)
<1> DEFINE read == Those(docUrls, LAMBDA d : d \in docs)
           at == {i \in DOMAIN docUrls : docUrls[i] \in docs}
           parsed == [k \in DOMAIN read |-> Parsed(read[k], Anchor)]
           urls == FirstOccurrences(FlattenSeq(parsed))
<1>1. read \in Seq(Docs \cap docs)
  <2>1. read = Selected(docUrls, at) /\ at \in SUBSET (DOMAIN docUrls)
    BY DEF Those
  <2> HIDE DEF read, at
  <2>2. read \in Seq({docUrls[i] : i \in at})
    BY <2>1, SelectedSeq
  <2>3. {docUrls[i] : i \in at} \subseteq Docs \cap docs
    BY DEF at
  <2>. QED
    BY <2>2, <2>3
<1> HIDE DEF read, at
<1>2. ASSUME NEW d \in Docs \cap docs PROVE Parsed(d, Anchor) \in Seq(Listed)
  <2> DEFINE list == Document[d][Anchor]
             good == {i \in DOMAIN list : list[i] \in Valid}
  <2>1. list \in Seq(ToSet(list)) /\ ToSet(list) \cap Valid \subseteq Listed
    <3>1. d \in Docs /\ Document[d] # NotAnObject
      OBVIOUS
    <3>2. list \in Seq(ToSet(list))
      BY <3>1, HintsAssumption
    <3>. QED
      BY <3>1, <3>2 DEF Listed
  <2>2. Parsed(d, Anchor) = Selected(list, good) /\ good \in SUBSET (DOMAIN list)
    BY DEF Parsed, Those
  <2> HIDE DEF list
  <2>3. Selected(list, good) \in Seq({list[i] : i \in good})
    BY <2>1, <2>2, SelectedSeq
  <2>4. {list[i] : i \in good} \subseteq Listed
    BY <2>1 DEF ToSet
  <2> HIDE DEF good
  <2>. QED
    BY <2>2, <2>3, <2>4
<1>3. parsed \in Seq(Seq(Listed))
  <2>1. DOMAIN read = 1..Len(read) /\ Len(read) \in Nat
    BY <1>1
  <2>2. \A k \in 1..Len(read) : Parsed(read[k], Anchor) \in Seq(Listed)
    BY <1>1, <1>2, <2>1
  <2>3. parsed \in [1..Len(read) -> Seq(Listed)]
    BY <2>1, <2>2
  <2>. QED
    BY <2>1, <2>3
<1> HIDE DEF parsed
<1>4. urls \in Seq(Listed)
  BY <1>3, FlattenIsSeq, FirstOccurrencesSeq
<1>5. Known(Anchor) = SubSeq(urls, 1, Min({Len(urls), MaxUrls}))
  BY DEF Known, parsed, read
<1> HIDE DEF urls
<1>6. Min({Len(urls), MaxUrls}) \in 0..Len(urls)
  <2>1. Len(urls) \in Nat /\ MaxUrls \in Nat
    BY <1>4, HintsAssumption
  <2> DEFINE M == {Len(urls), MaxUrls}
  <2>2. \E x \in M : \A y \in M : x <= y
    BY <2>1
  <2>3. Min(M) \in M /\ \A y \in M : Min(M) <= y
    <3> HIDE DEF M
    <3>. QED
      BY <2>2 DEF Min
  <2>. QED
    BY <2>1, <2>3
<1> DEFINE m == Min({Len(urls), MaxUrls})
<1>7. m \in Int /\ \A i \in 1..m : urls[i] \in Listed
  <2>1. m \in 0..Len(urls) /\ Len(urls) \in Nat
    BY <1>4, <1>6
  <2>2. \A i \in 1..Len(urls) : urls[i] \in Listed
    BY <1>4
  <2> HIDE DEF m
  <2>. QED
    BY <2>1, <2>2
<1> HIDE DEF m
<1>8. SubSeq(urls, 1, m) \in Seq(Listed)
  BY <1>7, SubSeqProperties
<1>. QED
  BY <1>5, <1>8 DEF m

\* The anchor's locations, configured and hinted, are locations.
AnchorLocations == page.configured[Anchor] \o AsLocations(Anchor, Known(Anchor))

LEMMA AnchorLocationsSeq ==
  ASSUME page \in Pages, docUrls \in Seq(Docs), \A d \in docs : Document[d] # NotAnObject
  PROVE  AnchorLocations \in Seq(DOMAIN BesideAnchor)
<1> DEFINE urls == Known(Anchor)
           at == {i \in DOMAIN urls : Root[urls[i]] # NoRoot}
           clean == Selected(urls, at)
<1>1. urls \in Seq(Listed)
  BY KnownSeq
<1> HIDE DEF urls
<1>2. \A u \in Listed : IF Ranged THEN Root[u] \in DOMAIN BesideAnchor \cup {NoRoot} ELSE u \in DOMAIN BesideAnchor
  <2> SUFFICES ASSUME NEW u \in Listed
               PROVE  IF Ranged THEN Root[u] \in DOMAIN BesideAnchor \cup {NoRoot} ELSE u \in DOMAIN BesideAnchor
    OBVIOUS
  <2>1. PICK d \in Docs : Document[d] # NotAnObject /\ u \in ToSet(Document[d][Anchor]) /\ u \in Valid
    BY DEF Listed
  <2>. QED
    BY <2>1, HintsAssumption
<1>3. AsLocations(Anchor, urls) \in Seq(DOMAIN BesideAnchor)
  <2>1. CASE ~Ranged
    BY <1>1, <1>2, <2>1 DEF AsLocations
  <2>2. CASE Ranged
    <3>1. AsLocations(Anchor, urls) = [k \in DOMAIN clean |-> Root[clean[k]]]
      BY <2>2 DEF AsLocations, Those
    <3>2. at \in SUBSET (DOMAIN urls)
      OBVIOUS
    <3>3. \A i \in at : urls[i] \in Listed /\ Root[urls[i]] \in DOMAIN BesideAnchor
      BY <1>1, <1>2, <2>2
    <3> HIDE DEF at
    <3>4. clean \in Seq({urls[i] : i \in at})
      BY <1>1, <3>2, SelectedSeq
    <3> HIDE DEF clean
    <3>5. DOMAIN clean = 1..Len(clean) /\ Len(clean) \in Nat /\ \A k \in 1..Len(clean) : Root[clean[k]] \in DOMAIN BesideAnchor
      BY <3>3, <3>4
    <3>. QED
      BY <3>1, <3>5
  <2>. QED
    BY <2>1, <2>2
<1>4. page.configured[Anchor] \in Seq(DOMAIN BesideAnchor)
  BY HintsAssumption
<1>. QED
  BY <1>3, <1>4 DEF AnchorLocations, urls

\* The directories to probe are documents; when there are none, each directory
\* beside the anchor's locations was probed.
LEMMA NewDirsSeq ==
  ASSUME page \in Pages, docUrls \in Seq(Docs), \A d \in docs : Document[d] # NotAnObject, NEW s
  PROVE  /\ NewDirs(s) \in Seq(Docs)
         /\ NewDirs(s) = <<>> => \A l \in ToSet(AnchorLocations) : BesideAnchor[l] \in probed[s]
<1> DEFINE known == FirstOccurrences(AnchorLocations)
           beside == [k \in DOMAIN known |-> BesideAnchor[known[k]]]
           at == {i \in DOMAIN beside : beside[i] \notin probed[s]}
<1>1. AnchorLocations \in Seq(DOMAIN BesideAnchor)
  BY AnchorLocationsSeq
<1>2. known \in Seq(DOMAIN BesideAnchor) /\ ToSet(known) = ToSet(AnchorLocations)
  BY <1>1, FirstOccurrencesSeq
<1>3. NewDirs(s) = Selected(beside, at)
  BY DEF NewDirs, AnchorLocations, Those
<1> HIDE DEF known
<1>4. beside \in Seq(Docs)
  <2>1. DOMAIN known = 1..Len(known) /\ Len(known) \in Nat /\ \A k \in 1..Len(known) : BesideAnchor[known[k]] \in Docs
    BY <1>2, HintsAssumption
  <2>. QED
    BY <2>1
<1>5. DOMAIN beside = DOMAIN known /\ \A k \in DOMAIN known : beside[k] = BesideAnchor[known[k]]
  OBVIOUS
<1> HIDE DEF beside
<1>6. at \in SUBSET (DOMAIN beside) /\ {beside[i] : i \in at} \subseteq Docs
  BY <1>4
<1>7. Selected(beside, at) \in Seq({beside[i] : i \in at}) /\ (Selected(beside, at) = <<>> => at = {})
  <2> HIDE DEF at
  <2>. QED
    BY <1>4, <1>6, SelectedSeq
<1>8. ASSUME at = {}, NEW l \in ToSet(AnchorLocations) PROVE BesideAnchor[l] \in probed[s]
  <2>1. PICK k \in DOMAIN known : l = known[k]
    BY <1>2 DEF ToSet
  <2>. QED
    BY <1>5, <1>8, <2>1
<1> HIDE DEF at
<1>. QED
  BY <1>3, <1>6, <1>7, <1>8

(***************************************************************************)
(* The resolver and the streams.                                           *)
(***************************************************************************)
\* What is registered, read and asked for.
ResolverInv ==
  /\ page \in Pages
  /\ docUrls \in Seq(Docs) /\ Len(docUrls) <= MaxDocs
  /\ docs \subseteq attempted /\ attempted \subseteq Docs /\ \A d \in docs : Document[d] # NotAnObject
  /\ inflight \in [Docs -> 0..1] /\ \A d \in Docs : inflight[d] > 0 => d \in attempted
  /\ wait \in [Processes -> Docs \cup {None}]
  /\ loads \in [Streams -> 0..(MaxDocs + 1)]

StreamShape ==
  /\ stage \in [Streams -> {"unopened", "configured", "loading", "probing", "locating", "done"}]
  /\ DOMAIN left = Streams /\ DOMAIN todo = Streams /\ DOMAIN probed = Streams

\* What s probed was asked for, unless the cap is reached, and of the documents
\* beside the anchor's sources none is forgotten.
ProbeInv(s) ==
  /\ stage[s] = "loading" => todo[s] # <<>> /\ todo[s] = <<todo[s][1]>> /\ todo[s][1] \in Nat \ {0}
  /\ stage[s] = "probing" => todo[s] \in Seq(Docs)
  /\ \A d \in probed[s] : d \in attempted \/ Len(docUrls) = MaxDocs
  /\ stage[s] = "probing" /\ Cid(s) = Anchor => ToSet(page.sourceDocs) \subseteq probed[s] \cup ToSet(todo[s])

\* A stream that has yielded nothing still has something to yield, or goes on to
\* the probes, or is there.
EmptyInv(s) ==
  yielded[s] = <<>> =>
     /\ stage[s] = "configured" /\ IsConfigured(s) => left[s] # <<>>
     /\ stage[s] = "loading" => ~IsConfigured(s)
     /\ stage[s] = "locating" => left[s] # <<>>

HInv == ResolverInv /\ StreamShape /\ \A s \in Streams : ProbeInv(s) /\ EmptyInv(s)

LEMMA HintsInitInv == Init => HInv
<1> SUFFICES ASSUME Init PROVE HInv
  OBVIOUS
<1>1. ResolverInv
  BY HintsAssumption DEF Init, HintsInit, ResolverInv
<1>2. StreamShape /\ \A s \in Streams : ProbeInv(s) /\ EmptyInv(s)
  BY DEF Init, HintsInit, StreamShape, ProbeInv, EmptyInv
<1>. QED
  BY <1>1, <1>2 DEF HInv

\* A document asked for stays so, and the registered ones are never fewer.
LEMMA FetchDocInv ==
  ASSUME ResolverInv, NEW p \in Processes, NEW d \in Docs, FetchDoc(p, d)
  PROVE  /\ inflight' \in [Docs -> 0..1] /\ \A e \in Docs : inflight'[e] > 0 => e \in attempted'
         /\ attempted \subseteq attempted' /\ attempted' \subseteq Docs /\ d \in attempted'
         /\ wait' \in [Processes -> Docs \cup {None}]
<1>1. attempted' = attempted \cup {d}
  BY DEF FetchDoc, ResolverInv
<1>2. wait' \in [Processes -> Docs \cup {None}]
  <2>1. wait' = [wait EXCEPT ![p] = d] \/ wait' = [wait EXCEPT ![p] = None]
    BY DEF FetchDoc
  <2>. QED
    BY <2>1 DEF ResolverInv
<1>3. inflight' \in [Docs -> 0..1] /\ \A e \in Docs : e # d => inflight'[e] = inflight[e]
  <2>1. inflight' = [inflight EXCEPT ![d] = IF Sends(d) THEN inflight[d] + 1 ELSE inflight[d]]
    BY DEF FetchDoc
  <2>2. inflight[d] \in 0..1 /\ (Sends(d) => inflight[d] = 0)
    BY DEF ResolverInv, Sends
  <2>3. (IF Sends(d) THEN inflight[d] + 1 ELSE inflight[d]) \in 0..1
    BY <2>2
  <2>. QED
    BY <2>1, <2>3 DEF ResolverInv
<1>. QED
  BY <1>1, <1>2, <1>3 DEF ResolverInv

\* What a stream's invariant is about, and what it may lose nothing of.
StreamParts(t) == <<stage[t], left[t], todo[t], probed[t], yielded[t]>>
Grows ==
  /\ page' = page /\ attempted \subseteq attempted'
  /\ Len(docUrls) = MaxDocs => Len(docUrls)' = MaxDocs

LEMMA ElsewhereH ==
  ASSUME NEW t \in Streams, ProbeInv(t), EmptyInv(t), Grows, StreamParts(t)' = StreamParts(t)
  PROVE  ProbeInv(t)' /\ EmptyInv(t)'
BY DEF ProbeInv, EmptyInv, Grows, StreamParts, Cid, IsConfigured

\* What a step of stream s has to show.
LEMMA OneStreamH ==
  ASSUME HInv, ResolverInv', StreamShape', Grows, NEW s \in Streams, ProbeInv(s)', EmptyInv(s)',
         \A t \in Streams : t # s => StreamParts(t)' = StreamParts(t)
  PROVE  HInv'
BY ElsewhereH DEF HInv

LEMMA SameStreams ==
  ASSUME HInv, ResolverInv', Grows, UNCHANGED <<stage, left, todo, probed, yielded>>
  PROVE  HInv'
<1>1. \A t \in Streams : StreamParts(t)' = StreamParts(t)
  BY DEF StreamParts
<1>2. StreamShape'
  BY DEF HInv, StreamShape
<1>. QED
  BY <1>1, <1>2, ElsewhereH DEF HInv

LEMMA HintsUnchanged ==
  ASSUME HInv, UNCHANGED <<page, resolverVars, wait, loads, stage, left, todo, probed, yielded>>
  PROVE  HInv'
<1>1. ResolverInv' /\ Grows
  BY DEF HInv, ResolverInv, Grows, resolverVars
<1>. QED
  BY <1>1, SameStreams

LEMMA ReadDocInv ==
  ASSUME HInv, NEW d \in Docs, ReadDoc(d)
  PROVE  HInv'
<1>1. /\ inflight[d] > 0 /\ inflight' = [inflight EXCEPT ![d] = inflight[d] - 1]
      /\ docs' = docs \/ (docs' = docs \cup {d} /\ Document[d] # NotAnObject)
      /\ wait' = [p \in Processes |-> IF wait[p] = d THEN None ELSE wait[p]]
      /\ UNCHANGED <<page, docUrls, attempted, loads>>
  BY DEF ReadDoc
<1>2. d \in attempted /\ inflight[d] \in 0..1
  BY <1>1 DEF HInv, ResolverInv
<1>3. inflight' \in [Docs -> 0..1] /\ \A e \in Docs : inflight'[e] > 0 => e \in attempted'
  BY <1>1, <1>2 DEF HInv, ResolverInv
<1>4. wait' \in [Processes -> Docs \cup {None}]
  BY <1>1 DEF HInv, ResolverInv
<1>5. docs' \subseteq attempted' /\ \A e \in docs' : Document[e] # NotAnObject
  BY <1>1, <1>2 DEF HInv, ResolverInv
<1>6. ResolverInv'
  BY <1>1, <1>3, <1>4, <1>5 DEF HInv, ResolverInv
<1>7. Grows
  BY <1>1 DEF Grows
<1>. QED
  BY <1>6, <1>7, SameStreams DEF ReadDoc

LEMMA LoadNextInv ==
  ASSUME HInv, NEW s \in Streams, LoadNext(s)
  PROVE  HInv'
<1>1. UNCHANGED <<page, docUrls, docs>> /\ Load(s) \in Processes
  BY DEF LoadNext, Processes
<1>2. /\ loads[s] \in 1..(MaxDocs + 1) /\ MaxDocs \in Nat /\ Len(docUrls) \in Nat /\ Len(docUrls) <= MaxDocs
      /\ loads \in [Streams -> 0..(MaxDocs + 1)]
  BY HintsAssumption DEF LoadNext, HInv, ResolverInv
<1>3. CASE loads[s] <= Len(docUrls)
  <2>1. loads' = [loads EXCEPT ![s] = loads[s] + 1] /\ FetchDoc(Load(s), docUrls[loads[s]])
    BY <1>3 DEF LoadNext
  <2>2. docUrls[loads[s]] \in Docs
    BY <1>2, <1>3 DEF HInv, ResolverInv
  <2>3. /\ inflight' \in [Docs -> 0..1] /\ \A e \in Docs : inflight'[e] > 0 => e \in attempted'
        /\ attempted \subseteq attempted' /\ attempted' \subseteq Docs
        /\ wait' \in [Processes -> Docs \cup {None}]
    BY <1>1, <2>1, <2>2, FetchDocInv DEF HInv
  <2>4. loads' \in [Streams -> 0..(MaxDocs + 1)]
    BY <1>2, <1>3, <2>1
  <2>5. ResolverInv' /\ Grows
    BY <1>1, <2>3, <2>4 DEF HInv, ResolverInv, Grows
  <2>. QED
    BY <2>5, SameStreams DEF LoadNext
<1>4. CASE ~(loads[s] <= Len(docUrls))
  <2>1. loads' = [loads EXCEPT ![s] = 0] /\ UNCHANGED <<inflight, attempted, wait>>
    BY <1>4 DEF LoadNext
  <2>2. loads' \in [Streams -> 0..(MaxDocs + 1)]
    BY <1>2, <2>1
  <2>3. ResolverInv' /\ Grows
    BY <1>1, <2>1, <2>2 DEF HInv, ResolverInv, Grows
  <2>. QED
    BY <2>3, SameStreams DEF LoadNext
<1>. QED
  BY <1>3, <1>4

\* A step that leaves the resolver alone.
LEMMA SameResolver ==
  ASSUME HInv, UNCHANGED <<page, resolverVars, wait>>, loads' \in [Streams -> 0..(MaxDocs + 1)]
  PROVE  ResolverInv' /\ Grows
BY DEF HInv, ResolverInv, Grows, resolverVars

LEMMA OpenInv ==
  ASSUME HInv, NEW s \in Streams, Open(s)
  PROVE  HInv'
<1>1. /\ stage' = [stage EXCEPT ![s] = "configured"] /\ left' = [left EXCEPT ![s] = page.configured[Cid(s)]]
      /\ loads' = [loads EXCEPT ![s] = IF page.explicit THEN 1 ELSE 0]
      /\ UNCHANGED <<page, resolverVars, wait, todo, probed, yielded>>
  BY DEF Open
<1>2. loads' \in [Streams -> 0..(MaxDocs + 1)]
  <2>1. MaxDocs \in Nat /\ loads \in [Streams -> 0..(MaxDocs + 1)]
    BY HintsAssumption DEF HInv, ResolverInv
  <2>2. loads' = [loads EXCEPT ![s] = 1] \/ loads' = [loads EXCEPT ![s] = 0]
    BY <1>1
  <2>. QED
    BY <2>1, <2>2
<1>3. ResolverInv' /\ Grows
  BY <1>1, <1>2, SameResolver
<1>4. StreamShape' /\ \A t \in Streams : t # s => StreamParts(t)' = StreamParts(t)
  BY <1>1 DEF HInv, StreamShape, StreamParts
<1>5. stage'[s] = "configured" /\ left'[s] = page.configured[Cid(s)] /\ page' = page /\ UNCHANGED <<probed[s], attempted, docUrls>>
  BY <1>1 DEF HInv, StreamShape, resolverVars
<1>6. ProbeInv(s)' /\ EmptyInv(s)'
  BY <1>5 DEF HInv, ProbeInv, EmptyInv, IsConfigured, Cid
<1>. QED
  BY <1>3, <1>4, <1>6, OneStreamH

LEMMA YieldHInv ==
  ASSUME IInv, HInv, NEW s \in Streams, Yield(s)
  PROVE  HInv'
<1>1. /\ yielded' = [yielded EXCEPT ![s] = Append(yielded[s], Head(left[s]))]
      /\ left' = [left EXCEPT ![s] = Tail(left[s])]
      /\ UNCHANGED <<page, resolverVars, wait, loads, stage, todo, probed>>
  BY DEF Yield
<1>2. ResolverInv' /\ Grows
  BY <1>1, SameResolver DEF HInv, ResolverInv
<1>3. StreamShape' /\ \A t \in Streams : t # s => StreamParts(t)' = StreamParts(t)
  BY <1>1 DEF HInv, StreamShape, StreamParts
<1>4. yielded'[s] = Append(yielded[s], Head(left[s])) /\ IsSeq(yielded[s])
  BY <1>1 DEF IInv, Shape, StreamInv, HandedInv, Given, Raced
<1>5. yielded'[s] # <<>>
  <2>1. DOMAIN Append(yielded[s], Head(left[s])) = 1..(Len(yielded[s]) + 1) /\ Len(yielded[s]) \in Nat
    BY <1>4 DEF IsSeq
  <2>2. 1 \in DOMAIN yielded'[s]
    BY <1>4, <2>1
  <2>. QED
    BY <2>2
<1>6. ProbeInv(s)' /\ EmptyInv(s)'
  BY <1>1, <1>5 DEF HInv, ProbeInv, EmptyInv, Cid, resolverVars
<1>. QED
  BY <1>2, <1>3, <1>6, OneStreamH

LEMMA BeginRestInv ==
  ASSUME HInv, NEW s \in Streams, BeginRest(s)
  PROVE  HInv'
<1>1. /\ stage' = [stage EXCEPT ![s] = IF page.explicit \/ ~IsConfigured(s) THEN "loading" ELSE "locating"]
      /\ todo' = [todo EXCEPT ![s] = <<1>>] /\ stage[s] = "configured" /\ left[s] = <<>>
      /\ UNCHANGED <<page, resolverVars, wait, loads, left, probed, yielded>>
  BY DEF BeginRest, Through
<1>2. ResolverInv' /\ Grows
  BY <1>1, SameResolver DEF HInv, ResolverInv
<1>3. StreamShape' /\ \A t \in Streams : t # s => StreamParts(t)' = StreamParts(t)
  BY <1>1 DEF HInv, StreamShape, StreamParts
<1>4. /\ stage'[s] = IF page.explicit \/ ~IsConfigured(s) THEN "loading" ELSE "locating"
      /\ todo'[s] = <<1>> /\ UNCHANGED <<page, probed[s], yielded[s], attempted, docUrls>>
  BY <1>1 DEF HInv, StreamShape, resolverVars
<1>5. yielded[s] = <<>> => ~IsConfigured(s)
  BY <1>1 DEF HInv, EmptyInv
<1>6. IsConfigured(s)' = IsConfigured(s)
  BY <1>4 DEF IsConfigured, Cid
<1>7. ProbeInv(s)'
  BY <1>4 DEF HInv, ProbeInv
<1>8. EmptyInv(s)'
  BY <1>4, <1>5, <1>6 DEF EmptyInv
<1>. QED
  BY <1>2, <1>3, <1>7, <1>8, OneStreamH

LEMMA LoadStepInv ==
  ASSUME HInv, NEW s \in Streams, LoadStep(s)
  PROVE  HInv'
<1> DEFINE n == todo[s][1]
<1>1. /\ stage[s] = "loading" /\ n <= Len(docUrls) /\ todo' = [todo EXCEPT ![s] = <<n + 1>>]
      /\ FetchDoc(Stream(s), docUrls[n]) /\ UNCHANGED <<page, docUrls, docs, loads, stage, left, probed, yielded>>
  BY DEF LoadStep
<1>2. n \in Nat \ {0}
  BY <1>1 DEF HInv, ProbeInv
<1>3. docUrls[n] \in Docs /\ Stream(s) \in Processes
  BY <1>1, <1>2 DEF HInv, ResolverInv, Processes
<1> HIDE DEF n
<1>4. /\ inflight' \in [Docs -> 0..1] /\ \A e \in Docs : inflight'[e] > 0 => e \in attempted'
      /\ attempted \subseteq attempted' /\ attempted' \subseteq Docs
      /\ wait' \in [Processes -> Docs \cup {None}]
  BY <1>1, <1>3, FetchDocInv DEF HInv
<1>5. ResolverInv' /\ Grows
  BY <1>1, <1>4 DEF HInv, ResolverInv, Grows
<1>6. StreamShape' /\ \A t \in Streams : t # s => StreamParts(t)' = StreamParts(t)
  BY <1>1 DEF HInv, StreamShape, StreamParts
<1>7. todo'[s] = <<n + 1>> /\ n + 1 \in Nat \ {0}
  BY <1>1, <1>2 DEF HInv, StreamShape
<1>8. ProbeInv(s)'
  BY <1>1, <1>4, <1>7 DEF HInv, ProbeInv
<1>9. EmptyInv(s)'
  BY <1>1 DEF HInv, EmptyInv, IsConfigured, Cid
<1>. QED
  BY <1>5, <1>6, <1>8, <1>9, OneStreamH

\* A stream that goes on to yield what it has, if it may have yielded nothing.
LEMMA GoOnLocating ==
  ASSUME HInv, NEW s \in Streams, NEW urls, GoOn(s, "locating", urls, <<>>),
         urls = <<>> => yielded[s] # <<>>
  PROVE  HInv'
<1>1. /\ stage' = [stage EXCEPT ![s] = "locating"] /\ left' = [left EXCEPT ![s] = urls]
      /\ todo' = [todo EXCEPT ![s] = <<>>]
      /\ UNCHANGED <<page, resolverVars, wait, loads, probed, yielded>>
  BY DEF GoOn
<1>2. ResolverInv' /\ Grows
  BY <1>1, SameResolver DEF HInv, ResolverInv
<1>3. StreamShape' /\ \A t \in Streams : t # s => StreamParts(t)' = StreamParts(t)
  BY <1>1 DEF HInv, StreamShape, StreamParts
<1>4. stage'[s] = "locating" /\ left'[s] = urls /\ UNCHANGED <<probed[s], yielded[s], attempted, docUrls>>
  BY <1>1 DEF HInv, StreamShape, resolverVars
<1>5. ProbeInv(s)' /\ EmptyInv(s)'
  BY <1>4 DEF HInv, ProbeInv, EmptyInv
<1>. QED
  BY <1>2, <1>3, <1>5, OneStreamH

LEMMA GoOnProbing ==
  ASSUME HInv, NEW s \in Streams, NEW these \in Seq(Docs), GoOn(s, "probing", <<>>, these),
         Cid(s) = Anchor => these = page.sourceDocs
  PROVE  HInv'
<1>1. /\ stage' = [stage EXCEPT ![s] = "probing"] /\ left' = [left EXCEPT ![s] = <<>>]
      /\ todo' = [todo EXCEPT ![s] = these]
      /\ UNCHANGED <<page, resolverVars, wait, loads, probed, yielded>>
  BY DEF GoOn
<1>2. ResolverInv' /\ Grows
  BY <1>1, SameResolver DEF HInv, ResolverInv
<1>3. StreamShape' /\ \A t \in Streams : t # s => StreamParts(t)' = StreamParts(t)
  BY <1>1 DEF HInv, StreamShape, StreamParts
<1>4. stage'[s] = "probing" /\ todo'[s] = these /\ UNCHANGED <<page, probed[s], yielded[s], attempted, docUrls>>
  BY <1>1 DEF HInv, StreamShape, resolverVars
<1>5. ProbeInv(s)'
  BY <1>4 DEF HInv, ProbeInv, Cid
<1>6. EmptyInv(s)'
  BY <1>4 DEF EmptyInv
<1>. QED
  BY <1>2, <1>3, <1>5, <1>6, OneStreamH

LEMMA EndStreamHInv ==
  ASSUME HInv, NEW s \in Streams, EndStream(s)
  PROVE  HInv'
<1>1. stage' = [stage EXCEPT ![s] = "done"] /\ UNCHANGED <<page, resolverVars, wait, loads, left, todo, probed, yielded>>
  BY DEF EndStream
<1>2. ResolverInv' /\ Grows
  BY <1>1, SameResolver DEF HInv, ResolverInv
<1>3. StreamShape' /\ \A t \in Streams : t # s => StreamParts(t)' = StreamParts(t)
  BY <1>1 DEF HInv, StreamShape, StreamParts
<1>4. stage'[s] = "done" /\ UNCHANGED <<probed[s], attempted, docUrls>>
  BY <1>1 DEF HInv, StreamShape, resolverVars
<1>5. ProbeInv(s)' /\ EmptyInv(s)'
  BY <1>4 DEF HInv, ProbeInv, EmptyInv
<1>. QED
  BY <1>2, <1>3, <1>5, OneStreamH

LEMMA HintedInv ==
  ASSUME HInv, NEW s \in Streams, Hinted(s)
  PROVE  HInv'
<1> DEFINE urls == AsLocations(Cid(s), Known(Cid(s)))
<1>1. CASE (IsConfigured(s) \/ urls # <<>>) /\ GoOn(s, "locating", urls, <<>>)
  <2>1. urls = <<>> => yielded[s] # <<>>
    BY <1>1 DEF Hinted, HInv, EmptyInv
  <2> HIDE DEF urls
  <2>. QED
    BY <1>1, <2>1, GoOnLocating
<1>2. CASE EndStream(s)
  BY <1>2, EndStreamHInv
<1>3. CASE GoOn(s, "probing", <<>>, ToProbe(s))
  <2>1. ToProbe(s) \in Seq(Docs)
    <3>1. page \in Pages /\ page.sourceDocs \in Seq(Docs)
      BY HintsAssumption DEF HInv, ResolverInv
    <3>2. NewDirs(s) \in Seq(Docs)
      BY NewDirsSeq DEF HInv, ResolverInv
    <3>. QED
      BY <3>1, <3>2 DEF ToProbe
  <2>2. Cid(s) = Anchor => ToProbe(s) = page.sourceDocs
    BY DEF ToProbe
  <2>. QED
    BY <1>3, <2>1, <2>2, GoOnProbing
<1>. QED
  BY <1>1, <1>2, <1>3 DEF Hinted

LEMMA ProbeStepInv ==
  ASSUME HInv, NEW s \in Streams, Probe(s)
  PROVE  HInv'
<1> DEFINE d == Head(todo[s])
<1>1. /\ stage[s] = "probing" /\ todo[s] # <<>>
      /\ docUrls' = IF Adds(d) THEN Append(docUrls, d) ELSE docUrls
      /\ IF Adds(d) \/ d \in ToSet(docUrls) THEN FetchDoc(Stream(s), d) ELSE UNCHANGED <<inflight, attempted, wait>>
      /\ probed' = [probed EXCEPT ![s] = probed[s] \cup {d}] /\ todo' = [todo EXCEPT ![s] = Tail(todo[s])]
      /\ UNCHANGED <<page, docs, loads, stage, left, yielded>>
  BY DEF Probe
<1>2. todo[s] \in Seq(Docs)
  BY <1>1 DEF HInv, ProbeInv
<1>3. d \in Docs /\ Tail(todo[s]) \in Seq(Docs) /\ ToSet(todo[s]) \subseteq {d} \cup ToSet(Tail(todo[s]))
  <2>1. /\ d \in Docs /\ Tail(todo[s]) \in Seq(Docs) /\ Len(todo[s]) \in Nat
        /\ DOMAIN Tail(todo[s]) = 1..(Len(todo[s]) - 1) /\ d = todo[s][1]
        /\ \A i \in 1..(Len(todo[s]) - 1) : Tail(todo[s])[i] = todo[s][i + 1]
    BY <1>1, <1>2
  <2>2. ASSUME NEW i \in 1..Len(todo[s]), i # 1
        PROVE  todo[s][i] \in ToSet(Tail(todo[s]))
    <3>1. i - 1 \in 1..(Len(todo[s]) - 1) /\ (i - 1) + 1 = i
      BY <2>1, <2>2
    <3>. QED
      BY <2>1, <3>1 DEF ToSet
  <2>3. DOMAIN todo[s] = 1..Len(todo[s])
    BY <1>2
  <2>. QED
    BY <2>1, <2>2, <2>3 DEF ToSet
<1>4. Stream(s) \in Processes
  BY DEF Processes
<1> HIDE DEF d
<1>5. docUrls' \in Seq(Docs) /\ Len(docUrls') <= MaxDocs /\ (Len(docUrls) = MaxDocs => Len(docUrls') = MaxDocs)
  <2>1. docUrls \in Seq(Docs) /\ Len(docUrls) <= MaxDocs /\ Len(docUrls) \in Nat /\ MaxDocs \in Nat
    BY HintsAssumption DEF HInv, ResolverInv
  <2>2. Append(docUrls, d) \in Seq(Docs) /\ Len(Append(docUrls, d)) = Len(docUrls) + 1
    BY <1>3, <2>1
  <2>3. Adds(d) => Len(docUrls) < MaxDocs
    BY DEF Adds
  <2>. QED
    BY <1>1, <2>1, <2>2, <2>3
<1>6. /\ inflight' \in [Docs -> 0..1] /\ \A e \in Docs : inflight'[e] > 0 => e \in attempted'
      /\ attempted \subseteq attempted' /\ attempted' \subseteq Docs
      /\ wait' \in [Processes -> Docs \cup {None}]
      /\ d \in attempted' \/ Len(docUrls') = MaxDocs
  <2>1. CASE Adds(d) \/ d \in ToSet(docUrls)
    <3>1. FetchDoc(Stream(s), d)
      BY <1>1, <2>1
    <3>. QED
      BY <1>3, <1>4, <3>1, FetchDocInv DEF HInv
  <2>2. CASE ~(Adds(d) \/ d \in ToSet(docUrls))
    <3>1. ~(Len(docUrls) < MaxDocs) /\ Len(docUrls) <= MaxDocs /\ Len(docUrls) \in Nat /\ MaxDocs \in Nat
      BY <2>2, HintsAssumption DEF Adds, HInv, ResolverInv
    <3>2. Len(docUrls) = MaxDocs
      BY <3>1
    <3>3. UNCHANGED <<inflight, attempted, wait>>
      BY <1>1, <2>2
    <3>. QED
      BY <1>5, <3>2, <3>3 DEF HInv, ResolverInv
  <2>. QED
    BY <2>1, <2>2
<1>7. ResolverInv' /\ Grows
  BY <1>1, <1>5, <1>6 DEF HInv, ResolverInv, Grows
<1>8. StreamShape' /\ \A t \in Streams : t # s => StreamParts(t)' = StreamParts(t)
  BY <1>1 DEF HInv, StreamShape, StreamParts
<1>9. probed'[s] = probed[s] \cup {d} /\ todo'[s] = Tail(todo[s]) /\ stage'[s] = "probing" /\ Cid(s)' = Cid(s)
  BY <1>1 DEF HInv, StreamShape, Cid
<1>10. ProbeInv(s)'
  <2>1. \A e \in probed[s] : e \in attempted' \/ Len(docUrls') = MaxDocs
    BY <1>5, <1>6 DEF HInv, ProbeInv
  <2>2. Cid(s) = Anchor => ToSet(page.sourceDocs) \subseteq probed'[s] \cup ToSet(todo'[s])
    BY <1>1, <1>3, <1>9 DEF HInv, ProbeInv
  <2>. QED
    BY <1>1, <1>3, <1>6, <1>9, <2>1, <2>2 DEF ProbeInv
<1>11. EmptyInv(s)'
  BY <1>9 DEF EmptyInv
<1>. QED
  BY <1>7, <1>8, <1>10, <1>11, OneStreamH

LEMMA EndRoundInv ==
  ASSUME HInv, NEW s \in Streams, EndRound(s)
  PROVE  HInv'
<1> DEFINE urls == AsLocations(Cid(s), Known(Cid(s)))
           more == IF Cid(s) = Anchor THEN <<>> ELSE NewDirs(s)
<1>1. CASE urls # <<>> /\ GoOn(s, "locating", urls, <<>>)
  <2> HIDE DEF urls
  <2>. QED
    BY <1>1, GoOnLocating
<1>2. CASE more # <<>> /\ GoOn(s, "probing", <<>>, more)
  <2>1. Cid(s) # Anchor /\ more = NewDirs(s)
    BY <1>2
  <2>2. more \in Seq(Docs)
    BY <2>1, NewDirsSeq DEF HInv, ResolverInv
  <2> HIDE DEF more
  <2>. QED
    BY <1>2, <2>1, <2>2, GoOnProbing
<1>3. CASE EndStream(s)
  BY <1>3, EndStreamHInv
<1>. QED
  BY <1>1, <1>2, <1>3 DEF EndRound

LEMMA HNext ==
  ASSUME IInv, HInv, [Next]_vars
  PROVE  HInv'
<1>1. ASSUME NEW s \in Streams, DefaultsStep(s)
      PROVE  HInv'
  BY <1>1, OpenInv, YieldHInv, BeginRestInv, LoadStepInv, HintedInv, ProbeStepInv, EndRoundInv, EndStreamHInv
     DEF DefaultsStep, StreamStep, Located
<1>2. ASSUME NEW s \in Streams,
             \/ Begin(s) \/ Pull(s) \/ Close(s) \/ RaceStep(s)
             \/ Answer(s) \/ Refuse(s) \/ Deadline(s) \/ Abort(s) \/ Name(s)
      PROVE  HInv'
  BY <1>2, HintsUnchanged
     DEF Begin, Pull, Close, RaceStep, Finish, Hand, Answer, Refuse, Deadline, Abort, EndLookup, Name, hintVars
<1>3. CASE UNCHANGED vars
  BY <1>3, HintsUnchanged DEF vars, hintVars
<1>. QED
  BY <1>1, <1>2, <1>3, ReadDocInv, LoadNextInv DEF Next, ReadStep, LoadStepOf

LEMMA HintsInvariance == Spec => [](IInv /\ HInv)
<1>1. IInv /\ HInv /\ [Next]_vars => (IInv /\ HInv)'
  BY NextInv, HNext
<1>. QED
  BY InitInv, HintsInitInv, <1>1, PTL DEF Spec

\* TypeOK, for every page, index and number of asks: a document is fetched once
\* however many wait for it, and the documents registered stay under the cap.
THEOREM TypeCorrect == Spec => []TypeOK
<1>1. IInv /\ HInv => TypeOK
  <2> SUFFICES ASSUME IInv, HInv PROVE TypeOK
    OBVIOUS
  <2>1. ToSet(docUrls) \subseteq Docs
    BY DEF HInv, ResolverInv, ToSet
  <2>. QED
    BY <2>1 DEF IInv, Shape, HInv, ResolverInv, StreamShape, TypeOK
<1>. QED
  BY <1>1, HintsInvariance, PTL

\* The steps that end a stream, and what each had to find out first.
LEMMA EndsFruitless ==
  ASSUME IInv, HInv, [Next]_vars, NEW s \in Streams,
         stage[s] # "done", stage'[s] = "done", yielded[s] = <<>>
  PROVE  /\ AsLocations(Cid(s), Known(Cid(s))) = <<>>
         /\ Beside(Cid(s)) \subseteq attempted \/ Len(docUrls) = MaxDocs
<1> DEFINE urls == AsLocations(Cid(s), Known(Cid(s)))
<1>1. \A d \in probed[s] : d \in attempted \/ Len(docUrls) = MaxDocs
  BY DEF HInv, ProbeInv
<1>2. NewDirs(s) = <<>> /\ Cid(s) # Anchor => Beside(Cid(s)) \subseteq probed[s]
  <2>1. NewDirs(s) = <<>> => \A l \in ToSet(AnchorLocations) : BesideAnchor[l] \in probed[s]
    BY NewDirsSeq DEF HInv, ResolverInv
  <2>. QED
    BY <2>1 DEF Beside, AnchorLocations
<1>3. Hinted(s) \/ EndRound(s) \/ Located(s)
  <2>1. \A t \in Streams : (DefaultsStep(t) /\ t # s) => stage'[s] = stage[s]
    BY DEF HInv, StreamShape, DefaultsStep, StreamStep, Open, Yield, BeginRest, LoadStep, Hinted, Probe, EndRound, Located, EndStream, GoOn
  <2>2. ~(Open(s) \/ Yield(s) \/ BeginRest(s) \/ LoadStep(s) \/ Probe(s))
    BY DEF Open, Yield, BeginRest, LoadStep, Probe, HInv, StreamShape
  <2>3. ~UNCHANGED stage
    OBVIOUS
  <2>4. ASSUME NEW t \in Streams,
           \/ Begin(t) \/ Pull(t) \/ Close(t) \/ RaceStep(t)
           \/ Answer(t) \/ Refuse(t) \/ Deadline(t) \/ Abort(t) \/ Name(t) \/ LoadStepOf(t)
        PROVE UNCHANGED stage
    BY <2>4 DEF Begin, Pull, Close, RaceStep, Finish, Hand, Answer, Refuse, Deadline, Abort, EndLookup, Name, LoadStepOf, LoadNext, hintVars
  <2>5. ASSUME (\E d \in Docs : ReadStep(d)) \/ UNCHANGED vars
        PROVE  UNCHANGED stage
    BY <2>5 DEF ReadStep, ReadDoc, vars, hintVars
  <2>. QED
    BY <2>1, <2>2, <2>3, <2>4, <2>5 DEF Next, DefaultsStep, StreamStep
<1>4. CASE Hinted(s)
  <2>1. urls = <<>> /\ ToProbe(s) = <<>>
    BY <1>4 DEF Hinted, GoOn, HInv, StreamShape
  <2>2. Cid(s) = Anchor => Beside(Cid(s)) = {}
    BY <2>1 DEF ToProbe, Beside, ToSet
  <2>. QED
    BY <1>1, <1>2, <2>1, <2>2 DEF ToProbe
<1>5. CASE EndRound(s)
  <2>1. urls = <<>> /\ (Cid(s) # Anchor => NewDirs(s) = <<>>) /\ stage[s] = "probing" /\ todo[s] = <<>>
    BY <1>5 DEF EndRound, GoOn, HInv, StreamShape
  <2>2. Cid(s) = Anchor => Beside(Cid(s)) \subseteq probed[s]
    BY <2>1 DEF Beside, HInv, ProbeInv, ToSet
  <2>. QED
    BY <1>1, <1>2, <2>1, <2>2
<1>6. CASE Located(s)
  BY <1>6 DEF Located, Through, HInv, EmptyInv
<1>. QED
  BY <1>3, <1>4, <1>5, <1>6

\* EmptyHandedAtTheEnd, for every page, document and number of asks: a stream that
\* ends without a location read every document it could have learnt of.
THEOREM NoneIsForgotten == Spec => EmptyHandedAtTheEnd
<1> DEFINE Fruitless ==
             \A s \in Streams :
                 stage[s] # "done" /\ stage'[s] = "done" /\ yielded[s] = <<>> =>
                     /\ AsLocations(Cid(s), Known(Cid(s))) = <<>>
                     /\ Beside(Cid(s)) \subseteq attempted \/ Len(docUrls) = MaxDocs
<1>1. IInv /\ HInv /\ [Next]_vars => Fruitless
  BY EndsFruitless
<1>2. IInv /\ HInv /\ [Next]_vars => [Fruitless]_vars
  BY <1>1
<1>. QED
  BY <1>2, HintsInvariance, PTL DEF Spec, EmptyHandedAtTheEnd

=============================================================================
