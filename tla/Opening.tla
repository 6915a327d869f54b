------------------------------- MODULE Opening -------------------------------
(***************************************************************************)
(* A VerifiedFile's reads before it is open (verified-file.ts), and the    *)
(* requests they and the open send early (early-source.ts).                *)
(*                                                                         *)
(* Reads share one open.  Behind the open's `root` its `0` leaves early,   *)
(* and a read that comes before the file is built sends its own range      *)
(* early.  Once the file is open a read asks for `0` and for its range     *)
(* like for anything else; the first to ask claims the early request.      *)
(*                                                                         *)
(* What the descent and the read loop do beyond these two fetches, and     *)
(* what a wrong body costs, is in VerifiedStore, Speculation and Failover: *)
(* here every body that comes is right, and a request may fail.            *)
(***************************************************************************)
EXTENDS Integers, FiniteSets

CONSTANTS
    Reads,
    RangeOf,     \* RangeOf[r]: what r reads; equal ranges share an early request
    Signalled,   \* the reads given an abort signal
    FirstContent,  \* #firstContent: with the built-in router, a source is configured
    MaxOpens     \* bound: opens

ASSUME OpeningAssumption ==
    /\ MaxOpens \in Nat
    /\ Signalled \subseteq Reads

None == "none"

VARIABLES
    memo,      \* #reader: the open reads join, 0 for none
    built,     \* #built
    open,      \* open[k]: how far #build came
    proof,     \* #earlyProof: the open whose early `0` the first read may drop, or 0
    read,      \* read[r]: where r is
    joined,    \* joined[r]: the open r waits for
    aborted,   \* the reads whose signal was aborted
    outcome,   \* outcome[r]
    early,     \* the EarlySource maps: the keys whose early request is unclaimed
    fetch,     \* fetch[r]: for "zero" and "range", how far r's fetch is
    request    \* request[q]: [state, dropped, settled]

vars == <<memo, built, open, proof, read, joined, aborted, outcome, early, fetch, request>>

Opens == 1..MaxOpens
Fetches == {"zero", "range"}
\* A request sent early: the `0` of an open, or the range of a read.
Zeros == {<<"zero", k>> : k \in Opens}
Ranges == {<<"range", r>> : r \in Reads}
Requests == Zeros \cup Ranges
\* A fetch that has claimed none: to be sent, sent fresh, lost, or over.
Todo == <<"todo">>
Fresh == <<"fresh">>
Lost == <<"lost">>
Done == <<"done">>
Unsent == [state |-> "unsent", dropped |-> FALSE, settled |-> 0]

TypeOK ==
    /\ memo \in 0..MaxOpens /\ proof \in 0..MaxOpens /\ built \in BOOLEAN
    /\ open \in [Opens -> {"none", "locating", "rooting", "built", "failed"}]
    /\ read \in [Reads -> {"idle", "opening", "fetching", "ended"}]
    /\ joined \in [Reads -> 0..MaxOpens]
    /\ aborted \subseteq Reads /\ early \subseteq Zeros \cup Ranges
    /\ outcome \in [Reads -> {None, "ok", "failed", "aborted"}]
    /\ fetch \in [Reads -> [Fetches -> Requests \cup {Todo, Fresh, Lost, Done}]]
    /\ request \in [Requests -> [state : {"unsent", "flying", "arrived", "failed"},
                                 dropped : BOOLEAN, settled : 0..1]]

Init ==
    /\ memo = 0 /\ built = FALSE /\ proof = 0
    /\ open = [k \in Opens |-> "none"]
    /\ read = [r \in Reads |-> "idle"] /\ joined = [r \in Reads |-> 0]
    /\ outcome = [r \in Reads |-> None]
    /\ aborted = {} /\ early = {}
    /\ fetch = [r \in Reads |-> [t \in Fetches |-> Todo]]
    /\ request = [q \in Requests |-> Unsent]

(***************************************************************************)
(* Early requests.                                                         *)
(***************************************************************************)
Sent(q) == [request[q] EXCEPT !.state = "flying"]

\* drop: cancel the request; a body that came or still comes is unused.
Dropped(q) ==
    [request[q] EXCEPT !.dropped = TRUE,
                       !.settled = IF request[q].state = "arrived" THEN @ + 1 ELSE @]

\* The unclaimed early requests with r's range: at most one.
EarlyRange(r) == {q \in early \cap Ranges : RangeOf[q[2]] = RangeOf[r]}

\* The unclaimed early request that a fetch of r would claim.
Claimable(r, t) == IF t = "zero" THEN early \cap {<<"zero", joined[r]>>} ELSE EarlyRange(r)

(***************************************************************************)
(* The open.                                                               *)
(***************************************************************************)
NextOpen == Cardinality({k \in Opens : open[k] # "none"}) + 1

\* #open: the memoized open, or a new one, whose `root` and `0` leave at once
\* when a location is held.
OpenOnce(held) ==
    IF memo # 0 THEN UNCHANGED <<memo, open, proof>>
    ELSE /\ NextOpen \in Opens
         /\ memo' = NextOpen
         /\ open' = [open EXCEPT ![NextOpen] = IF held THEN "rooting" ELSE "locating"]
         /\ proof' = IF held THEN NextOpen ELSE proof

ZerosSent(held) == IF memo = 0 /\ held THEN {<<"zero", NextOpen>>} ELSE {}

Send(qs) ==
    /\ early' = early \cup qs
    /\ request' = [q \in Requests |-> IF q \in qs THEN Sent(q) ELSE request[q]]

\* ready: an open for which no read waits.
Ready(held) ==
    /\ memo = 0
    /\ OpenOnce(held) /\ Send(ZerosSent(held))
    /\ UNCHANGED <<built, read, joined, aborted, outcome, fetch>>

\* read: the open, then #sendEarly: r's range leaves early, unless a request for
\* that range is there.
Start(r, held) ==
    LET ranges == IF ~built /\ FirstContent /\ EarlyRange(r) = {} THEN {<<"range", r>>} ELSE {}
    IN  /\ read[r] = "idle" /\ r \notin aborted
        /\ OpenOnce(held) /\ Send(ZerosSent(held) \cup ranges)
        /\ joined' = [joined EXCEPT ![r] = memo']
        /\ read' = [read EXCEPT ![r] = "opening"]
        /\ UNCHANGED <<built, aborted, outcome, fetch>>

\* A location comes: `root` goes there, and `0` right behind it.
Locate(k) ==
    /\ open[k] = "locating"
    /\ open' = [open EXCEPT ![k] = "rooting"]
    /\ proof' = k
    /\ Send({<<"zero", k>>})
    /\ UNCHANGED <<memo, built, read, joined, aborted, outcome, fetch>>

\* The descriptor verifies, its index opens, and the map has a location.
Build(k) ==
    /\ open[k] = "rooting"
    /\ open' = [open EXCEPT ![k] = "built"]
    /\ built' = TRUE
    /\ UNCHANGED <<memo, proof, read, joined, aborted, outcome, early, fetch, request>>

\* No location, no valid descriptor, or no location of the map: the open fails
\* and drops its early `0`.
FailOpen(k) ==
    /\ open[k] \in {"locating", "rooting"}
    /\ open' = [open EXCEPT ![k] = "failed"]
    /\ early' = early \ {<<"zero", k>>}
    /\ request' = IF <<"zero", k>> \in early
                  THEN [request EXCEPT ![<<"zero", k>>] = Dropped(<<"zero", k>>)] ELSE request
    /\ UNCHANGED <<memo, built, proof, read, joined, aborted, outcome, fetch>>

\* The open's own catch, which runs before any read that waits is told.
Forget ==
    /\ memo # 0 /\ open[memo] = "failed"
    /\ memo' = 0
    /\ UNCHANGED <<built, open, proof, read, joined, aborted, outcome, early, fetch, request>>

(***************************************************************************)
(* A read.                                                                 *)
(***************************************************************************)
\* Variant: a read's own early range is not released.
LeftByOpen(r, opened) == early \cap IF opened THEN {<<"zero", proof>>} ELSE {}

\* What its `finally` does: the release of r's own early range, and, past the
\* open, the drop of the early `0`.
LeftBy(r, opened) ==
    early \cap ({<<"range", r>>} \cup IF opened THEN {<<"zero", proof>>} ELSE {})

End(r, how, opened) ==
    /\ read' = [read EXCEPT ![r] = "ended"]
    /\ outcome' = [outcome EXCEPT ![r] = how]
    /\ early' = early \ LeftBy(r, opened)
    /\ request' = [q \in Requests |-> IF q \in LeftBy(r, opened) THEN Dropped(q) ELSE request[q]]
    /\ proof' = IF opened THEN 0 ELSE proof
    /\ UNCHANGED <<memo, built, open, joined, aborted, fetch>>

\* throwIfAborted; then an abort while the open goes on for the others.
LeaveBeforeOpen(r) ==
    /\ r \in aborted /\ read[r] \in {"idle", "opening"}
    /\ End(r, "aborted", FALSE)

\* Variant: a read is told before the memo is cleared.
NotifiedAtOnce(k) == open[k] = "failed"

Notified(k) == open[k] = "failed" /\ memo # k

OpenFailed(r) ==
    /\ read[r] = "opening" /\ Notified(joined[r])
    /\ End(r, "failed", FALSE)

\* Past the open; what the cache holds, or a warm index, needs no fetch.
Opened(r) ==
    /\ read[r] = "opening" /\ open[joined[r]] = "built"
    /\ read' = [read EXCEPT ![r] = "fetching"]
    /\ \E needed \in SUBSET Fetches :
          fetch' = [fetch EXCEPT ![r] = [t \in Fetches |-> IF t \in needed THEN Todo ELSE Done]]
    /\ UNCHANGED <<memo, built, open, proof, joined, aborted, outcome, early, request>>

\* Variant: a claimed request stays in the map.
StillHeld(q) == early

Claimed(q) == early \ {q}

\* fetchWhole / fetchRange: claim the early request, or send one: none is there,
\* or the read was clamped at the end of the file and asks for another range,
\* or its store has turned to another location.
Fetch(r, t) ==
    /\ read[r] = "fetching" /\ fetch[r][t] = Todo
    /\ \/ \E q \in Claimable(r, t) :
             /\ early' = Claimed(q)
             /\ fetch' = [fetch EXCEPT ![r][t] = q]
       \/ fetch' = [fetch EXCEPT ![r][t] = Fresh] /\ UNCHANGED early
    /\ UNCHANGED <<memo, built, open, proof, read, joined, aborted, outcome, request>>

Failed(r, t) == fetch[r][t] \in Requests /\ request[fetch[r][t]].state = "failed"

\* The body is the claimant's to judge: here it verifies.
Take(r, t) ==
    LET q == fetch[r][t]
    IN  /\ q \in Requests /\ request[q].state = "arrived"
        /\ request' = [request EXCEPT ![q].settled = @ + 1]
        /\ fetch' = [fetch EXCEPT ![r][t] = Done]
        /\ UNCHANGED <<memo, built, open, proof, read, joined, aborted, outcome, early>>

\* An early request that failed through no abort of its claimant is sent again.
Retry(r, t) ==
    /\ read[r] = "fetching" /\ Failed(r, t) /\ r \notin aborted
    /\ fetch' = [fetch EXCEPT ![r][t] = Fresh]
    /\ UNCHANGED <<memo, built, open, proof, read, joined, aborted, outcome, early, request>>

\* A request of the fetch's own answers, or is lost.
AnswerFresh(r, t) ==
    /\ read[r] = "fetching" /\ fetch[r][t] = Fresh
    /\ \E end \in {Done, Lost} : fetch' = [fetch EXCEPT ![r][t] = end]
    /\ UNCHANGED <<memo, built, open, proof, read, joined, aborted, outcome, early, request>>

Finish(r) ==
    /\ read[r] = "fetching"
    /\ \A t \in Fetches : fetch[r][t] = Done
    /\ End(r, "ok", TRUE)

\* Variant: an early request that fails is the fetch's answer.
AnyFailure(r, t) == Failed(r, t) \/ fetch[r][t] = Lost

FinalFailure(r, t) == (Failed(r, t) /\ r \in aborted) \/ fetch[r][t] = Lost

\* A fetch failed for good, or r's signal is aborted: r ends, whatever its other
\* fetch still waits for.
Break(r) ==
    /\ read[r] = "fetching"
    /\ r \in aborted \/ \E t \in Fetches : FinalFailure(r, t)
    /\ End(r, IF r \in aborted THEN "aborted" ELSE "failed", TRUE)

\* The signal also cancels the early range r sent, whoever has claimed it, and
\* every request r claimed or sent: each then fails, or answers all the same.
Abort(r) ==
    /\ r \in Signalled \ aborted /\ read[r] # "ended"
    /\ aborted' = aborted \cup {r}
    /\ UNCHANGED <<memo, built, open, proof, read, joined, outcome, early, fetch, request>>

(***************************************************************************)
(* The network: a request answers or fails, one that was cancelled too; a  *)
(* failure is settled by the source that sent it, and so is a body that    *)
(* comes after it was dropped.                                             *)
(***************************************************************************)
Answer(q) ==
    /\ request[q].state = "flying"
    /\ request' = [request EXCEPT ![q].state = "arrived",
                                  ![q].settled = IF request[q].dropped THEN @ + 1 ELSE @]
    /\ UNCHANGED <<memo, built, open, proof, read, joined, aborted, outcome, early, fetch>>

Lose(q) ==
    /\ request[q].state = "flying"
    /\ request' = [request EXCEPT ![q].state = "failed", ![q].settled = @ + 1]
    /\ UNCHANGED <<memo, built, open, proof, read, joined, aborted, outcome, early, fetch>>

ReadStep(r) ==
    \/ LeaveBeforeOpen(r) \/ OpenFailed(r) \/ Opened(r) \/ Finish(r) \/ Break(r)
    \/ \E t \in Fetches : Fetch(r, t) \/ Take(r, t) \/ Retry(r, t) \/ AnswerFresh(r, t)

OpenStep(k) == Locate(k) \/ Build(k) \/ FailOpen(k)

Next ==
    \/ \E r \in Reads : (\E held \in BOOLEAN : Start(r, held)) \/ Abort(r) \/ ReadStep(r)
    \/ \E held \in BOOLEAN : Ready(held)
    \/ \E k \in Opens : OpenStep(k)
    \/ Forget
    \/ \E q \in Requests : Answer(q) \/ Lose(q)

\* Every request is answered or fails in the end (the code has no timeout of its
\* own here), so every open ends, and a promise's reactions run.  Callers need
\* not read, nor abort.
Fairness ==
    /\ \A r \in Reads : WF_vars(ReadStep(r))
    /\ \A k \in Opens : WF_vars(OpenStep(k))
    /\ WF_vars(Forget)
    /\ \A q \in Requests : WF_vars(Answer(q) \/ Lose(q))

Spec == Init /\ [][Next]_vars /\ Fairness

(***************************************************************************)
(* Properties.                                                             *)
(***************************************************************************)
\* "An early request can save a round trip but never change an outcome": a
\* read fails only with its open, or because a request that left when the read
\* asked for it failed.
EarlyNeverHurts ==
    \A r \in Reads : outcome[r] = "failed" =>
        \/ open[joined[r]] = "failed"
        \/ \E t \in Fetches : fetch[r][t] = Lost

\* "A failure clears the memo so the next read retries": once any caller knows
\* that an open failed, no read joins it.
RetryIsFresh == \A r \in Reads : outcome[r] = "failed" /\ memo = joined[r] => open[memo] # "failed"

\* In the end every read that began has ended, and every request is settled:
\* claimed, released, dropped or lost, in whatever order these came.  Only an
\* early `0` that no read has passed may wait.
Settled(q) ==
    \/ request[q].state = "unsent" \/ request[q].settled = 1
    \/ q \in early \cap Zeros /\ \A r \in Reads : outcome[r] # "ok"

AllSettle == <>[](/\ \A r \in Reads : read[r] \in {"idle", "ended"}
                  /\ \A q \in Requests : Settled(q))

=============================================================================
