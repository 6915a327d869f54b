---------------------------- MODULE OpeningProofs ----------------------------
(***************************************************************************)
(* Proofs about Opening, for every set of reads, ranges and number of      *)
(* opens.                                                                  *)
(*                                                                         *)
(* That a request is settled at most once follows from who owns it: an     *)
(* unclaimed early request is its source's, a claimed one is the fetch's   *)
(* that claimed it, and one that was dropped is nobody's.  OwnedInv says   *)
(* so; SentInv, that what is sent was never sent before.                   *)
(***************************************************************************)
EXTENDS Opening, TLAPS, FiniteSetTheorems

\* A request somebody may still settle or drop.
Owned(q) ==
    /\ request[q].state # "unsent" /\ ~request[q].dropped
    /\ request[q].state = "arrived" => request[q].settled = 0

OwnedInv ==
    /\ \A q \in early : Owned(q)
    /\ \A r \in Reads, t \in Fetches : fetch[r][t] \in Requests =>
          Owned(fetch[r][t]) /\ fetch[r][t] \notin early
    /\ \A r, s \in Reads, t, u \in Fetches :
          fetch[r][t] \in Requests /\ fetch[r][t] = fetch[s][u] => r = s /\ t = u

WaitInv ==
    \A q \in Requests :
        /\ request[q].state \in {"unsent", "flying"} => request[q].settled = 0
        /\ request[q].state = "unsent" => ~request[q].dropped

SentInv ==
    /\ \A k \in Opens : open[k] \in {"none", "locating"} => request[<<"zero", k>>].state = "unsent"
    /\ \A r \in Reads : read[r] = "idle" => request[<<"range", r>>].state = "unsent"

\* Opens are numbered as they begin.
NumberInv == \E n \in 0..MaxOpens : \A k \in Opens : open[k] = "none" <=> n < k

\* Where a read is, and how its open ended.
ReadInv ==
    \A r \in Reads :
        /\ outcome[r] # None => read[r] = "ended"
        /\ read[r] \in {"opening", "fetching"} => joined[r] \in Opens
        /\ read[r] = "fetching" => open[joined[r]] = "built"
        /\ outcome[r] = "failed" =>
              /\ joined[r] \in Opens
              /\ \/ open[joined[r]] = "failed" /\ memo # joined[r]
                 \/ open[joined[r]] = "built" /\ \E t \in Fetches : fetch[r][t] = Lost

IInv == TypeOK /\ OwnedInv /\ WaitInv /\ SentInv /\ NumberInv /\ ReadInv

RequestType == [state : {"unsent", "flying", "arrived", "failed"}, dropped : BOOLEAN, settled : 0..1]

\* What is no request.
LEMMA Kinds ==
    /\ Todo \notin Requests /\ Fresh \notin Requests /\ Lost \notin Requests /\ Done \notin Requests
    /\ Lost # Todo /\ Lost # Fresh /\ Lost # Done
    /\ \A k \in Opens : <<"zero", k>> \in Zeros /\ <<"zero", k>> \in Requests
    /\ \A r \in Reads : <<"range", r>> \in Ranges /\ <<"range", r>> \in Requests
    /\ \A k, r : <<"zero", k>> # <<"range", r>>
<1>1. Todo \notin Requests /\ Fresh \notin Requests /\ Lost \notin Requests /\ Done \notin Requests
  BY DEF Todo, Fresh, Lost, Done, Requests, Zeros, Ranges
<1>2. Lost # Todo /\ Lost # Fresh /\ Lost # Done
  BY DEF Todo, Fresh, Lost, Done
<1>. QED
  BY <1>1, <1>2 DEF Requests, Zeros, Ranges

RequestsOK == early \subseteq Requests /\ request \in [Requests -> RequestType] /\ OwnedInv /\ WaitInv

LEMMA Now == IInv => RequestsOK /\ fetch \in [Reads -> [Fetches -> Requests \cup {Todo, Fresh, Lost, Done}]]
BY DEF IInv, RequestsOK, TypeOK, RequestType, Requests

\* Requests that were never sent are sent.
LEMMA SendOK ==
  ASSUME IInv, NEW qs \in SUBSET Requests, \A q \in qs : request[q].state = "unsent",
         Send(qs), fetch' = fetch
  PROVE  RequestsOK' /\ \A q \in Requests : request'[q].state = IF q \in qs THEN "flying" ELSE request[q].state
<1>. RequestsOK /\ fetch \in [Reads -> [Fetches -> Requests \cup {Todo, Fresh, Lost, Done}]]
  BY Now
<1>1. \A q \in qs : /\ Sent(q) \in RequestType
                    /\ Sent(q).state = "flying" /\ ~Sent(q).dropped /\ Sent(q).settled = 0
  <2>. SUFFICES ASSUME NEW q \in qs
                PROVE  /\ Sent(q) \in RequestType
                       /\ Sent(q).state = "flying" /\ ~Sent(q).dropped /\ Sent(q).settled = 0
    OBVIOUS
  <2>1. request[q] \in RequestType /\ request[q].settled = 0 /\ ~request[q].dropped
    BY DEF RequestsOK, WaitInv
  <2>2. Sent(q) = [state |-> "flying", dropped |-> request[q].dropped, settled |-> request[q].settled]
    BY <2>1 DEF Sent, RequestType
  <2>. QED
    BY <2>1, <2>2 DEF RequestType
<1>2. \A q \in Requests : request'[q] = IF q \in qs THEN Sent(q) ELSE request[q]
  BY DEF Send
<1>3. early' = early \cup qs /\ request' \in [Requests -> RequestType]
  BY <1>1, <1>2 DEF Send, RequestsOK
<1>4. OwnedInv'
  BY <1>1, <1>2, <1>3 DEF OwnedInv, Owned, RequestsOK
<1>5. WaitInv'
  BY <1>1, <1>2 DEF WaitInv, RequestsOK
<1>. QED
  BY <1>1, <1>2, <1>3, <1>4, <1>5 DEF RequestsOK

\* Unclaimed early requests are dropped.
LEMMA DropOK ==
  ASSUME IInv, NEW qs \in SUBSET early, early' = early \ qs,
         request' = [q \in Requests |-> IF q \in qs THEN Dropped(q) ELSE request[q]],
         fetch' = fetch
  PROVE  RequestsOK' /\ \A q \in Requests : request'[q].state = request[q].state
<1>. RequestsOK /\ fetch \in [Reads -> [Fetches -> Requests \cup {Todo, Fresh, Lost, Done}]]
  BY Now
<1>1. \A q \in qs : /\ Dropped(q) \in RequestType
                    /\ Dropped(q).state = request[q].state
                    /\ request[q].state # "unsent"
                    /\ request[q].state = "flying" => Dropped(q).settled = 0
  <2>. SUFFICES ASSUME NEW q \in qs
                PROVE  /\ Dropped(q) \in RequestType
                       /\ Dropped(q).state = request[q].state
                       /\ request[q].state # "unsent"
                       /\ request[q].state = "flying" => Dropped(q).settled = 0
    OBVIOUS
  <2>1. request[q] \in RequestType /\ Owned(q) /\ (request[q].state = "flying" => request[q].settled = 0)
    BY DEF RequestsOK, OwnedInv, WaitInv
  <2>. DEFINE n == IF request[q].state = "arrived" THEN request[q].settled + 1 ELSE request[q].settled
  <2>2. Dropped(q) = [request[q] EXCEPT !.dropped = TRUE, !.settled = n]
    BY Zenon DEF Dropped
  <2>3. n \in 0..1
    BY <2>1 DEF Owned, RequestType
  <2>4. Dropped(q) \in RequestType /\ Dropped(q).state = request[q].state /\ Dropped(q).settled = n
    <3>. DEFINE v == [request[q] EXCEPT !.dropped = TRUE]
    <3>1. v \in RequestType /\ v.state = request[q].state
      BY <2>1 DEF RequestType
    <3>2. Dropped(q) = [v EXCEPT !.settled = n]
      BY <2>2
    <3>. HIDE DEF n, v
    <3>. QED
      BY <3>1, <3>2, <2>3 DEF RequestType
  <2>. QED
    BY <2>1, <2>4 DEF Owned
<1>2. \A q \in Requests : request'[q] = IF q \in qs THEN Dropped(q) ELSE request[q]
  OBVIOUS
<1>3. early' \subseteq Requests /\ request' \in [Requests -> RequestType]
  BY <1>1 DEF RequestsOK
<1>4. OwnedInv'
  BY <1>2 DEF OwnedInv, Owned, RequestsOK
<1>5. WaitInv'
  BY <1>1, <1>2 DEF WaitInv, RequestsOK
<1>. QED
  BY <1>1, <1>2, <1>3, <1>4, <1>5 DEF RequestsOK

\* One fetch goes on without a request of the early source's.
LEMMA FetchOK ==
  ASSUME IInv, NEW r \in Reads, NEW t \in Fetches, NEW v \in {Todo, Fresh, Lost, Done},
         fetch' = [fetch EXCEPT ![r][t] = v], UNCHANGED <<early, request>>
  PROVE  /\ fetch' \in [Reads -> [Fetches -> Requests \cup {Todo, Fresh, Lost, Done}]]
         /\ \A s \in Reads, u \in Fetches : fetch'[s][u] = IF s = r /\ u = t THEN v ELSE fetch[s][u]
         /\ RequestsOK'
<1>. RequestsOK /\ fetch \in [Reads -> [Fetches -> Requests \cup {Todo, Fresh, Lost, Done}]]
  BY Now
<1>1. \A s \in Reads, u \in Fetches : fetch'[s][u] = IF s = r /\ u = t THEN v ELSE fetch[s][u]
  OBVIOUS
<1>2. fetch' \in [Reads -> [Fetches -> Requests \cup {Todo, Fresh, Lost, Done}]]
  OBVIOUS
<1>3. v \notin Requests
  BY Kinds
<1>4. OwnedInv'
  BY <1>1, <1>3 DEF OwnedInv, Owned, RequestsOK
<1>. QED
  BY <1>1, <1>2, <1>4 DEF RequestsOK, WaitInv

(***************************************************************************)
(* Each action keeps the invariant.  What it leaves alone of the open and  *)
(* of the reads is the same for all that only settle or move a request.    *)
(***************************************************************************)
LEMMA RequestStep ==
  ASSUME IInv, RequestsOK', \A q \in Requests : request[q].state = "unsent" <=> request'[q].state = "unsent",
         fetch' \in [Reads -> [Fetches -> Requests \cup {Todo, Fresh, Lost, Done}]],
         \A r \in Reads : outcome[r] = "failed" => \A t \in Fetches : fetch[r][t] = Lost => fetch'[r][t] = Lost,
         UNCHANGED <<memo, built, open, proof, read, joined, aborted, outcome>>
  PROVE  IInv'
<1>1. TypeOK'
  BY DEF IInv, TypeOK, RequestsOK, RequestType, Requests
<1>2. SentInv' /\ NumberInv'
  BY Kinds DEF IInv, SentInv, NumberInv
<1>3. ReadInv'
  BY DEF IInv, ReadInv
<1>. QED
  BY <1>1, <1>2, <1>3 DEF IInv, RequestsOK

LEMMA FetchStep ==
  ASSUME IInv, NEW r \in Reads, NEW t \in Fetches, NEW v \in {Todo, Fresh, Lost, Done},
         read[r] # "ended" \/ fetch[r][t] # Lost,
         fetch' = [fetch EXCEPT ![r][t] = v],
         UNCHANGED <<memo, built, open, proof, read, joined, aborted, outcome, early, request>>
  PROVE  IInv'
<1>1. \A s \in Reads : outcome[s] = "failed" => \A u \in Fetches : fetch[s][u] = Lost => fetch'[s][u] = Lost
  BY FetchOK DEF IInv, ReadInv, None
<1>. QED
  BY <1>1, FetchOK, RequestStep

\* A read ends: it leaves its early requests, and says how.
LEMMA EndStep ==
  ASSUME IInv, NEW r \in Reads, NEW how \in {"ok", "failed", "aborted"}, NEW opened \in BOOLEAN,
         read[r] # "ended", End(r, how, opened),
         how = "failed" =>
            /\ joined[r] \in Opens
            /\ \/ open[joined[r]] = "failed" /\ memo # joined[r]
               \/ open[joined[r]] = "built" /\ \E t \in Fetches : fetch[r][t] = Lost
  PROVE  IInv'
<1>1. LeftBy(r, opened) \in SUBSET early
  BY DEF LeftBy
<1>2. RequestsOK' /\ \A q \in Requests : request'[q].state = request[q].state
  BY <1>1, DropOK DEF End
<1>3. /\ read' \in [Reads -> {"idle", "opening", "fetching", "ended"}]
      /\ outcome' \in [Reads -> {None, "ok", "failed", "aborted"}]
      /\ \A s \in Reads : /\ read'[s] = IF s = r THEN "ended" ELSE read[s]
                          /\ outcome'[s] = IF s = r THEN how ELSE outcome[s]
  BY DEF End, IInv, TypeOK
<1>4. TypeOK'
  <2>1. proof' \in 0..MaxOpens /\ UNCHANGED <<memo, built, open, joined, aborted, fetch>>
    BY OpeningAssumption DEF End, IInv, TypeOK
  <2>2. early' \subseteq Zeros \cup Ranges /\ request' \in [Requests -> RequestType]
    BY <1>2 DEF RequestsOK, Requests
  <2>. QED
    BY <1>3, <2>1, <2>2 DEF IInv, TypeOK, RequestType
<1>5. SentInv' /\ NumberInv'
  BY <1>2, <1>3, Kinds DEF End, IInv, SentInv, NumberInv
<1>6. ReadInv'
  BY <1>3 DEF End, IInv, ReadInv, None
<1>. QED
  BY <1>2, <1>4, <1>5, <1>6 DEF IInv, RequestsOK

\* The number of the next open is free, if there is one.
LEMMA FreeOpen ==
  ASSUME IInv, NextOpen \in Opens
  PROVE  /\ open[NextOpen] = "none"
         /\ \E n \in 0..MaxOpens : NextOpen = n /\ \A k \in Opens : k # n => (open[k] = "none" <=> n < k)
<1>1. PICK n \in 0..MaxOpens : \A k \in Opens : open[k] = "none" <=> n < k
  BY DEF IInv, NumberInv
<1>2. {k \in Opens : open[k] # "none"} = 1..n
  BY <1>1, OpeningAssumption DEF Opens
<1>3. Cardinality(1..n) = n
  BY FS_Interval
<1>4. NextOpen = n + 1
  BY <1>2, <1>3 DEF NextOpen
<1>. QED
  BY <1>1, <1>4, OpeningAssumption DEF Opens

\* #open for a read or for `ready`, with what leaves early behind it.
LEMMA OpenStepOK ==
  ASSUME IInv, NEW held \in BOOLEAN, NEW ranges \in SUBSET Ranges,
         \A q \in ranges : request[q].state = "unsent",
         OpenOnce(held), Send(ZerosSent(held) \cup ranges),
         UNCHANGED <<built, aborted, outcome, fetch>>
  PROVE  /\ memo' \in Opens /\ proof' \in 0..MaxOpens
         /\ open' \in [Opens -> {"none", "locating", "rooting", "built", "failed"}]
         /\ \A k \in Opens : open[k] \in {"built", "failed"} => open'[k] = open[k] /\ (memo # k => memo' # k)
         /\ RequestsOK' /\ NumberInv'
         /\ \A k \in Opens : open'[k] \in {"none", "locating"} => request'[<<"zero", k>>].state = "unsent"
         /\ \A q \in Ranges \ ranges : request'[q].state = request[q].state
<1>. DEFINE qs == ZerosSent(held) \cup ranges
<1>. TypeOK /\ SentInv /\ NumberInv
  BY DEF IInv
<1>1. memo = 0 => NextOpen \in Opens /\ open[NextOpen] = "none"
  BY FreeOpen DEF OpenOnce
<1>2. qs \in SUBSET Requests /\ \A q \in qs : request[q].state = "unsent"
  BY <1>1, Kinds DEF ZerosSent, SentInv, Requests
<1>. HIDE DEF qs
<1>3. RequestsOK' /\ \A q \in Requests : request'[q].state = IF q \in qs THEN "flying" ELSE request[q].state
  BY <1>2, SendOK DEF qs
<1>4. /\ memo' \in Opens /\ proof' \in 0..MaxOpens
      /\ open' \in [Opens -> {"none", "locating", "rooting", "built", "failed"}]
  <2>1. CASE memo # 0
    <3>1. memo' = memo /\ proof' = proof /\ open' = open
      BY <2>1 DEF OpenOnce
    <3>2. memo \in Opens
      BY <2>1, OpeningAssumption DEF TypeOK, Opens
    <3>. QED
      BY <3>1, <3>2 DEF TypeOK
  <2>2. CASE memo = 0
    <3>1. memo' = NextOpen /\ proof' = (IF held THEN NextOpen ELSE proof)
      BY <2>2 DEF OpenOnce
    <3>2. NextOpen \in 0..MaxOpens
      BY <1>1, <2>2, OpeningAssumption DEF Opens
    <3>3. open' = [open EXCEPT ![NextOpen] = IF held THEN "rooting" ELSE "locating"]
      BY <2>2 DEF OpenOnce
    <3>4. open' \in [Opens -> {"none", "locating", "rooting", "built", "failed"}]
      BY <3>3 DEF TypeOK
    <3>. QED
      BY <1>1, <2>2, <3>1, <3>2, <3>4 DEF TypeOK
  <2>. QED
    BY <2>1, <2>2
<1>5. \A k \in Opens : open[k] \in {"built", "failed"} => open'[k] = open[k] /\ (memo # k => memo' # k)
  BY <1>1 DEF OpenOnce, TypeOK
<1>6. NumberInv'
  <2>1. CASE memo # 0
    BY <2>1 DEF OpenOnce, NumberInv
  <2>2. CASE memo = 0
    <3>1. PICK n \in 0..MaxOpens : NextOpen = n /\ \A k \in Opens : k # n => (open[k] = "none" <=> n < k)
      BY <1>1, <2>2, FreeOpen
    <3>2. \A k \in Opens : open'[k] = "none" <=> n < k
      BY <1>1, <2>2, <3>1 DEF OpenOnce, TypeOK, Opens
    <3>. QED
      BY <3>2 DEF NumberInv
  <2>. QED
    BY <2>1, <2>2
<1>7. ASSUME NEW k \in Opens, open'[k] \in {"none", "locating"} PROVE request'[<<"zero", k>>].state = "unsent"
  <2>1. <<"zero", k>> \in Requests /\ <<"zero", k>> \notin ranges
    BY Kinds DEF Ranges
  <2>2. open[k] \in {"none", "locating"} /\ <<"zero", k>> \notin ZerosSent(held)
    BY <1>7, <1>1 DEF OpenOnce, ZerosSent, TypeOK
  <2>. QED
    BY <2>1, <2>2, <1>3 DEF qs, SentInv
<1>8. ASSUME NEW q \in Ranges \ ranges PROVE request'[q].state = request[q].state
  <2>1. q \in Requests /\ q \notin ZerosSent(held)
    BY Kinds DEF Requests, Ranges, ZerosSent
  <2>. QED
    BY <2>1, <1>3 DEF qs
<1>. QED
  BY <1>3, <1>4, <1>5, <1>6, <1>7, <1>8

LEMMA ReadyInv ==
  ASSUME IInv, NEW held \in BOOLEAN, Ready(held)
  PROVE  IInv'
<1>1. /\ memo' \in Opens /\ proof' \in 0..MaxOpens
      /\ open' \in [Opens -> {"none", "locating", "rooting", "built", "failed"}]
      /\ \A k \in Opens : open[k] \in {"built", "failed"} => open'[k] = open[k] /\ (memo # k => memo' # k)
      /\ RequestsOK' /\ NumberInv'
      /\ \A k \in Opens : open'[k] \in {"none", "locating"} => request'[<<"zero", k>>].state = "unsent"
      /\ \A q \in Ranges \ {} : request'[q].state = request[q].state
  <2>1. ZerosSent(held) \cup {} = ZerosSent(held)
    OBVIOUS
  <2>. QED
    BY <2>1, OpenStepOK, ZenonT(60) DEF Ready
<1>2. TypeOK'
  BY <1>1 DEF Ready, IInv, TypeOK, RequestsOK, RequestType, Requests, Opens
<1>3. SentInv'
  BY <1>1, Kinds DEF Ready, IInv, SentInv
<1>4. ReadInv'
  BY <1>1 DEF Ready, IInv, ReadInv
<1>. QED
  BY <1>1, <1>2, <1>3, <1>4 DEF IInv, RequestsOK

LEMMA StartInv ==
  ASSUME IInv, NEW r \in Reads, NEW held \in BOOLEAN, Start(r, held)
  PROVE  IInv'
<1>. DEFINE ranges == IF ~built /\ FirstContent /\ EarlyRange(r) = {} THEN {<<"range", r>>} ELSE {}
<1>. TypeOK /\ SentInv /\ ReadInv
  BY DEF IInv
<1>0. ranges \in SUBSET Ranges /\ (\A q \in ranges : request[q].state = "unsent") /\ ranges \subseteq {<<"range", r>>}
  BY Kinds DEF Start, SentInv
<1>1. OpenOnce(held) /\ Send(ZerosSent(held) \cup ranges) /\ UNCHANGED <<built, aborted, outcome, fetch>>
  BY DEF Start
<1>2. /\ read[r] = "idle"
      /\ joined' = [joined EXCEPT ![r] = memo']
      /\ read' = [read EXCEPT ![r] = "opening"]
  BY DEF Start
<1>. HIDE DEF ranges
<1>3. /\ memo' \in Opens /\ proof' \in 0..MaxOpens
      /\ open' \in [Opens -> {"none", "locating", "rooting", "built", "failed"}]
      /\ \A k \in Opens : open[k] \in {"built", "failed"} => open'[k] = open[k] /\ (memo # k => memo' # k)
      /\ RequestsOK' /\ NumberInv'
      /\ \A k \in Opens : open'[k] \in {"none", "locating"} => request'[<<"zero", k>>].state = "unsent"
      /\ \A q \in Ranges \ ranges : request'[q].state = request[q].state
  BY <1>0, <1>1, OpenStepOK
<1>4. /\ \A s \in Reads : /\ read'[s] = IF s = r THEN "opening" ELSE read[s]
                          /\ joined'[s] = IF s = r THEN memo' ELSE joined[s]
      /\ read' \in [Reads -> {"idle", "opening", "fetching", "ended"}]
      /\ joined' \in [Reads -> 0..MaxOpens]
  BY <1>2, <1>3 DEF TypeOK, Opens
<1>5. TypeOK'
  <2>1. memo' \in 0..MaxOpens
    BY <1>3 DEF Opens
  <2>2. early' \subseteq Zeros \cup Ranges /\ request' \in [Requests -> RequestType]
    BY <1>3 DEF RequestsOK, Requests
  <2>. QED
    BY <1>1, <1>3, <1>4, <2>1, <2>2 DEF TypeOK, RequestType
<1>6. SentInv'
  <2>1. ASSUME NEW s \in Reads, read'[s] = "idle" PROVE request'[<<"range", s>>].state = "unsent"
    <3>1. s # r /\ read[s] = "idle"
      BY <1>4, <2>1
    <3>2. <<"range", s>> \in Ranges \ ranges
      BY <1>0, <3>1, Kinds
    <3>. QED
      BY <1>3, <3>1, <3>2 DEF SentInv
  <2>. QED
    BY <1>3, <2>1 DEF SentInv
<1>7. ReadInv'
  <2>1. outcome[r] = None /\ outcome' = outcome /\ fetch' = fetch
    BY <1>1, <1>2 DEF ReadInv
  <2>2. ASSUME NEW s \in Reads, s # r
        PROVE  read'[s] = read[s] /\ joined'[s] = joined[s]
    BY <1>4, <2>2
  <2>3. read'[r] = "opening" /\ joined'[r] \in Opens
    BY <1>3, <1>4
  <2>. QED
    BY <1>3, <2>1, <2>2, <2>3 DEF ReadInv, None
<1>. QED
  BY <1>3, <1>5, <1>6, <1>7 DEF IInv, RequestsOK

LEMMA LocateInv ==
  ASSUME IInv, NEW k \in Opens, Locate(k)
  PROVE  IInv'
<1>. TypeOK /\ SentInv /\ NumberInv /\ ReadInv
  BY DEF IInv
<1>1. <<"zero", k>> \in Requests /\ request[<<"zero", k>>].state = "unsent"
  BY Kinds DEF Locate, SentInv
<1>2. RequestsOK' /\ \A q \in Requests : request'[q].state = IF q \in {<<"zero", k>>} THEN "flying" ELSE request[q].state
  BY <1>1, SendOK DEF Locate
<1>3. \A i \in Opens : open'[i] = IF i = k THEN "rooting" ELSE open[i]
  BY DEF Locate, TypeOK
<1>4. TypeOK'
  <2>1. /\ proof' \in 0..MaxOpens
        /\ open' \in [Opens -> {"none", "locating", "rooting", "built", "failed"}]
    BY OpeningAssumption DEF Locate, TypeOK, Opens
  <2>2. early' \subseteq Zeros \cup Ranges /\ request' \in [Requests -> RequestType]
    BY <1>2 DEF RequestsOK, Requests
  <2>. QED
    BY <2>1, <2>2 DEF Locate, TypeOK, RequestType
<1>5. SentInv'
  <2>1. ASSUME NEW i \in Opens, open'[i] \in {"none", "locating"} PROVE request'[<<"zero", i>>].state = "unsent"
    BY <1>2, <1>3, <2>1, Kinds DEF SentInv
  <2>2. ASSUME NEW r \in Reads, read'[r] = "idle" PROVE request'[<<"range", r>>].state = "unsent"
    <3>1. read[r] = "idle" /\ <<"range", r>> \in Requests /\ <<"range", r>> # <<"zero", k>>
      BY <2>2, Kinds DEF Locate
    <3>. QED
      BY <1>2, <3>1 DEF SentInv
  <2>. QED
    BY <2>1, <2>2 DEF SentInv
<1>6. NumberInv' /\ ReadInv'
  BY <1>3 DEF Locate, NumberInv, ReadInv
<1>. QED
  BY <1>2, <1>4, <1>5, <1>6 DEF IInv, RequestsOK

LEMMA BuildInv ==
  ASSUME IInv, NEW k \in Opens, Build(k)
  PROVE  IInv'
<1>. TypeOK /\ OwnedInv /\ WaitInv /\ SentInv /\ NumberInv /\ ReadInv
  BY DEF IInv
<1>1. \A i \in Opens : open'[i] = IF i = k THEN "built" ELSE open[i]
  BY DEF Build, TypeOK
<1>2. TypeOK'
  BY DEF Build, TypeOK
<1>3. OwnedInv' /\ WaitInv'
  BY DEF Build, OwnedInv, Owned, WaitInv
<1>4. SentInv' /\ NumberInv' /\ ReadInv'
  BY <1>1 DEF Build, SentInv, NumberInv, ReadInv
<1>. QED
  BY <1>2, <1>3, <1>4 DEF IInv

LEMMA FailOpenInv ==
  ASSUME IInv, NEW k \in Opens, FailOpen(k)
  PROVE  IInv'
<1>. DEFINE qs == early \cap {<<"zero", k>>}
<1>. TypeOK /\ SentInv /\ NumberInv /\ ReadInv
  BY DEF IInv
<1>1. early' = early \ qs /\ fetch' = fetch
  BY DEF FailOpen
<1>2. request' = [q \in Requests |-> IF q \in qs THEN Dropped(q) ELSE request[q]]
  <2>1. request \in [Requests -> RequestType] /\ <<"zero", k>> \in Requests
    BY Kinds DEF TypeOK, RequestType
  <2>2. CASE <<"zero", k>> \in early
    <3>1. request' = [request EXCEPT ![<<"zero", k>>] = Dropped(<<"zero", k>>)]
      BY <2>2 DEF FailOpen
    <3>. QED
      BY <2>1, <2>2, <3>1
  <2>3. CASE <<"zero", k>> \notin early
    BY <2>1, <2>3 DEF FailOpen
  <2>. QED
    BY <2>2, <2>3
<1>3. RequestsOK' /\ \A q \in Requests : request'[q].state = request[q].state
  BY <1>1, <1>2, DropOK
<1>4. \A i \in Opens : open'[i] = IF i = k THEN "failed" ELSE open[i]
  BY DEF FailOpen, TypeOK
<1>5. TypeOK'
  <2>1. early' \subseteq Zeros \cup Ranges /\ request' \in [Requests -> RequestType]
    BY <1>3 DEF RequestsOK, Requests
  <2>2. open' \in [Opens -> {"none", "locating", "rooting", "built", "failed"}]
    BY DEF FailOpen, TypeOK
  <2>. QED
    BY <2>1, <2>2 DEF FailOpen, TypeOK, RequestType
<1>6. SentInv'
  BY <1>3, <1>4, Kinds DEF FailOpen, SentInv
<1>7. NumberInv' /\ ReadInv'
  BY <1>4 DEF FailOpen, NumberInv, ReadInv
<1>. QED
  BY <1>3, <1>5, <1>6, <1>7 DEF IInv, RequestsOK

LEMMA ForgetInv ==
  ASSUME IInv, Forget
  PROVE  IInv'
<1>1. TypeOK' /\ OwnedInv' /\ WaitInv' /\ SentInv' /\ NumberInv'
  BY OpeningAssumption DEF Forget, IInv, TypeOK, OwnedInv, Owned, WaitInv, SentInv, NumberInv
<1>2. 0 \notin Opens
  BY DEF Opens
<1>3. ReadInv'
  BY <1>2 DEF Forget, IInv, ReadInv
<1>. QED
  BY <1>1, <1>3 DEF IInv

(***************************************************************************)
(* The actions of a read.                                                  *)
(***************************************************************************)
LEMMA LeaveBeforeOpenInv ==
  ASSUME IInv, NEW r \in Reads, LeaveBeforeOpen(r)
  PROVE  IInv'
<1>1. read[r] # "ended" /\ End(r, "aborted", FALSE)
  BY DEF LeaveBeforeOpen
<1>. QED
  BY <1>1, EndStep

LEMMA OpenFailedInv ==
  ASSUME IInv, NEW r \in Reads, OpenFailed(r)
  PROVE  IInv'
<1>1. read[r] # "ended" /\ End(r, "failed", FALSE)
  BY DEF OpenFailed
<1>2. joined[r] \in Opens /\ open[joined[r]] = "failed" /\ memo # joined[r]
  BY DEF OpenFailed, Notified, IInv, ReadInv
<1>. QED
  BY <1>1, <1>2, EndStep

LEMMA FinishInv ==
  ASSUME IInv, NEW r \in Reads, Finish(r)
  PROVE  IInv'
<1>1. read[r] # "ended" /\ End(r, "ok", TRUE)
  BY DEF Finish
<1>. QED
  BY <1>1, EndStep

LEMMA BreakInv ==
  ASSUME IInv, NEW r \in Reads, Break(r)
  PROVE  IInv'
<1>. DEFINE how == IF r \in aborted THEN "aborted" ELSE "failed"
<1>1. read[r] # "ended" /\ End(r, how, TRUE)
  BY DEF Break
<1>2. joined[r] \in Opens /\ open[joined[r]] = "built"
  BY DEF Break, IInv, ReadInv
<1>3. how = "failed" => \E t \in Fetches : fetch[r][t] = Lost
  BY DEF Break, FinalFailure
<1>4. how \in {"ok", "failed", "aborted"}
  OBVIOUS
<1>. HIDE DEF how
<1>. QED
  BY <1>1, <1>2, <1>3, <1>4, EndStep

LEMMA OpenedInv ==
  ASSUME IInv, NEW r \in Reads, Opened(r)
  PROVE  IInv'
<1>. TypeOK /\ OwnedInv /\ WaitInv /\ SentInv /\ NumberInv /\ ReadInv
  BY DEF IInv
<1>1. PICK needed \in SUBSET Fetches :
        fetch' = [fetch EXCEPT ![r] = [t \in Fetches |-> IF t \in needed THEN Todo ELSE Done]]
  BY DEF Opened
<1>2. /\ fetch' \in [Reads -> [Fetches -> Requests \cup {Todo, Fresh, Lost, Done}]]
      /\ \A s \in Reads : s # r => fetch'[s] = fetch[s]
      /\ \A t \in Fetches : fetch'[r][t] \in {Todo, Done}
  BY <1>1 DEF TypeOK
<1>3. /\ read' \in [Reads -> {"idle", "opening", "fetching", "ended"}]
      /\ \A s \in Reads : read'[s] = IF s = r THEN "fetching" ELSE read[s]
      /\ read[r] = "opening" /\ open[joined[r]] = "built"
  BY DEF Opened, TypeOK
<1>4. TypeOK'
  BY <1>2, <1>3 DEF Opened, TypeOK
<1>5. OwnedInv'
  <2>1. \A s \in Reads, t \in Fetches : fetch'[s][t] \in Requests => s # r /\ fetch'[s][t] = fetch[s][t]
    BY <1>2, Kinds
  <2>. QED
    BY <2>1 DEF Opened, OwnedInv, Owned
<1>6. WaitInv' /\ SentInv' /\ NumberInv'
  BY <1>3 DEF Opened, WaitInv, SentInv, NumberInv
<1>7. ReadInv'
  BY <1>2, <1>3 DEF Opened, ReadInv, None
<1>. QED
  BY <1>4, <1>5, <1>6, <1>7 DEF IInv

LEMMA FetchInv ==
  ASSUME IInv, NEW r \in Reads, NEW t \in Fetches, Fetch(r, t)
  PROVE  IInv'
<1>. TypeOK /\ OwnedInv /\ WaitInv /\ ReadInv
  BY DEF IInv
<1>1. CASE fetch' = [fetch EXCEPT ![r][t] = Fresh] /\ UNCHANGED early
  <2>1. read[r] # "ended"
    BY DEF Fetch
  <2>. QED
    BY <1>1, <2>1, FetchStep DEF Fetch
<1>2. ASSUME NEW q \in Claimable(r, t), early' = Claimed(q), fetch' = [fetch EXCEPT ![r][t] = q]
      PROVE  IInv'
  <2>1. q \in early /\ q \in Requests
    BY DEF Claimable, EarlyRange, TypeOK, Requests
  <2>2. \A s \in Reads, u \in Fetches : fetch'[s][u] = IF s = r /\ u = t THEN q ELSE fetch[s][u]
    BY <1>2 DEF TypeOK
  <2>3. fetch' \in [Reads -> [Fetches -> Requests \cup {Todo, Fresh, Lost, Done}]]
    BY <1>2, <2>1 DEF TypeOK
  <2>4. early' = early \ {q} /\ request' = request /\ fetch[r][t] = Todo /\ read[r] = "fetching"
    BY <1>2 DEF Claimed, Fetch
  <2>5. OwnedInv'
    BY <2>1, <2>2, <2>4 DEF OwnedInv, Owned
  <2>6. RequestsOK'
    BY <2>4, <2>5 DEF RequestsOK, WaitInv, TypeOK, RequestType, Requests
  <2>7. \A s \in Reads : outcome[s] = "failed" => \A u \in Fetches : fetch[s][u] = Lost => fetch'[s][u] = Lost
    BY <2>2, <2>4, Kinds
  <2>. QED
    BY <2>3, <2>4, <2>6, <2>7, RequestStep DEF Fetch
<1>. QED
  BY <1>1, <1>2 DEF Fetch

LEMMA RetryInv ==
  ASSUME IInv, NEW r \in Reads, NEW t \in Fetches, Retry(r, t)
  PROVE  IInv'
<1>1. read[r] # "ended"
  BY DEF Retry
<1>. QED
  BY <1>1, FetchStep DEF Retry

LEMMA AnswerFreshInv ==
  ASSUME IInv, NEW r \in Reads, NEW t \in Fetches, AnswerFresh(r, t)
  PROVE  IInv'
<1>1. read[r] # "ended"
  BY DEF AnswerFresh
<1>. QED
  BY <1>1, FetchStep DEF AnswerFresh

LEMMA AbortInv ==
  ASSUME IInv, NEW r \in Reads, Abort(r)
  PROVE  IInv'
<1>1. TypeOK'
  BY OpeningAssumption DEF Abort, IInv, TypeOK
<1>. QED
  BY <1>1 DEF Abort, IInv, OwnedInv, Owned, WaitInv, SentInv, NumberInv, ReadInv

(***************************************************************************)
(* A request ends, and its body is taken.                                  *)
(***************************************************************************)
LEMMA AnswerInv ==
  ASSUME IInv, NEW q \in Requests, Answer(q)
  PROVE  IInv'
<1>. RequestsOK /\ TypeOK /\ OwnedInv /\ WaitInv
  BY Now DEF IInv
<1>. DEFINE n == IF request[q].dropped THEN request[q].settled + 1 ELSE request[q].settled
<1>1. request[q] \in RequestType /\ request[q].state = "flying" /\ request[q].settled = 0
  BY DEF RequestsOK, Answer, WaitInv
<1>2. request' = [request EXCEPT ![q] = [request[q] EXCEPT !.state = "arrived", !.settled = n]]
  BY DEF Answer, RequestsOK
<1>3. n \in 0..1 /\ (n = 1 <=> request[q].dropped)
  BY <1>1 DEF RequestType
<1>. HIDE DEF n
<1>. DEFINE w == [request[q] EXCEPT !.state = "arrived", !.settled = n]
<1>4. w \in RequestType /\ w.state = "arrived" /\ w.settled = n /\ w.dropped = request[q].dropped
  <2>1. ASSUME NEW x \in RequestType, NEW y, y = [x EXCEPT !.state = "arrived", !.settled = n]
        PROVE  y \in RequestType /\ y.state = "arrived" /\ y.settled = n /\ y.dropped = x.dropped
    <3>. DEFINE v == [x EXCEPT !.state = "arrived"]
    <3>1. v \in RequestType /\ v.state = "arrived" /\ v.dropped = x.dropped
      BY DEF RequestType
    <3>2. y = [v EXCEPT !.settled = n]
      BY <2>1
    <3>. HIDE DEF v
    <3>. QED
      BY <1>3, <3>1, <3>2 DEF RequestType
  <2>. QED
    BY <1>1, <2>1, Zenon
<1>. HIDE DEF w
<1>5. \A p \in Requests : request'[p] = IF p = q THEN w ELSE request[p]
  BY <1>2 DEF w, RequestsOK
<1>6. request' \in [Requests -> RequestType]
  BY <1>2, <1>4 DEF w, RequestsOK
<1>7. \A p \in Requests : Owned(p) => Owned(p)'
  BY <1>1, <1>3, <1>4, <1>5 DEF Owned
<1>8. OwnedInv'
  BY <1>7 DEF OwnedInv, Answer, RequestsOK
<1>9. WaitInv'
  BY <1>4, <1>5 DEF WaitInv
<1>10. RequestsOK'
  BY <1>6, <1>8, <1>9 DEF RequestsOK, Answer
<1>11. \A p \in Requests : request[p].state = "unsent" <=> request'[p].state = "unsent"
  BY <1>1, <1>4, <1>5
<1>. QED
  BY <1>10, <1>11, RequestStep DEF Answer, TypeOK

LEMMA LoseInv ==
  ASSUME IInv, NEW q \in Requests, Lose(q)
  PROVE  IInv'
<1>. RequestsOK /\ TypeOK /\ OwnedInv /\ WaitInv
  BY Now DEF IInv
<1>1. request[q] \in RequestType /\ request[q].state = "flying" /\ request[q].settled = 0
  BY DEF RequestsOK, Lose, WaitInv
<1>. DEFINE n == request[q].settled + 1
<1>. DEFINE w == [request[q] EXCEPT !.state = "failed", !.settled = n]
<1>2. request' = [request EXCEPT ![q] = w]
  BY DEF Lose, RequestsOK
<1>3. n \in 0..1
  BY <1>1
<1>. HIDE DEF n
<1>4. w \in RequestType /\ w.state = "failed" /\ w.dropped = request[q].dropped
  <2>1. ASSUME NEW x \in RequestType, NEW y, y = [x EXCEPT !.state = "failed", !.settled = n]
        PROVE  y \in RequestType /\ y.state = "failed" /\ y.dropped = x.dropped
    <3>. DEFINE v == [x EXCEPT !.state = "failed"]
    <3>1. v \in RequestType /\ v.state = "failed" /\ v.dropped = x.dropped
      BY DEF RequestType
    <3>2. y = [v EXCEPT !.settled = n]
      BY <2>1
    <3>. HIDE DEF v
    <3>. QED
      BY <1>3, <3>1, <3>2 DEF RequestType
  <2>. QED
    BY <1>1, <2>1, Zenon
<1>. HIDE DEF w
<1>5. \A p \in Requests : request'[p] = IF p = q THEN w ELSE request[p]
  BY <1>2 DEF RequestsOK
<1>6. request' \in [Requests -> RequestType]
  BY <1>2, <1>4 DEF RequestsOK
<1>7. \A p \in Requests : Owned(p) => Owned(p)'
  BY <1>4, <1>5 DEF Owned
<1>8. OwnedInv'
  BY <1>7 DEF OwnedInv, Lose, RequestsOK
<1>9. WaitInv'
  BY <1>4, <1>5 DEF WaitInv
<1>10. RequestsOK'
  BY <1>6, <1>8, <1>9 DEF RequestsOK, Lose
<1>11. \A p \in Requests : request[p].state = "unsent" <=> request'[p].state = "unsent"
  BY <1>1, <1>4, <1>5
<1>. QED
  BY <1>10, <1>11, RequestStep DEF Lose, TypeOK

LEMMA TakeInv ==
  ASSUME IInv, NEW r \in Reads, NEW t \in Fetches, Take(r, t)
  PROVE  IInv'
<1>. RequestsOK /\ TypeOK /\ OwnedInv /\ WaitInv
  BY Now DEF IInv
<1>. DEFINE q == fetch[r][t]
<1>1. /\ q \in Requests /\ Owned(q) /\ q \notin early
      /\ request[q] \in RequestType /\ request[q].state = "arrived" /\ request[q].settled = 0
  BY DEF Take, OwnedInv, Owned, RequestsOK
<1>2. \A s \in Reads, u \in Fetches : fetch[s][u] = q => s = r /\ u = t
  BY <1>1 DEF OwnedInv
<1>. DEFINE w == [request[q] EXCEPT !.settled = 1]
<1>3. request' = [request EXCEPT ![q] = w]
  <2>1. request' = [request EXCEPT ![q] = [request[q] EXCEPT !.settled = request[q].settled + 1]]
    BY DEF Take, RequestsOK
  <2>2. request[q].settled + 1 = 1
    BY <1>1
  <2>. QED
    BY <2>1, <2>2
<1>4. w \in RequestType /\ w.state = "arrived"
  BY <1>1 DEF RequestType
<1>5. fetch' = [fetch EXCEPT ![r][t] = Done]
  BY DEF Take
<1>. HIDE DEF w
<1>6. /\ fetch' \in [Reads -> [Fetches -> Requests \cup {Todo, Fresh, Lost, Done}]]
      /\ \A s \in Reads, u \in Fetches : fetch'[s][u] = IF s = r /\ u = t THEN Done ELSE fetch[s][u]
  BY <1>5 DEF TypeOK
<1>. HIDE DEF q
<1>7. /\ request' \in [Requests -> RequestType]
      /\ \A p \in Requests : request'[p] = IF p = q THEN w ELSE request[p]
  BY <1>1, <1>3, <1>4 DEF RequestsOK
<1>8. \A p \in Requests : p # q /\ Owned(p) => Owned(p)'
  BY <1>7 DEF Owned
<1>9. OwnedInv'
  <2>1. early' = early /\ early \subseteq Requests
    BY DEF Take, RequestsOK
  <2>2. \A s \in Reads, u \in Fetches :
          fetch'[s][u] \in Requests => fetch'[s][u] = fetch[s][u] /\ fetch[s][u] # q
    BY <1>2, <1>6, Kinds
  <2>3. \A p \in early' : Owned(p)'
    BY <1>1, <1>8, <2>1 DEF OwnedInv
  <2>4. ASSUME NEW s \in Reads, NEW u \in Fetches, NEW p \in Requests, fetch'[s][u] = p
        PROVE  Owned(p)' /\ p \notin early'
    BY <1>8, <2>1, <2>2, <2>4 DEF OwnedInv
  <2>5. \A s, v \in Reads, u, x \in Fetches :
          fetch'[s][u] \in Requests /\ fetch'[s][u] = fetch'[v][x] => s = v /\ u = x
    BY <2>2 DEF OwnedInv
  <2>. QED
    BY <2>3, <2>4, <2>5 DEF OwnedInv, Owned
<1>10. WaitInv'
  BY <1>4, <1>7 DEF WaitInv
<1>11. RequestsOK'
  BY <1>7, <1>9, <1>10 DEF RequestsOK, Take
<1>12. \A p \in Requests : request[p].state = "unsent" <=> request'[p].state = "unsent"
  BY <1>1, <1>4, <1>7
<1>13. fetch[r][t] # Lost
  BY <1>1, Kinds DEF q
<1>. QED
  BY <1>6, <1>11, <1>12, <1>13, RequestStep DEF Take

(***************************************************************************)
(* The invariant of the specification.                                     *)
(***************************************************************************)
LEMMA InitInv == Init => IInv
<1>. SUFFICES ASSUME Init PROVE IInv
  OBVIOUS
<1>1. TypeOK
  <2>1. Unsent \in RequestType
    BY DEF Unsent, RequestType
  <2>2. request \in [Requests -> RequestType]
    BY <2>1 DEF Init
  <2>3. memo \in 0..MaxOpens /\ proof \in 0..MaxOpens /\ joined \in [Reads -> 0..MaxOpens]
    BY OpeningAssumption DEF Init
  <2>4. fetch \in [Reads -> [Fetches -> Requests \cup {Todo, Fresh, Lost, Done}]]
    BY DEF Init
  <2>5. /\ open \in [Opens -> {"none", "locating", "rooting", "built", "failed"}]
        /\ read \in [Reads -> {"idle", "opening", "fetching", "ended"}]
        /\ outcome \in [Reads -> {None, "ok", "failed", "aborted"}]
        /\ built \in BOOLEAN /\ aborted \subseteq Reads /\ early \subseteq Zeros \cup Ranges
    BY DEF Init
  <2>. QED
    BY <2>2, <2>3, <2>4, <2>5 DEF TypeOK, RequestType
<1>2. OwnedInv /\ WaitInv
  BY Kinds DEF Init, OwnedInv, WaitInv, Unsent
<1>3. SentInv
  BY Kinds DEF Init, SentInv, Unsent
<1>4. NumberInv
  BY OpeningAssumption DEF Init, NumberInv, Opens
<1>5. ReadInv
  BY DEF Init, ReadInv, None
<1>. QED
  BY <1>1, <1>2, <1>3, <1>4, <1>5 DEF IInv

LEMMA StepInv == IInv /\ [Next]_vars => IInv'
<1>. SUFFICES ASSUME IInv, [Next]_vars PROVE IInv'
  OBVIOUS
<1>1. ASSUME NEW r \in Reads, ReadStep(r) PROVE IInv'
  BY <1>1, LeaveBeforeOpenInv, OpenFailedInv, OpenedInv, FinishInv, BreakInv,
     FetchInv, TakeInv, RetryInv, AnswerFreshInv DEF ReadStep
<1>2. ASSUME NEW r \in Reads, (\E held \in BOOLEAN : Start(r, held)) \/ Abort(r) PROVE IInv'
  BY <1>2, StartInv, AbortInv
<1>3. ASSUME NEW held \in BOOLEAN, Ready(held) PROVE IInv'
  BY <1>3, ReadyInv
<1>4. ASSUME NEW k \in Opens, OpenStep(k) PROVE IInv'
  BY <1>4, LocateInv, BuildInv, FailOpenInv DEF OpenStep
<1>5. ASSUME NEW q \in Requests, Answer(q) \/ Lose(q) PROVE IInv'
  BY <1>5, AnswerInv, LoseInv
<1>6. CASE UNCHANGED vars
  BY <1>6 DEF vars, IInv, TypeOK, OwnedInv, Owned, WaitInv, SentInv, NumberInv, ReadInv
<1>. QED
  BY <1>1, <1>2, <1>3, <1>4, <1>5, <1>6, ForgetInv DEF Next

\* Every state of an open, of its reads and of the requests they send early has
\* the declared type.  What is not a matter of shape is `settled`: no order of
\* answer, claim, release and drop settles a request twice (early-source.ts).
THEOREM TypeCorrect == Spec => []TypeOK
<1>1. IInv => TypeOK
  BY DEF IInv
<1>. QED
  BY <1>1, InitInv, StepInv, PTL DEF Spec

\* An early request never changes an outcome (early-source.ts): whatever becomes
\* of it, a read fails only with the open it joined, or because a request that
\* left when the read asked for it failed.
THEOREM EarlyHarmless == Spec => []EarlyNeverHurts
<1>1. IInv => EarlyNeverHurts
  BY DEF IInv, ReadInv, EarlyNeverHurts
<1>. QED
  BY <1>1, InitInv, StepInv, PTL DEF Spec

\* A failed open is forgotten before any caller hears of it (#open's catch in
\* verified-file.ts): a caller that reads again joins no open that failed.
THEOREM FreshRetry == Spec => []RetryIsFresh
<1>1. IInv => RetryIsFresh
  BY DEF IInv, ReadInv, RetryIsFresh
<1>. QED
  BY <1>1, InitInv, StepInv, PTL DEF Spec

=============================================================================
