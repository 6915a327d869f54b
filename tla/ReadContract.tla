---------------------------- MODULE ReadContract ----------------------------
(***************************************************************************)
(* What a verified store promises each of its readers: what it would be if *)
(* every reader fetched alone.  A read ends once, served, failed or        *)
(* aborted; it is aborted only if its own reader asked for that, and never *)
(* served after its reader did.  That fetches are shared between readers,  *)
(* cancelled with their last reader and answered from a cache does not     *)
(* show.  VerifiedStore implements this specification.                     *)
(***************************************************************************)
CONSTANT Readers

VARIABLES
  status, \* status[r]: where r's latest read stands
  asked   \* asked[r]: r's signal has aborted that read

vars == <<status, asked>>

Ended == {"served", "failed", "aborted"}

Init ==
  /\ status = [r \in Readers |-> "idle"]
  /\ asked = [r \in Readers |-> FALSE]

Begin(r) ==
  /\ status[r] # "reading"
  /\ \/ /\ status' = [status EXCEPT ![r] = "reading"]
        /\ asked' = [asked EXCEPT ![r] = FALSE]
     \/ /\ status' = [status EXCEPT ![r] = "served"]
        /\ asked' = [asked EXCEPT ![r] = FALSE]
     \/ /\ status' = [status EXCEPT ![r] = "aborted"]
        /\ asked' = [asked EXCEPT ![r] = TRUE]

Ask(r) ==
  /\ status[r] = "reading"
  /\ ~asked[r]
  /\ asked' = [asked EXCEPT ![r] = TRUE]
  /\ UNCHANGED status

End(r) ==
  /\ status[r] = "reading"
  /\ \E outcome \in Ended :
       /\ outcome = "aborted" => asked[r]
       /\ outcome = "served" => ~asked[r]
       /\ status' = [status EXCEPT ![r] = outcome]
  /\ UNCHANGED asked

Next == \E r \in Readers : Begin(r) \/ Ask(r) \/ End(r)

Spec == Init /\ [][Next]_vars

=============================================================================
