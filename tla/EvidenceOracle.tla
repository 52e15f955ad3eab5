--------------------------- MODULE EvidenceOracle ---------------------------
(***************************************************************************)
(* What a caller of RuntimeService._evidence is promised, with no cache in *)
(* sight: every request is answered with the record that verifying the     *)
(* requested relationship on the requested snapshot produces, or fails.    *)
(***************************************************************************)
CONSTANTS
  Servers,      \* processes that ask for evidence
  Requests,     \* what may be asked for
  Verified,     \* [Requests -> the record that verification produces]
  NoRecord,     \* no answer yet
  NoRequest     \* no request is being served

VARIABLES
  asked,        \* [Servers -> Requests or NoRequest]
  answer        \* [Servers -> a record or NoRecord]

vars == <<asked, answer>>

Init ==
  /\ asked = [p \in Servers |-> NoRequest]
  /\ answer = [p \in Servers |-> NoRecord]

Ask(p, q) ==
  /\ asked[p] = NoRequest
  /\ asked' = [asked EXCEPT ![p] = q]
  /\ UNCHANGED answer

Answer(p) ==
  /\ asked[p] # NoRequest
  /\ answer[p] = NoRecord
  /\ answer' = [answer EXCEPT ![p] = Verified[asked[p]]]
  /\ UNCHANGED asked

(* The caller takes the answer, or the request of some of the processes is *)
(* lost: its verification failed, or they crashed.                         *)
Finish(P) ==
  /\ asked' = [p \in Servers |-> IF p \in P THEN NoRequest ELSE asked[p]]
  /\ answer' = [p \in Servers |-> IF p \in P THEN NoRecord ELSE answer[p]]

Next ==
  \/ \E p \in Servers : \E q \in Requests : Ask(p, q)
  \/ \E p \in Servers : Answer(p)
  \/ \E P \in SUBSET Servers : Finish(P)

Spec == Init /\ [][Next]_vars

=============================================================================
