---- MODULE ReqRspService ----
(***************************************************************************)
(* What the request/response layer promises the issuer of requests, with   *)
(* no dispatcher, worker, queue or tag in it: each request asks for a set  *)
(* of blocks, every block is delivered exactly once, the request is        *)
(* answered once, after its last block and in the order of issue, and the  *)
(* service goes on until it is closed.  It may start to close at the first *)
(* answer after the last request was issued.                               *)
(***************************************************************************)
EXTENDS Integers

CONSTANTS
  Requests,    \* how many requests are issued
  MaxBlocks    \* how many blocks a request asks for at most

VARIABLES
  issued,       \* number of requests issued: 0 .. issued-1
  outstanding,  \* unanswered request -> blocks not yet delivered
  phase         \* "open", "closing", "closed"

vars == <<issued, outstanding, phase>>

Init ==
  /\ issued = 0
  /\ outstanding = [r \in {} |-> {}]
  /\ phase = "open"

Issue(n) ==
  /\ phase # "closed" /\ issued < Requests
  /\ outstanding' = [r \in DOMAIN outstanding \cup {issued} |->
                       IF r = issued THEN 0 .. n - 1 ELSE outstanding[r]]
  /\ issued' = issued + 1
  /\ UNCHANGED phase

Deliver(r, b) ==
  /\ phase # "closed" /\ b \in outstanding[r]
  /\ outstanding' = [outstanding EXCEPT ![r] = @ \ {b}]
  /\ UNCHANGED <<issued, phase>>

Answer(r) ==
  /\ phase # "closed" /\ outstanding[r] = {}
  /\ \A s \in DOMAIN outstanding : r <= s
  /\ outstanding' = [s \in DOMAIN outstanding \ {r} |-> outstanding[s]]
  /\ phase' = IF issued = Requests THEN "closing" ELSE phase
  /\ UNCHANGED issued

Close ==
  /\ phase = "closing"
  /\ phase' = "closed"
  /\ UNCHANGED <<issued, outstanding>>

Next ==
  \/ \E n \in 1 .. MaxBlocks : Issue(n)
  \/ \E r \in DOMAIN outstanding, b \in 0 .. MaxBlocks - 1 : Deliver(r, b)
  \/ \E r \in DOMAIN outstanding : Answer(r)
  \/ Close

\* The service does not stop on its own before it is closed.
Spec == Init /\ [][Next]_vars /\ WF_vars(Next)
====
