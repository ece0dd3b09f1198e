---- MODULE Client ----
(***************************************************************************)
(* The client reactor of base.lf.  It issues TotalRefs requests, each for  *)
(* 1 to MaxLen blocks, and keeps every one in its output port's queue with *)
(* a bitmask of the blocks still missing.  An interim response clears one  *)
(* bit, a response retires the request, and the first response after the   *)
(* last request was issued stops the program.                              *)
(***************************************************************************)
EXTENDS LFRuntime, IdQueue

CONSTANTS
  TotalRefs,    \* reactor parameter total_refs (10)
  MaxLen,       \* largest request length (10)
  MinInterval,  \* reactor parameter min_interval (1 ms)
  MaxFactor     \* largest multiple of it between two requests (5)

ASSUME ClientAssumption ==
  /\ TotalRefs \in Nat
  /\ MaxLen \in Nat \ {0} /\ MaxLen < IdMod
  /\ MinInterval \in Nat
  /\ MaxFactor \in Nat \ {0}

VARIABLES
  refCounter,    \* requests issued so far
  terminate,     \* the last request has been issued
  clientNextId,  \* next_event_id of the output queue
  clientOut      \* output.queue: id -> missing blocks and time of issue

clientVars == <<refCounter, terminate, clientNextId, clientOut>>

Blocks == 0 .. MaxLen - 1

\* The state the startup reactions of the client leave behind.
ClientInit ==
  /\ refCounter = 0
  /\ terminate = FALSE
  /\ clientNextId = 0
  /\ clientOut = EmptyQueue

\* The wait before the next request, drawn by rand_r.
Intervals == {MinInterval * f : f \in 1 .. MaxFactor}

\* schedule_reference: queue and send a request for len blocks from lbn 0.
\* The request is sent whether or not the queue took it.
schedule_reference(len) ==
  LET mask == 0 .. len - 1
  IN  /\ clientOut' = p_enqueue(clientOut, clientNextId,
                                [mask |-> mask, ts |-> tag.time])
      /\ clientNextId' = EventIdAfter(clientNextId, 1)
      /\ present' = [present EXCEPT !.sch_ref = {},
                       !.batch_request = {[id |-> clientNextId, mask |-> mask]}]

\* The last request is out; the mutant goes on for one more.
IsLastRefLate(issued) == issued > TotalRefs
IsLastRef(issued) == issued >= TotalRefs

\* reaction (sch_ref): issue a request, then book the next one or finish.
client_sch_ref ==
  /\ Turn("sch_ref")
  /\ \E len \in 1 .. MaxLen : schedule_reference(len)
  /\ refCounter' = refCounter + 1
  /\ IF IsLastRef(refCounter + 1)
     THEN terminate' = TRUE /\ UNCHANGED pending
     ELSE /\ \E d \in Intervals : pending' = Scheduled("sch_ref", 0, d)
          /\ UNCHANGED terminate
  /\ UNCHANGED <<tag, stop, crashed>>

\* Clearing the bit of a filled block; the mutant clears nothing.
FillNothing(req, block) == req
Fill(req, block) == [req EXCEPT !.mask = @ \ {block}]

\* client_interim_response.  Its log line reads the request before the test
\* for NULL, so an unknown request is a crash.
client_interim_response(rsp) ==
  IF rsp.id \in DOMAIN clientOut
  THEN /\ clientOut' = [clientOut EXCEPT ![rsp.id] = Fill(@, rsp.block)]
       /\ UNCHANGED crashed
  ELSE crashed' = TRUE /\ UNCHANGED clientOut

\* reaction (workstream_rsp): a block has arrived.
client_workstream_rsp ==
  /\ Turn("workstream_response")
  /\ \E rsp \in present.workstream_response : client_interim_response(rsp)
  /\ present' = [present EXCEPT !.workstream_response = {}]
  /\ UNCHANGED <<tag, pending, stop, refCounter, terminate, clientNextId>>

\* client_response retires the request (an unknown one is only logged); the
\* mutant peeks where the code pops.
client_response_peeks(q, id) == q
client_response(q, id) == pop_by_id(q, id)

\* Whether a response stops the program; the mutant stops at the first one.
StopsAlways == TRUE
StopsNow == terminate

\* reaction (batch_response): retire the request, and stop the program if the
\* last request is out, whichever request was answered.
client_batch_response ==
  /\ Turn("batch_response")
  /\ \E id \in present.batch_response :
       clientOut' = client_response(clientOut, id)
  /\ stop' = IF StopsNow THEN StopRequested ELSE stop
  /\ present' = [present EXCEPT !.batch_response = {}]
  /\ UNCHANGED <<tag, pending, crashed, refCounter, terminate, clientNextId>>
====
