---- MODULE ReqRspMock ----
(***************************************************************************)
(* The program of req_rsp_mock/src/base.lf: a client, a dispatcher and a   *)
(* worker, connected through the request/response layer                    *)
(* (req_rsp_layer/translation.h) and scheduled by the LF runtime.          *)
(***************************************************************************)
EXTENDS Client, Dispatcher, Worker

vars == <<rtVars, clientVars, dispatcherVars, taskQ>>

\* After the startup reactions at tag (0, 0): the client has booked its first
\* request for the next microstep.
Init ==
  /\ tag = [time |-> 0, micro |-> 0]
  /\ pending = {[action |-> "sch_ref", id |-> 0, time |-> 0, micro |-> 1]}
  /\ present = Quiet
  /\ stop = "no"
  /\ crashed = FALSE
  /\ ClientInit /\ DispatcherInit /\ WorkerInit

ClientStep ==
  /\ client_sch_ref \/ client_workstream_rsp \/ client_batch_response
  /\ UNCHANGED <<dispatcherVars, taskQ>>

DispatcherStep ==
  /\ \/ dispatcher_batch_request
     \/ dispatcher_storage_req_trigger
     \/ dispatcher_workstream_rsp
  /\ UNCHANGED <<clientVars, taskQ>>

WorkerStep ==
  /\ worker_task \/ worker_fetch_page
  /\ UNCHANGED <<clientVars, dispatcherVars>>

RuntimeStep ==
  /\ AdvanceTag \/ AdvanceToStopTag \/ Shutdown
  /\ UNCHANGED <<clientVars, dispatcherVars, taskQ>>

\* With keepalive:true the program ends only through the stop tag.
Ended == stop = "done" /\ UNCHANGED vars

Next == ClientStep \/ DispatcherStep \/ WorkerStep \/ RuntimeStep \/ Ended

\* The runtime's single worker thread keeps running reactions and popping
\* events as long as there are any (fast:true: no wait for physical time).
Spec == Init /\ [][Next]_vars /\ WF_vars(Next)

-----------------------------------------------------------------------------
(* Properties *)

\* A reactor with total_refs 0 issues one request all the same.
Requests == IF TotalRefs = 0 THEN 1 ELSE TotalRefs

\* What a trigger may carry at a tag: one value at most, of its type.
PresentTypeOK ==
  /\ DOMAIN present = Triggers
  /\ \A t \in {"sch_ref", "storage_req_trigger"} : present[t] \subseteq {0}
  /\ \A t \in {"workstream_req", "fetch_page", "task_result", "batch_response"} :
       present[t] \subseteq Ids
  /\ present.batch_request \subseteq [id : Ids, mask : SUBSET Blocks]
  /\ present.workstream_response \subseteq [id : Ids, block : Blocks]
  /\ \A t \in Triggers : \A v, w \in present[t] : v = w

RuntimeTypeOK ==
  /\ tag \in [time : Nat, micro : Nat]
  /\ pending \subseteq [action : Actions, id : Ids, time : Nat, micro : Nat]
  /\ IsFiniteSet(pending)
  /\ \A e \in pending : e.action # "fetch_page" => e.id = 0
  /\ stop \in {"no", "requested", "final", "done"}
  /\ crashed \in BOOLEAN

ClientTypeOK ==
  /\ refCounter \in 0 .. Requests
  /\ terminate \in BOOLEAN /\ (terminate <=> refCounter = Requests)
  /\ clientNextId \in Ids
  /\ DOMAIN clientOut \subseteq Ids
  /\ \A r \in DOMAIN clientOut : clientOut[r] \in [mask : SUBSET Blocks, ts : Nat]

DispatcherTypeOK ==
  /\ subNextId \in Ids
  /\ DOMAIN reqQ \subseteq Ids
  /\ \A r \in DOMAIN reqQ : reqQ[r] \in SUBSET Blocks
  /\ DOMAIN schQ \subseteq Ids
  /\ \A i \in DOMAIN schQ : schQ[i] \in [parent : Ids, block : Blocks]
  /\ DOMAIN diskQ \subseteq Ids
  /\ \A i \in DOMAIN diskQ : diskQ[i] \in [parent : Ids, block : Blocks]

\* Type correctness: every queue is keyed by 32-bit ids and holds entries of
\* its connector, and at most one value is present on a port or an action.
TypeOK ==
  /\ RuntimeTypeOK /\ PresentTypeOK
  /\ ClientTypeOK /\ DispatcherTypeOK
  /\ taskQ \subseteq Ids

\* No reaction dereferences NULL: the sub-request and the parent request that
\* process_disk_response looks up, and the request of client_interim_response,
\* are always queued, although no caller tests for it.
NoCrash == ~crashed

\* The sub-requests on their way, waiting in the scheduler's queue or sent to
\* the worker.
SubIds == DOMAIN schQ \cup DOMAIN diskQ
Sub(i) == IF i \in DOMAIN schQ THEN schQ[i] ELSE diskQ[i]

\* The bitmask of a request in the dispatcher is exactly the set of blocks
\* with a sub-request on its way, there is one sub-request for each, and none
\* outlives its parent: process_batch_request, schedule_disk_request and
\* process_disk_response keep three queues and a bitmask in step.
BlockAccounting ==
  /\ DOMAIN schQ \cap DOMAIN diskQ = {}
  /\ \A i \in SubIds : /\ Sub(i).parent \in DOMAIN reqQ
                       /\ Sub(i).block \in reqQ[Sub(i).parent]
  /\ \A i, j \in SubIds : Sub(i) = Sub(j) => i = j
  /\ \A r \in DOMAIN reqQ :
       /\ reqQ[r] # {}
       /\ \A b \in reqQ[r] : \E i \in SubIds : Sub(i) = [parent |-> r, block |-> b]

FetchEvents == {e \in pending : e.action = "fetch_page"}

\* Each sub-request that the dispatcher takes to be at the worker is in exactly
\* one place there: on the request port, being read (in the input queue, with
\* its one fetch_page event), or on the response port.
DiskAccounting ==
  /\ DOMAIN diskQ =
       present.workstream_req \cup taskQ \cup present.task_result
  /\ present.workstream_req \cap taskQ = {}
  /\ present.task_result \cap (taskQ \cup present.workstream_req) = {}
  /\ taskQ = {e.id : e \in FetchEvents} \cup present.fetch_page
  /\ \A e \in FetchEvents : e.id \notin present.fetch_page
  /\ \A e, f \in FetchEvents : e.id = f.id => e = f

TriggerEvents == {e \in pending : e.action = "storage_req_trigger"}

\* The scheduler's trigger is armed, once, exactly while sub-requests wait: the
\* test for an empty queue in connector_process_input and the one after
\* schedule_disk_request neither lose a wake-up nor double one.
TriggerArmed ==
  /\ is_empty(schQ) <=> TriggerEvents = {} /\ present.storage_req_trigger = {}
  /\ TriggerEvents # {} => present.storage_req_trigger = {}
  /\ \A e, f \in TriggerEvents : e = f

\* The blocks of request r that an interim response carries at this tag.
InFlight(r) ==
  {rsp.block : rsp \in {x \in present.workstream_response : x.id = r}}

\* The client and the dispatcher agree on every request, up to the messages
\* present at this tag: on which are unanswered, and on the missing blocks.
ClientDispatcherAgree ==
  /\ DOMAIN clientOut = DOMAIN reqQ \cup {q.id : q \in present.batch_request}
                                    \cup present.batch_response
  /\ present.batch_response \cap DOMAIN reqQ = {}
  /\ \A q \in present.batch_request :
       /\ q.id \notin DOMAIN reqQ \cup present.batch_response
       /\ clientOut[q.id].mask = q.mask
  /\ \A r \in DOMAIN reqQ : clientOut[r].mask = reqQ[r] \cup InFlight(r)
  /\ \A r \in present.batch_response : clientOut[r].mask = InFlight(r)
  /\ \A rsp \in present.workstream_response :
       \/ rsp.id \in DOMAIN reqQ /\ rsp.block \notin reqQ[rsp.id]
       \/ rsp.id \in present.batch_response

\* A request leaves the client's queue only when every block was filled: the
\* "BITMASK not ZERO" error of client_response is never reached.
AnswersComplete ==
  [][\A r \in DOMAIN clientOut :
       r \notin DOMAIN clientOut' => clientOut[r].mask = {}]_vars

\* Requests are answered in the order of issue, although nothing in the layer
\* compares them: it follows from the sorted queues, the fixed read time and
\* the way events of one action pile up in microsteps.
AnswersInOrder ==
  [][\A r, s \in DOMAIN clientOut : r \notin DOMAIN clientOut' => r <= s]_vars

\* No request is outstanding for longer than one read, however many requests
\* and blocks are under way: the scheduler's queue drains in microsteps.
AnswersInOneRead ==
  \A r \in DOMAIN clientOut : tag.time <= clientOut[r].ts + ReadTime

\* A client that waits at least one read between requests loses at most its
\* last request when the program stops on the first response after the last
\* request was issued.
LosesAtMostOne == stop = "done" => \A r, s \in DOMAIN clientOut : r = s

\* The program comes to its stop tag and ends: keepalive:true never leaves
\* it waiting for an event that is not coming.
Terminates == <>(stop = "done")

\* The client's view of the program is the service of ReqRspService.
Service ==
  INSTANCE ReqRspService WITH
    Requests <- Requests,
    MaxBlocks <- MaxLen,
    issued <- refCounter,
    outstanding <- [r \in DOMAIN clientOut |-> clientOut[r].mask],
    phase <- CASE stop = "no" -> "open"
               [] stop \in {"requested", "final"} -> "closing"
               [] OTHER -> "closed"

ImplementsService == Service!Spec

-----------------------------------------------------------------------------
(* The inductive invariant: what the safety invariants above rest on *)

\* No id is handed out twice.  The theorems assume it; the code has no such
\* guard and relies on 2^32 being large.
NoWrap == Requests * MaxLen < IdMod

\* A port carries a value only after the reactions up to its writer have run.
PortsFollow ==
  /\ present.batch_request # {} => present.sch_ref = {}
  /\ present.workstream_req # {} =>
       /\ present.sch_ref = {} /\ present.batch_request = {}
       /\ present.storage_req_trigger = {}
  /\ present.task_result # {} =>
       /\ present.sch_ref = {} /\ present.batch_request = {}
       /\ present.storage_req_trigger = {} /\ present.workstream_req = {}
       /\ present.fetch_page = {}
  /\ present.workstream_response # {} \/ present.batch_response # {} =>
       /\ present.sch_ref = {} /\ present.batch_request = {}
       /\ present.storage_req_trigger = {} /\ present.workstream_req = {}
       /\ present.fetch_page = {} /\ present.task_result = {}

SchRefEvents == {e \in pending : e.action = "sch_ref"}

\* One request at a time is booked, and only while there are more to issue.
SchRefOnce ==
  /\ \A e, f \in SchRefEvents : e = f
  /\ SchRefEvents # {} => present.sch_ref = {}
  /\ SchRefEvents # {} \/ present.sch_ref # {} => refCounter < Requests

\* A request on the wire asks for at least one block, from the first on.
RequestMask ==
  \A q \in present.batch_request : \E n \in 1 .. MaxLen : q.mask = 0 .. n - 1

\* The next ids are larger than every id in use.
IdsFresh ==
  /\ clientNextId = refCounter
  /\ \A r \in DOMAIN clientOut : r < clientNextId
  /\ \A i \in SubIds : i < subNextId
  /\ present.batch_request = {} => subNextId <= refCounter * MaxLen
  /\ present.batch_request # {} => subNextId + MaxLen <= refCounter * MaxLen

\* No two events of one action are due at the same tag.
EventsDistinct ==
  \A e, f \in pending :
    e.action = f.action /\ e.time = f.time /\ e.micro = f.micro => e = f

IInv ==
  /\ TypeOK /\ NoCrash
  /\ BlockAccounting /\ DiskAccounting /\ TriggerArmed /\ ClientDispatcherAgree
  /\ PortsFollow /\ SchRefOnce /\ RequestMask /\ IdsFresh /\ EventsDistinct

-----------------------------------------------------------------------------
(* The way to the end: what Terminates rests on *)

\* The next request is booked as long as one is due, and from the last one on
\* a request is unanswered until a response has stopped the program.
StillToCome ==
  /\ refCounter < Requests => SchRefEvents # {} \/ present.sch_ref # {}
  /\ terminate /\ stop = "no" => DOMAIN clientOut # {}

\* Until it ends, the program has a reaction to run or a tag to go to: what the
\* guards of the reactions and of the runtime's steps ask for.
NeverStuck ==
  stop # "done" =>
    \/ \E t \in Triggers : Turn(t)
    \/ /\ ~crashed /\ present = Quiet
       /\ stop = "no" => \E e \in pending : \A f \in pending : NotAfter(e, f)

\* How many steps can be left, counted generously: a block takes at most 15 from
\* the scheduler's queue on, an event 7, a value on a port or an action so many.
BlockSteps == 15
EventSteps == 7
RequestSteps == BlockSteps * MaxLen + EventSteps + 1

Leads(values, n) == IF values = {} THEN 0 ELSE n

PortSteps(p) ==
  Leads(p.sch_ref, 1) + Leads(p.batch_request, RequestSteps)
  + Leads(p.storage_req_trigger, 1) + Leads(p.workstream_req, EventSteps + 1)
  + Leads(p.fetch_page, 4) + Leads(p.task_result, 3)
  + Leads(p.workstream_response, 1) + Leads(p.batch_response, 1)
IssueSteps == (RequestSteps + EventSteps) * (Requests - refCounter)
QueueSteps ==
  BlockSteps * Cardinality(DOMAIN schQ) + EventSteps * Cardinality(pending)
StopSteps == [no |-> 3, requested |-> 2, final |-> 1, done |-> 0][stop]

StepsLeft == IssueSteps + QueueSteps + PortSteps(present) + StopSteps

\* Every step brings the end nearer.
NearsEnd == [][StepsLeft' < StepsLeft]_vars
====
