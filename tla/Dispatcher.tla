---- MODULE Dispatcher ----
(***************************************************************************)
(* The dispatcher reactor of base.lf and the two connectors it links.  A   *)
(* request from the client is split into one sub-request per block; the    *)
(* sub-requests wait in the scheduler's queue, leave it one per microstep  *)
(* for the worker, and come back as responses that clear the request's     *)
(* bitmask.  When the bitmask is empty the client gets the response.       *)
(***************************************************************************)
EXTENDS LFRuntime, IdQueue

VARIABLES
  reqQ,       \* client_connector.input.queue: request id -> missing blocks
  schQ,       \* worker_connector.scheduler_inst.queue: sub-request by id
  diskQ,      \* worker_connector.output.queue: sub-requests at the worker
  subNextId   \* next_event_id of the scheduler's queue

dispatcherVars == <<reqQ, schQ, diskQ, subNextId>>

\* The state the startup reaction of the dispatcher leaves behind.
DispatcherInit ==
  /\ reqQ = EmptyQueue
  /\ schQ = EmptyQueue
  /\ diskQ = EmptyQueue
  /\ subNextId = 0

\* How many set bits of mask the loop of process_batch_request meets before
\* block b: each one takes an id from the scheduler's queue.
Rank(mask, b) == Cardinality({c \in mask : c < b})

SubId(mask, b) == EventIdAfter(subNextId, Rank(mask, b))

\* The sub-requests of req in the scheduler's queue; an id that is already
\* queued is refused, and the sub-request lost.
WithSubRequests(q, req) ==
  LET ids == {SubId(req.mask, b) : b \in req.mask}
  IN  [i \in DOMAIN q \cup ids |->
         IF i \in DOMAIN q THEN q[i]
         ELSE [parent |-> req.id,
               block |-> CHOOSE b \in req.mask : SubId(req.mask, b) = i]]

\* process_batch_request: queue the request and one sub-request per block.
process_batch_request(req) ==
  /\ reqQ' = p_enqueue(reqQ, req.id, req.mask)
  /\ schQ' = WithSubRequests(schQ, req)
  /\ subNextId' = EventIdAfter(subNextId, Cardinality(req.mask))

\* connector_process_input schedules the trigger if the queue was empty
\* before the request was processed; the mutant looks at it afterwards.
WakesSchedulerLate(before, after) == is_empty(after)
WakesScheduler(before, after) == is_empty(before)

\* reaction (batch_request).
dispatcher_batch_request ==
  /\ Turn("batch_request")
  /\ \E req \in present.batch_request : process_batch_request(req)
  /\ pending' = IF WakesScheduler(schQ, schQ')
                THEN Scheduled("storage_req_trigger", 0, 0) ELSE pending
  /\ present' = [present EXCEPT !.batch_request = {}]
  /\ UNCHANGED <<tag, stop, crashed, diskQ>>

\* schedule_disk_request: the head of the scheduler's queue goes to the worker.
schedule_disk_request ==
  IF is_empty(schQ)
  THEN /\ present' = [present EXCEPT !.storage_req_trigger = {}]
       /\ UNCHANGED <<schQ, diskQ>>
  ELSE LET id == HeadId(schQ)
       IN  /\ schQ' = pop(schQ)
           /\ diskQ' = p_enqueue(diskQ, id, schQ[id])
           /\ present' = [present EXCEPT !.storage_req_trigger = {},
                                         !.workstream_req = {id}]

\* connector_process_scheduler re-arms the trigger while sub-requests wait;
\* the mutants never do, and do so on an empty queue too.
RearmsNever(q) == FALSE
RearmsAlways(q) == TRUE
Rearms(q) == ~is_empty(q)

\* reaction (storage_req_trigger): one sub-request per microstep.
dispatcher_storage_req_trigger ==
  /\ Turn("storage_req_trigger")
  /\ schedule_disk_request
  /\ pending' = IF Rearms(schQ')
                THEN Scheduled("storage_req_trigger", 0, 0) ELSE pending
  /\ UNCHANGED <<tag, stop, crashed, reqQ, subNextId>>

\* The request's bitmask when a block has been read; the mutant takes the
\* first block for the last.
WithoutAll(mask, block) == {}
Without(mask, block) == mask \ {block}

\* The answers to a block that leaves mask missing: an interim response, and
\* the response when no block is missing any more.
SendResponses(sub, mask) ==
  present' = [present EXCEPT
    !.task_result = {},
    !.workstream_response = {[id |-> sub.parent, block |-> sub.block]},
    !.batch_response = IF mask = {} THEN {sub.parent} ELSE {}]

\* process_disk_response.  The sub-request and its parent are dereferenced
\* without a test for NULL; only an empty queue is tested for.
process_disk_response(id) ==
  IF is_empty(diskQ)
  THEN /\ present' = [present EXCEPT !.task_result = {}]
       /\ UNCHANGED <<reqQ, diskQ, crashed>>
  ELSE IF id \notin DOMAIN diskQ \/ diskQ[id].parent \notin DOMAIN reqQ
  THEN /\ crashed' = TRUE
       /\ UNCHANGED <<present, reqQ, diskQ>>
  ELSE LET sub  == diskQ[id]
           mask == Without(reqQ[sub.parent], sub.block)
       IN  /\ diskQ' = pop_by_id(diskQ, id)
           /\ reqQ' = IF mask = {} THEN pop_by_id(reqQ, sub.parent)
                      ELSE [reqQ EXCEPT ![sub.parent] = mask]
           /\ SendResponses(sub, mask)
           /\ UNCHANGED crashed

\* reaction (workstream_rsp): a block has been read.
dispatcher_workstream_rsp ==
  /\ Turn("task_result")
  /\ \E id \in present.task_result : process_disk_response(id)
  /\ UNCHANGED <<tag, pending, stop, schQ, subNextId>>
====
