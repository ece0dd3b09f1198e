---- MODULE Worker ----
(***************************************************************************)
(* The worker reactor of base.lf: a disk that reads every block in the     *)
(* same time, however many reads are going on.  Only the ids in its input  *)
(* queue matter, so the queue is the set of them.                          *)
(***************************************************************************)
EXTENDS LFRuntime, IdQueue

CONSTANT ReadTime     \* reactor parameter default_read_time (1 ms)

ASSUME WorkerAssumption == ReadTime \in Nat

VARIABLE taskQ        \* worker_connector.input.queue

WorkerInit == taskQ = {}

\* enqueue_task answers with the id of the request whether or not the queue
\* took it, so the reaction never sees a failure.
enqueue_task(id) == taskQ' = taskQ \cup {id}

\* reaction (task): queue the sub-request and start its read.
worker_task ==
  /\ Turn("workstream_req")
  /\ \E id \in present.workstream_req :
       enqueue_task(id) /\ pending' = Scheduled("fetch_page", id, ReadTime)
  /\ present' = [present EXCEPT !.workstream_req = {}]
  /\ UNCHANGED <<tag, stop, crashed>>

\* The task a finished read answers; the mutant takes the newest one.
FinishedLast(id) == CHOOSE i \in taskQ : \A j \in taskQ : j <= i
Finished(id) == id

\* emulate_delay: answer the read, if its task is queued.
emulate_delay(id) ==
  IF id \in taskQ
  THEN /\ taskQ' = taskQ \ {Finished(id)}
       /\ present' = [present EXCEPT !.fetch_page = {},
                                     !.task_result = {Finished(id)}]
  ELSE /\ present' = [present EXCEPT !.fetch_page = {}]
       /\ UNCHANGED taskQ

\* reaction (fetch_page): a read has finished.
worker_fetch_page ==
  /\ Turn("fetch_page")
  /\ \E id \in present.fetch_page : emulate_delay(id)
  /\ UNCHANGED <<tag, pending, stop, crashed>>
====
