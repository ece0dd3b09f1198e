---- MODULE IdQueueSpec ----
(***************************************************************************)
(* What the users of utils/queue.c rely on: a queue is a function from ids *)
(* to entries, p_enqueue refuses an id that is queued, pop and peek pick   *)
(* the entry with the least id.  The operators are those of IdQueue, the   *)
(* ones the connectors of Client and Dispatcher are built from.            *)
(***************************************************************************)
EXTENDS IdQueue

CONSTANT Data    \* what an entry holds besides its id

VARIABLES
  q,      \* id -> entry
  ret     \* what the last call returned: a set of ids, empty for NULL or false

vars == <<q, ret>>

Init == q = EmptyQueue /\ ret = {}

Enqueue(id, d) ==
  /\ q' = p_enqueue(q, id, d)
  /\ ret' = {id} \ DOMAIN q

PopById(id) ==
  /\ q' = pop_by_id(q, id)
  /\ ret' = {id} \cap DOMAIN q

PeekById(id) ==
  /\ ret' = {id} \cap DOMAIN q
  /\ UNCHANGED q

Pop ==
  /\ q' = IF is_empty(q) THEN q ELSE pop(q)
  /\ ret' = IF is_empty(q) THEN {} ELSE {HeadId(q)}

Peek ==
  /\ ret' = IF is_empty(q) THEN {} ELSE {HeadId(q)}
  /\ UNCHANGED q

Next ==
  \/ \E id \in Ids, d \in Data : Enqueue(id, d)
  \/ \E id \in Ids : PopById(id) \/ PeekById(id)
  \/ Pop \/ Peek

Spec == Init /\ [][Next]_vars
====
