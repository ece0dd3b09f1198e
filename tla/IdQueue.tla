---- MODULE IdQueue ----
(***************************************************************************)
(* The id-keyed queues of utils/queue.c as their users see them: the       *)
(* connectors of the request/response layer.  Every entry starts with a    *)
(* 32-bit id, p_enqueue keeps the entries sorted by id and refuses an id   *)
(* that is already queued, so a queue is a function from the queued ids to *)
(* the rest of each entry and its head is the entry with the least id.     *)
(* EventQueue.tla has the linked list itself.                              *)
(***************************************************************************)
EXTENDS Integers

CONSTANT IdMod     \* ids are uint32_t: 2^32 in the code

ASSUME IdModAssumption == IdMod \in Nat \ {0}

Ids == 0 .. IdMod - 1

\* memset of the queue by init_queue: no entry.
EmptyQueue == [i \in {} |-> 0]

\* The id that get_inc_next_event_id hands out n calls after id, n <= IdMod: a
\* uint32_t wraps around.  The mutants forget its width, and stick at the top.
EventIdAfterUnbounded(id, n) == id + n
EventIdAfterSaturating(id, n) == IF id + n >= IdMod THEN IdMod - 1 ELSE id + n
EventIdAfter(id, n) == IF id + n >= IdMod THEN id + n - IdMod ELSE id + n

\* p_enqueue: a queued id is refused and the queue is unchanged.
p_enqueue(q, id, data) ==
  [i \in DOMAIN q \cup {id} |-> IF i \in DOMAIN q THEN q[i] ELSE data]

\* pop_by_id: unlinks the entry (callers test for a missing one themselves).
pop_by_id(q, id) == [i \in DOMAIN q \ {id} |-> q[i]]

is_empty(q) == DOMAIN q = {}

\* The head of the sorted list; the mutant is a stack.
HeadIdLast(q) == CHOOSE i \in DOMAIN q : \A j \in DOMAIN q : j <= i
HeadId(q) == CHOOSE i \in DOMAIN q : \A j \in DOMAIN q : i <= j

pop(q) == pop_by_id(q, HeadId(q))
====
