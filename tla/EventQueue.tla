---- MODULE EventQueue ----
(***************************************************************************)
(* utils/queue.c: a linked list of entries that start with a 32-bit id,    *)
(* its size, its statistics and the id it hands out next.  The list is the *)
(* sequence of its nodes from head on; a walk along the next pointers with *)
(* to_add or to_pop is the search for a position in it.                    *)
(***************************************************************************)
EXTENDS Integers, Sequences

CONSTANTS
  IdMod,       \* ids, and the size in the statistics, are 32 bits wide
  Calls,       \* the sets of "enqueue" and "p_enqueue" that users may call
  MaxNodes,    \* bound: entries queued at a time
  MaxEntries,  \* bound: entries ever queued
  MaxTime      \* bound: logical time

ASSUME EventQueueAssumption ==
  /\ IdMod \in Nat \ {0}
  /\ Calls \subseteq SUBSET {"enqueue", "p_enqueue"}
  /\ MaxNodes \in Nat /\ MaxEntries \in Nat /\ MaxTime \in Nat

VARIABLES
  calls,          \* which of the two the users of this queue call
  list,           \* the nodes: id of the data, q_ts
  size,           \* the field size
  minima, maxima, \* q_stat: size, id, ts
  service_rtt,    \* time that the served entries spent in the queue, summed
  served,
  next_event_id,
  now,            \* lf_time_logical_elapsed
  ret,            \* what the last call returned: {id}, or {} for NULL, false
  accepted,       \* history: entries that a call took
  area            \* history: the number of queued entries, summed over time

stats == <<minima, maxima, service_rtt, served>>
queueVars == <<list, size, next_event_id, stats>>
vars == <<calls, queueVars, now, ret, accepted, area>>

Ids == 0 .. IdMod - 1
Times == 0 .. MaxTime

\* init_queue: minima.size starts at ~0.
Init ==
  /\ calls \in Calls
  /\ list = <<>> /\ size = 0
  /\ minima = [size |-> IdMod - 1, id |-> 0, ts |-> 0]
  /\ maxima = [size |-> 0, id |-> 0, ts |-> 0]
  /\ service_rtt = 0 /\ served = 0 /\ next_event_id = 0
  /\ now = 0 /\ ret = {} /\ accepted = 0 /\ area = 0

\* The positions of q that hold id.
At(q, id) == {i \in DOMAIN q : q[i].id = id}

\* The least of a set of positions.
First(S) == CHOOSE i \in S : \A j \in S : i <= j

\* q with node n put at position i.
Linked(q, i, n) ==
  [j \in 1 .. Len(q) + 1 |-> IF j < i THEN q[j] ELSE IF j = i THEN n ELSE q[j - 1]]

\* q without the node at position i.  One mutant loses the rest of the list,
\* the other unlinks the head whichever node was found.
UnlinkedWithTail(q, i) == SubSeq(q, 1, i - 1)
UnlinkedHead(q, i) == Tail(q)
Unlinked(q, i) ==
  [j \in 1 .. Len(q) - 1 |-> IF j < i THEN q[j] ELSE q[j + 1]]

\* Where the walk of p_enqueue ends: at the first node whose id is not
\* smaller, or behind the last one.  The mutant appends, as enqueue does.
StopsAtTail(q, id) == Len(q) + 1
StopsAt(q, id) == First({i \in DOMAIN q : q[i].id >= id} \cup {Len(q) + 1})

\* update_stats for a queue that now holds n entries; the mutant keeps no
\* minimum.
update_statsMaxima(n, id) ==
  /\ maxima' = IF n > maxima.size THEN [size |-> n, id |-> id, ts |-> now] ELSE maxima
  /\ UNCHANGED minima
update_stats(n, id) ==
  /\ maxima' = IF n > maxima.size THEN [size |-> n, id |-> id, ts |-> now] ELSE maxima
  /\ minima' = IF n < minima.size THEN [size |-> n, id |-> id, ts |-> now] ELSE minima

\* The time that update_service_stats adds; the mutant takes the node's stamp
\* for 0, as that of enqueue is.
RttUnstamped(node) == now
Rtt(node) == now - node.ts

\* p_enqueue: sorted by id, and refused if the walk meets the id.
p_enqueue(id) ==
  LET i == StopsAt(list, id)
  IN  IF i <= Len(list) /\ list[i].id = id
      THEN /\ ret' = {}
           /\ UNCHANGED <<list, size, stats, accepted>>
      ELSE /\ list' = Linked(list, i, [id |-> id, ts |-> now])
           /\ size' = size + 1
           /\ update_stats(size + 1, id)
           /\ ret' = {id} /\ accepted' = accepted + 1
           /\ UNCHANGED <<service_rtt, served>>

\* enqueue: at the end, with q_ts 0 and no statistics.
enqueue(id) ==
  IF At(list, id) # {}
  THEN /\ ret' = {}
       /\ UNCHANGED <<list, size, accepted>>
  ELSE /\ list' = Linked(list, Len(list) + 1, [id |-> id, ts |-> 0])
       /\ size' = size + 1
       /\ ret' = {id} /\ accepted' = accepted + 1

\* Serving the node at position i, the end of pop and of pop_by_id.
Serve(i) ==
  /\ list' = Unlinked(list, i)
  /\ service_rtt' = service_rtt + Rtt(list[i])
  /\ served' = served + 1
  /\ size' = size - 1
  /\ update_stats(size - 1, list[i].id)
  /\ ret' = {list[i].id}

Room == Len(list) < MaxNodes /\ accepted < MaxEntries

\* PRIORITY_ENQUEUE of an entry whose id another reactor gave it.
EnqueueForeign ==
  /\ "p_enqueue" \in calls /\ Room
  /\ \E id \in Ids : p_enqueue(id)
  /\ UNCHANGED <<next_event_id, now, area>>

\* PRIORITY_ENQUEUE of an entry numbered by get_inc_next_event_id.
EnqueueNext ==
  /\ "p_enqueue" \in calls /\ Room
  /\ p_enqueue(next_event_id)
  /\ next_event_id' = (next_event_id + 1) % IdMod
  /\ UNCHANGED <<now, area>>

EnqueueUnsorted ==
  /\ "enqueue" \in calls /\ Room
  /\ \E id \in Ids : enqueue(id)
  /\ UNCHANGED <<next_event_id, now, area, stats>>

\* pop_by_id: the first node on the list that has the id.
pop_by_id(id) ==
  /\ IF At(list, id) = {}
     THEN ret' = {} /\ UNCHANGED <<list, size, stats>>
     ELSE Serve(First(At(list, id)))
  /\ UNCHANGED <<next_event_id, now, accepted, area>>

\* pop trusts the field size, not the list (they agree: NothingLost).
pop ==
  /\ IF size = 0
     THEN ret' = {} /\ UNCHANGED <<list, size, stats>>
     ELSE list # <<>> /\ Serve(1)
  /\ UNCHANGED <<next_event_id, now, accepted, area>>

peek_by_id(id) ==
  /\ ret' = {list[i].id : i \in At(list, id)}
  /\ UNCHANGED <<queueVars, now, accepted, area>>

peek ==
  /\ ret' = IF size = 0 THEN {} ELSE {list[1].id}
  /\ UNCHANGED <<queueVars, now, accepted, area>>

\* Logical time goes on between the calls.
Tick ==
  /\ now < MaxTime
  /\ now' = now + 1
  /\ area' = area + Len(list)
  /\ UNCHANGED <<queueVars, ret, accepted>>

Next ==
  /\ \/ EnqueueForeign \/ EnqueueNext \/ EnqueueUnsorted
     \/ \E id \in Ids : pop_by_id(id) \/ peek_by_id(id)
     \/ pop \/ peek \/ Tick
  /\ UNCHANGED calls

Spec == Init /\ [][Next]_vars

-----------------------------------------------------------------------------
(* Properties *)

Node == [id : Ids, ts : Nat]

\* Type correctness: a list of nodes, with times that are not in the future.
TypeOK ==
  /\ list \in Seq(Node) /\ size \in Nat
  /\ \A i \in DOMAIN list : list[i].ts <= now
  /\ minima \in [size : Nat, id : Ids, ts : Nat]
  /\ maxima \in [size : Nat, id : Ids, ts : Nat]
  /\ service_rtt \in Nat /\ served \in Nat /\ next_event_id \in Ids
  /\ now \in Nat /\ ret \in SUBSET Ids /\ accepted \in Nat /\ area \in Nat

\* Every entry that was taken is served or still queued, and the field size,
\* which is_empty and pop go by, counts the nodes that the walks go by; so
\* pop never reads a NULL head.  It holds however the two ways to enqueue mix.
NothingLost == size = Len(list) /\ served + size = accepted

\* The users call p_enqueue only, as all the users in the repository do.
Prioritised == calls \subseteq {"p_enqueue"}

\* The list that p_enqueue keeps is strictly sorted, whatever is popped from
\* its middle: the entry that pop serves is the one with the least id, and no
\* id is queued twice.
Sorted == Prioritised => \A i, j \in DOMAIN list : i < j => list[i].id < list[j].id

\* The time the queued entries have waited up to now.
Waited ==
  LET w[n \in 0 .. Len(list)] == IF n = 0 THEN 0 ELSE w[n - 1] + (now - list[n].ts)
  IN  w[Len(list)]

\* Little's law, which the average that display prints relies on: the service
\* times and the time spent by the waiting entries add up to the number of
\* queued entries summed over time.  Only p_enqueue stamps its nodes.
LittlesLaw == Prioritised => service_rtt + Waited = area

\* What display prints about sizes: every size the queue has had after its
\* first entry lies between the minimum and the maximum, the minimum is 0
\* once the queue ran empty and 1 till then, and as many entries as the
\* maximum says had been taken.
StatsBracket ==
  Prioritised =>
    IF accepted = 0
    THEN minima.size = IdMod - 1 /\ maxima.size = 0
    ELSE /\ minima.size <= size /\ size <= maxima.size
         /\ minima.size \in {0, 1} /\ maxima.size <= accepted
         /\ minima.size = 1 => size > 0
         /\ minima.ts <= now /\ maxima.ts <= now

\* The list, seen as a function from ids to q_ts, is the queue that the
\* modules of the reactors use, call by call, for users of p_enqueue.
Queue ==
  INSTANCE IdQueueSpec WITH
    Data <- Times,
    q <- [id \in {list[i].id : i \in DOMAIN list} |-> list[First(At(list, id))].ts],
    ret <- ret

ImplementsIdQueue == Queue!Init /\ [][Prioritised => Queue!Next]_(Queue!vars)
====
