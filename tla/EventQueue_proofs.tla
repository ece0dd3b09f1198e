---- MODULE EventQueue_proofs ----
(***************************************************************************)
(* Proofs about EventQueue for every width of the ids, length of the queue *)
(* and number of calls: the list is sorted, nothing is lost, the           *)
(* statistics bracket the sizes and obey Little's law, and it implements   *)
(* IdQueueSpec.                                                            *)
(***************************************************************************)
EXTENDS EventQueue, WellFoundedInduction, TLAPS, SequenceTheorems

-----------------------------------------------------------------------------
(* Numbers *)

\* Every nonempty set of naturals has a least element.
LEMMA LeastNatural ==
  ASSUME NEW S \in SUBSET Nat, S # {}
  PROVE  \E m \in S : \A j \in S : m <= j
<1>1. PICK m \in S : \A j \in S : ~ (<<j, m>> \in OpToRel(<, Nat))
  BY NatLessThanWellFounded, WFMin, Zenon
<1>2. \A j \in S : ~ (j < m)
  BY <1>1 DEF OpToRel
<1> QED BY <1>2

\* A set that holds 0, and n + 1 with every n below N, holds all up to N.
LEMMA UpTo ==
  ASSUME NEW N \in Nat, NEW S, 0 \in S, \A n \in 0 .. N - 1 : n \in S => n + 1 \in S
  PROVE  0 .. N \subseteq S
<1> DEFINE M == (0 .. N) \ S
<1>1. SUFFICES ASSUME M # {} PROVE FALSE
  OBVIOUS
<1>2. PICK n \in M : \A j \in M : n <= j
  <2>1. M \subseteq Nat
    OBVIOUS
  <2> HIDE DEF M
  <2> QED BY <1>1, <2>1, LeastNatural
<1>3. n - 1 \in 0 .. N - 1 /\ n - 1 \in S
  BY <1>2
<1> QED BY <1>3

-----------------------------------------------------------------------------
(* Lists *)

LEMMA AsSeq ==
  ASSUME NEW S, NEW n \in Nat, NEW f \in [1 .. n -> S]
  PROVE  f \in Seq(S) /\ Len(f) = n /\ DOMAIN f = 1 .. n
<1>1. f \in Seq(S)
  BY SeqDef
<1>2. DOMAIN f = 1 .. Len(f) /\ Len(f) \in Nat
  BY <1>1, LenProperties
<1> QED BY <1>1, <1>2

LEMMA FirstIsLeast ==
  ASSUME NEW S \in SUBSET Nat, S # {}
  PROVE  First(S) \in S /\ \A j \in S : First(S) <= j
  BY LeastNatural DEF First

\* Linking a node in moves the nodes from i on to the next positions.
LEMMA LinkedNodes ==
  ASSUME NEW S, NEW q \in Seq(S), NEW i \in 1 .. Len(q) + 1, NEW n \in S
  PROVE  /\ Linked(q, i, n) \in Seq(S)
         /\ Len(Linked(q, i, n)) = Len(q) + 1
         /\ DOMAIN Linked(q, i, n) = 1 .. Len(q) + 1
         /\ \A j \in 1 .. Len(q) + 1 :
              Linked(q, i, n)[j] = IF j < i THEN q[j] ELSE IF j = i THEN n ELSE q[j - 1]
<1>1. Len(q) \in Nat /\ q \in [1 .. Len(q) -> S]
  BY LenProperties
<1>2. Linked(q, i, n) \in [1 .. Len(q) + 1 -> S]
  <2>1. ASSUME NEW j \in 1 .. Len(q) + 1
        PROVE  (IF j < i THEN q[j] ELSE IF j = i THEN n ELSE q[j - 1]) \in S
    <3>1. CASE j < i
      BY <1>1, <3>1
    <3>2. CASE j > i
      <4>1. j - 1 \in 1 .. Len(q)
        BY <1>1, <3>2
      <4> QED BY <1>1, <3>2, <4>1
    <3> QED BY <3>1, <3>2, <1>1
  <2> QED BY <2>1 DEF Linked
<1>3. Len(q) + 1 \in Nat
  BY <1>1
<1> QED BY <1>2, <1>3, AsSeq DEF Linked

\* Unlinking the node at i moves the later ones to the previous positions.
LEMMA UnlinkedNodes ==
  ASSUME NEW S, NEW q \in Seq(S), NEW i \in 1 .. Len(q)
  PROVE  /\ Unlinked(q, i) \in Seq(S)
         /\ Len(Unlinked(q, i)) = Len(q) - 1
         /\ DOMAIN Unlinked(q, i) = 1 .. Len(q) - 1
         /\ \A j \in 1 .. Len(q) - 1 :
              Unlinked(q, i)[j] = IF j < i THEN q[j] ELSE q[j + 1]
<1>1. Len(q) \in Nat /\ q \in [1 .. Len(q) -> S]
  BY LenProperties
<1>2. Unlinked(q, i) \in [1 .. Len(q) - 1 -> S]
  <2>1. ASSUME NEW j \in 1 .. Len(q) - 1
        PROVE  (IF j < i THEN q[j] ELSE q[j + 1]) \in S
    <3>1. j \in 1 .. Len(q) /\ j + 1 \in 1 .. Len(q)
      BY <1>1
    <3> QED BY <1>1, <3>1
  <2> QED BY <2>1 DEF Unlinked
<1>3. Len(q) - 1 \in Nat
  BY <1>1
<1> QED BY <1>2, <1>3, AsSeq DEF Unlinked

\* The walk of p_enqueue passes the smaller ids only.
LEMMA WalkStops ==
  ASSUME NEW q \in Seq(Node), NEW id \in Ids
  PROVE  /\ StopsAt(q, id) \in 1 .. Len(q) + 1
         /\ \A j \in 1 .. StopsAt(q, id) - 1 : q[j].id < id
         /\ StopsAt(q, id) <= Len(q) => q[StopsAt(q, id)].id >= id
<1> DEFINE S == {i \in DOMAIN q : q[i].id >= id} \cup {Len(q) + 1}
<1>1. Len(q) \in Nat /\ DOMAIN q = 1 .. Len(q) /\ q \in [1 .. Len(q) -> Node]
  BY LenProperties
<1>2. S \in SUBSET Nat /\ S # {} /\ S \subseteq 1 .. Len(q) + 1 /\ Len(q) + 1 \in S
  BY <1>1
<1>3. StopsAt(q, id) \in S /\ \A j \in S : StopsAt(q, id) <= j
  <2>1. StopsAt(q, id) = First(S)
    BY DEF StopsAt
  <2> HIDE DEF S
  <2> QED BY <1>2, <2>1, FirstIsLeast
<1>4. ASSUME NEW j \in 1 .. StopsAt(q, id) - 1 PROVE q[j].id < id
  <2>1. j \in 1 .. Len(q) /\ j \notin S
    BY <1>1, <1>2, <1>3
  <2>2. q[j].id \in Nat /\ id \in Nat
    BY <1>1, <2>1, EventQueueAssumption DEF Node, Ids
  <2> QED BY <1>1, <2>1, <2>2
<1> QED BY <1>1, <1>2, <1>3, <1>4

LEMMA FirstAt ==
  ASSUME NEW q \in Seq(Node), NEW id, At(q, id) # {}
  PROVE  /\ First(At(q, id)) \in 1 .. Len(q)
         /\ q[First(At(q, id))].id = id
<1>1. At(q, id) \in SUBSET Nat /\ At(q, id) \subseteq 1 .. Len(q)
  BY LenProperties DEF At
<1>2. First(At(q, id)) \in At(q, id)
  BY <1>1, FirstIsLeast
<1> QED BY <1>1, <1>2 DEF At

-----------------------------------------------------------------------------
(* Each step *)

LEMMA IdsType == Ids \subseteq Nat /\ IdMod - 1 \in Ids /\ 0 \in Ids
  BY EventQueueAssumption DEF Ids

LEMMA TypedList ==
  ASSUME TypeOK
  PROVE  /\ list \in Seq(Node) /\ Len(list) \in Nat /\ DOMAIN list = 1 .. Len(list)
         /\ \A i \in 1 .. Len(list) :
              list[i].id \in Ids /\ list[i].ts \in Nat /\ list[i].ts <= now
<1>1. list \in Seq(Node)
  BY DEF TypeOK
<1>2. Len(list) \in Nat /\ DOMAIN list = 1 .. Len(list) /\ list \in [1 .. Len(list) -> Node]
  BY <1>1, LenProperties
<1> QED BY <1>1, <1>2 DEF TypeOK, Node

\* A queue whose list and size grew by one node.
LEMMA Grown ==
  ASSUME TypeOK, NothingLost, NEW i \in 1 .. Len(list) + 1, NEW id \in Ids,
         NEW t \in Nat, t <= now,
         list' = Linked(list, i, [id |-> id, ts |-> t]), size' = size + 1,
         accepted' = accepted + 1, UNCHANGED <<served, now>>
  PROVE  /\ list' \in Seq(Node) /\ size' \in Nat /\ accepted' \in Nat
         /\ \A j \in DOMAIN list' : list'[j].ts <= now'
         /\ NothingLost'
<1> DEFINE n == [id |-> id, ts |-> t]
<1>1. n \in Node /\ n.ts <= now
  BY DEF Node
<1>2. list' = Linked(list, i, n)
  OBVIOUS
<1> HIDE DEF n
<1>3. /\ list' \in Seq(Node) /\ Len(list') = Len(list) + 1
      /\ DOMAIN list' = 1 .. Len(list) + 1
      /\ \A j \in 1 .. Len(list) + 1 :
           list'[j] = IF j < i THEN list[j] ELSE IF j = i THEN n ELSE list[j - 1]
  <2>1. list \in Seq(Node) /\ n \in Node
    BY <1>1, TypedList
  <2>2. Linked(list, i, n) \in Seq(Node) /\ Len(Linked(list, i, n)) = Len(list) + 1
    BY <2>1, LinkedNodes
  <2>3. DOMAIN Linked(list, i, n) = 1 .. Len(list) + 1
    BY <2>1, LinkedNodes
  <2>4. \A j \in 1 .. Len(list) + 1 :
          Linked(list, i, n)[j] = IF j < i THEN list[j] ELSE IF j = i THEN n ELSE list[j - 1]
    BY <2>1, LinkedNodes
  <2> QED BY <1>2, <2>2, <2>3, <2>4
<1>4. size \in Nat /\ accepted \in Nat /\ served \in Nat /\ now \in Nat
  BY DEF TypeOK
<1>5. ASSUME NEW j \in DOMAIN list' PROVE list'[j].ts <= now'
  <2>1. j \in 1 .. Len(list) + 1 /\ Len(list) \in Nat
    BY <1>3, TypedList
  <2>2. CASE j < i
    <3>1. j \in 1 .. Len(list) /\ list'[j] = list[j]
      BY <1>3, <2>1, <2>2
    <3> QED BY <3>1, TypedList
  <2>3. CASE j = i
    BY <1>1, <1>3, <2>1, <2>3
  <2>4. CASE j > i
    <3>1. j - 1 \in 1 .. Len(list) /\ list'[j] = list[j - 1]
      BY <1>3, <2>1, <2>4
    <3> QED BY <3>1, TypedList
  <2> QED BY <2>1, <2>2, <2>3, <2>4
<1>6. NothingLost'
  BY <1>3, <1>4 DEF NothingLost
<1> QED BY <1>3, <1>4, <1>5, <1>6

LEMMA StatsType ==
  ASSUME TypeOK, NEW n \in Nat, NEW id \in Ids, update_stats(n, id)
  PROVE  /\ minima' \in [size : Nat, id : Ids, ts : Nat]
         /\ maxima' \in [size : Nat, id : Ids, ts : Nat]
<1> DEFINE r == [size |-> n, id |-> id, ts |-> now]
           T == [size : Nat, id : Ids, ts : Nat]
<1>1. r \in T /\ minima \in T /\ maxima \in T
  BY DEF TypeOK
<1>2. (maxima' = r \/ maxima' = maxima) /\ (minima' = r \/ minima' = minima)
  BY DEF update_stats
<1> HIDE DEF r
<1> QED BY <1>1, <1>2

LEMMA PriorityEnqueue ==
  ASSUME TypeOK, NothingLost, NEW id \in Ids, p_enqueue(id), UNCHANGED <<now, area>>,
         next_event_id' \in Ids
  PROVE  TypeOK' /\ NothingLost'
<1> DEFINE i == StopsAt(list, id)
<1>1. i \in 1 .. Len(list) + 1
  BY TypedList, WalkStops
<1>2. CASE ret' = {} /\ UNCHANGED <<list, size, stats, accepted>>
  BY <1>2 DEF TypeOK, NothingLost, stats
<1>3. CASE /\ list' = Linked(list, i, [id |-> id, ts |-> now])
           /\ size' = size + 1 /\ update_stats(size + 1, id)
           /\ ret' = {id} /\ accepted' = accepted + 1
           /\ UNCHANGED <<service_rtt, served>>
  <2> HIDE DEF i
  <2>1. now \in Nat /\ size \in Nat /\ size + 1 \in Nat
    BY DEF TypeOK
  <2>2. /\ list' \in Seq(Node) /\ size' \in Nat /\ accepted' \in Nat
        /\ \A j \in DOMAIN list' : list'[j].ts <= now'
        /\ NothingLost'
    BY <1>1, <1>3, <2>1, Grown
  <2>3. /\ minima' \in [size : Nat, id : Ids, ts : Nat]
        /\ maxima' \in [size : Nat, id : Ids, ts : Nat]
    BY <1>3, <2>1, StatsType
  <2> QED BY <1>3, <2>2, <2>3 DEF TypeOK
<1> QED BY <1>2, <1>3 DEF p_enqueue

LEMMA Served ==
  ASSUME TypeOK, NothingLost, NEW i \in 1 .. Len(list), Serve(i),
         UNCHANGED <<next_event_id, now, accepted, area>>
  PROVE  TypeOK' /\ NothingLost'
<1>1. /\ list' \in Seq(Node) /\ Len(list') = Len(list) - 1
      /\ DOMAIN list' = 1 .. Len(list) - 1
      /\ \A j \in 1 .. Len(list) - 1 :
           list'[j] = IF j < i THEN list[j] ELSE list[j + 1]
  BY TypedList, UnlinkedNodes DEF Serve
<1>2. size = Len(list) /\ size \in Nat /\ size - 1 \in Nat /\ size' = size - 1
  BY TypedList DEF NothingLost, TypeOK, Serve
<1>3. list[i].id \in Ids /\ list[i].ts \in Nat /\ list[i].ts <= now
  BY TypedList
<1>4. /\ minima' \in [size : Nat, id : Ids, ts : Nat]
      /\ maxima' \in [size : Nat, id : Ids, ts : Nat]
  BY <1>2, <1>3, StatsType DEF Serve
<1>5. \A j \in DOMAIN list' : list'[j].ts <= now'
  <2> SUFFICES ASSUME NEW j \in DOMAIN list' PROVE list'[j].ts <= now
    OBVIOUS
  <2>1. j \in 1 .. Len(list) - 1
    BY <1>1
  <2>2. j \in 1 .. Len(list) /\ j + 1 \in 1 .. Len(list)
    BY <1>2, <2>1
  <2>3. list'[j] = list[j] \/ list'[j] = list[j + 1]
    BY <1>1, <2>1
  <2>4. list[j].ts <= now
    BY <2>2, TypedList
  <2>5. list[j + 1].ts <= now
    BY <2>2, TypedList
  <2> QED BY <2>3, <2>4, <2>5
<1>6. service_rtt' \in Nat /\ served' \in Nat /\ served' = served + 1 /\ ret' \in SUBSET Ids
  <2>1. served \in Nat /\ served' = served + 1
    BY DEF Serve, TypeOK
  <2>2. now \in Nat /\ service_rtt \in Nat
        /\ service_rtt' = service_rtt + (now - list[i].ts)
    BY DEF Serve, Rtt, TypeOK
  <2>3. ret' = {list[i].id}
    BY DEF Serve
  <2> QED BY <1>3, <2>1, <2>2, <2>3
<1>7. TypeOK'
  BY <1>1, <1>2, <1>4, <1>5, <1>6 DEF TypeOK
<1>8. NothingLost'
  <2>1. Len(list) \in Nat /\ served \in Nat /\ accepted' = accepted /\ served + size = accepted
    BY TypedList DEF NothingLost, TypeOK
  <2> QED BY <1>1, <1>2, <1>6, <2>1 DEF NothingLost
<1> QED BY <1>7, <1>8

\* Every pop serves a node of the list or leaves the queue as it is.
LEMMA PopServes ==
  ASSUME TypeOK, NothingLost, pop \/ \E id \in Ids : pop_by_id(id)
  PROVE  \/ \E i \in 1 .. Len(list) : Serve(i)
         \/ ret' = {} /\ UNCHANGED <<list, size, stats>>
<1>1. CASE pop
  <2>1. CASE size = 0
    BY <1>1, <2>1 DEF pop
  <2>2. CASE size # 0
    <3>1. 1 \in 1 .. Len(list)
      BY <2>2, TypedList DEF NothingLost
    <3> QED BY <1>1, <2>2, <3>1 DEF pop
  <2> QED BY <2>1, <2>2
<1>2. ASSUME NEW id \in Ids, pop_by_id(id)
      PROVE  \/ \E i \in 1 .. Len(list) : Serve(i)
             \/ ret' = {} /\ UNCHANGED <<list, size, stats>>
  <2>1. CASE At(list, id) = {}
    BY <1>2, <2>1 DEF pop_by_id
  <2>2. CASE At(list, id) # {}
    BY <1>2, <2>2, TypedList, FirstAt DEF pop_by_id
  <2> QED BY <2>1, <2>2
<1> QED BY <1>1, <1>2

LEMMA PopKeeps ==
  ASSUME NEW id \in Ids
  PROVE  pop \/ pop_by_id(id) => UNCHANGED <<next_event_id, now, accepted, area>>
  BY DEF pop, pop_by_id

LEMMA NextId == ASSUME TypeOK PROVE (next_event_id + 1) % IdMod \in Ids
  BY EventQueueAssumption DEF TypeOK, Ids

LEMMA PeekType ==
  ASSUME TypeOK, NothingLost, peek \/ \E id \in Ids : peek_by_id(id)
  PROVE  ret' \in SUBSET Ids /\ UNCHANGED <<queueVars, now, accepted, area>>
<1>1. CASE peek
  <2>1. size # 0 => 1 \in 1 .. Len(list)
    BY TypedList DEF NothingLost
  <2> QED BY <1>1, <2>1, TypedList DEF peek
<1>2. ASSUME NEW id \in Ids, peek_by_id(id)
      PROVE  ret' \in SUBSET Ids /\ UNCHANGED <<queueVars, now, accepted, area>>
  BY <1>2, TypedList DEF peek_by_id, At
<1> QED BY <1>1, <1>2

LEMMA StepKeeps == ASSUME TypeOK, NothingLost, [Next]_vars PROVE TypeOK' /\ NothingLost'
<1>1. CASE EnqueueForeign
  BY <1>1, PriorityEnqueue DEF EnqueueForeign, TypeOK
<1>2. CASE EnqueueNext
  <2>1. next_event_id \in Ids
    BY DEF TypeOK
  <2> QED BY <1>2, <2>1, NextId, PriorityEnqueue DEF EnqueueNext
<1>3. CASE EnqueueUnsorted
  <2>1. PICK id \in Ids : enqueue(id)
    BY <1>3 DEF EnqueueUnsorted
  <2>2. UNCHANGED <<next_event_id, now, area, minima, maxima, service_rtt, served>>
    BY <1>3 DEF EnqueueUnsorted, stats
  <2>3. CASE ret' = {} /\ UNCHANGED <<list, size, accepted>>
    BY <2>2, <2>3 DEF TypeOK, NothingLost
  <2>4. CASE /\ list' = Linked(list, Len(list) + 1, [id |-> id, ts |-> 0])
             /\ size' = size + 1 /\ ret' = {id} /\ accepted' = accepted + 1
    <3>1. Len(list) + 1 \in 1 .. Len(list) + 1 /\ now \in Nat /\ 0 <= now
      BY TypedList DEF TypeOK
    <3>2. /\ list' \in Seq(Node) /\ size' \in Nat /\ accepted' \in Nat
          /\ \A j \in DOMAIN list' : list'[j].ts <= now'
          /\ NothingLost'
      BY <2>2, <2>4, <3>1, Grown
    <3> QED BY <2>2, <2>4, <3>2 DEF TypeOK
  <2> QED BY <2>1, <2>3, <2>4 DEF enqueue
<1>4. CASE pop \/ \E id \in Ids : pop_by_id(id)
  <2>1. UNCHANGED <<next_event_id, now, accepted, area>>
    BY <1>4, PopKeeps, IdsType
  <2>2. CASE \E i \in 1 .. Len(list) : Serve(i)
    BY <2>1, <2>2, Served
  <2>3. CASE ret' = {} /\ UNCHANGED <<list, size, stats>>
    BY <2>1, <2>3 DEF TypeOK, NothingLost, stats
  <2> QED BY <1>4, <2>2, <2>3, PopServes
<1>5. CASE peek \/ \E id \in Ids : peek_by_id(id)
  BY <1>5, PeekType DEF queueVars, stats, TypeOK, NothingLost
<1>6. CASE Tick
  <2>1. now' \in Nat /\ now <= now' /\ area' \in Nat
    BY <1>6, TypedList DEF Tick, TypeOK
  <2>2. UNCHANGED <<list, size, next_event_id, minima, maxima, service_rtt, served, ret, accepted>>
    BY <1>6 DEF Tick, queueVars, stats
  <2>3. ASSUME NEW j \in DOMAIN list PROVE list[j].ts <= now'
    <3>1. list[j].ts \in Nat /\ list[j].ts <= now /\ now \in Nat
      BY TypedList DEF TypeOK
    <3> QED BY <2>1, <3>1
  <2> QED BY <2>1, <2>2, <2>3 DEF TypeOK, NothingLost
<1>7. CASE UNCHANGED vars
  BY <1>7 DEF vars, queueVars, stats, TypeOK, NothingLost
<1> QED BY <1>1, <1>2, <1>3, <1>4, <1>5, <1>6, <1>7 DEF Next

LEMMA InitKeeps == ASSUME Init PROVE TypeOK /\ NothingLost
<1>1. << >> \in Seq(Node) /\ Len(<< >>) = 0 /\ DOMAIN << >> = {}
  BY EmptySeq
<1>2. TypeOK
  <2>1. list = << >> /\ size = 0 /\ service_rtt = 0 /\ served = 0 /\ next_event_id = 0
        /\ now = 0 /\ ret = {} /\ accepted = 0 /\ area = 0
    BY DEF Init
  <2>2. list \in Seq(Node) /\ \A i \in DOMAIN list : list[i].ts <= now
    BY <1>1, <2>1
  <2>3. /\ minima \in [size : Nat, id : Ids, ts : Nat]
        /\ maxima \in [size : Nat, id : Ids, ts : Nat]
    BY IdsType DEF Init
  <2> QED BY <2>1, <2>2, <2>3, IdsType DEF TypeOK
<1>3. NothingLost
  BY <1>1 DEF Init, NothingLost
<1> QED BY <1>2, <1>3

\* The fields, the list and the counters have their types, and no node's stamp
\* lies in the future, however the calls mix.
THEOREM TypeCorrect == Spec => []TypeOK
<1>1. Init => TypeOK /\ NothingLost
  BY InitKeeps
<1>2. (TypeOK /\ NothingLost) /\ [Next]_vars => (TypeOK /\ NothingLost)'
  BY StepKeeps
<1> QED BY <1>1, <1>2, PTL DEF Spec

\* The field size counts the nodes and every accepted entry is served or still
\* queued, whichever of the two ways to enqueue the users mix.
THEOREM KeepsAll == Spec => []NothingLost
<1>1. Init => TypeOK /\ NothingLost
  BY InitKeeps
<1>2. (TypeOK /\ NothingLost) /\ [Next]_vars => (TypeOK /\ NothingLost)'
  BY StepKeeps
<1> QED BY <1>1, <1>2, PTL DEF Spec

-----------------------------------------------------------------------------
(* Users who only p_enqueue *)

LEMMA SortedEnqueue ==
  ASSUME Prioritised, TypeOK, Sorted, NEW id \in Ids, p_enqueue(id)
  PROVE  Sorted'
<1>1. /\ StopsAt(list, id) \in 1 .. Len(list) + 1
      /\ \A j \in 1 .. StopsAt(list, id) - 1 : list[j].id < id
      /\ StopsAt(list, id) <= Len(list) => list[StopsAt(list, id)].id >= id
  BY TypedList, WalkStops
<1>2. PICK i \in 1 .. Len(list) + 1 :
        /\ i = StopsAt(list, id)
        /\ \A j \in 1 .. i - 1 : list[j].id < id
        /\ i <= Len(list) => list[i].id >= id
  BY <1>1
<1>3. PICK n \in Node : n = [id |-> id, ts |-> now]
  BY DEF Node, TypeOK
<1>4. CASE UNCHANGED list
  BY <1>4 DEF Sorted
<1>5. CASE ~(i <= Len(list) /\ list[i].id = id) /\ list' = Linked(list, i, n)
  <2>1. list \in Seq(Node) /\ Len(list) \in Nat /\ DOMAIN list = 1 .. Len(list)
    BY TypedList
  <2>2. /\ DOMAIN list' = 1 .. Len(list) + 1
        /\ \A j \in 1 .. Len(list) + 1 :
             list'[j] = IF j < i THEN list[j] ELSE IF j = i THEN n ELSE list[j - 1]
    <3>1. DOMAIN Linked(list, i, n) = 1 .. Len(list) + 1
      BY <2>1, LinkedNodes
    <3>2. \A j \in 1 .. Len(list) + 1 :
            Linked(list, i, n)[j] = IF j < i THEN list[j] ELSE IF j = i THEN n ELSE list[j - 1]
      BY <2>1, LinkedNodes
    <3> QED BY <1>5, <3>1, <3>2
  <2>3. \A j \in 1 .. Len(list) : list[j].id \in Nat
    BY TypedList, IdsType
  <2>4. id \in Nat
    BY IdsType
  <2>5. \A j \in i .. Len(list) : id < list[j].id
    <3> SUFFICES ASSUME NEW j \in i .. Len(list) PROVE id < list[j].id
      OBVIOUS
    <3>1. i \in 1 .. Len(list) /\ j \in 1 .. Len(list)
      BY <1>2, <2>1
    <3>2. id < list[i].id
      BY <1>2, <1>5, <2>3, <2>4, <3>1
    <3>3. i < j => list[i].id < list[j].id
      BY <2>1, <3>1 DEF Sorted
    <3> QED BY <2>3, <2>4, <3>1, <3>2, <3>3
  <2>6. ASSUME NEW a \in DOMAIN list', NEW b \in DOMAIN list', a < b
        PROVE  list'[a].id < list'[b].id
    <3>1. a \in 1 .. Len(list) + 1 /\ b \in 1 .. Len(list) + 1 /\ i \in Nat
      BY <1>2, <2>1, <2>2
    <3>2. CASE b < i
      <4>1. a \in DOMAIN list /\ b \in DOMAIN list /\ list'[a] = list[a] /\ list'[b] = list[b]
        BY <1>2, <2>1, <2>2, <2>6, <3>1, <3>2
      <4> QED BY <2>6, <4>1 DEF Sorted
    <3>3. CASE b = i
      <4>1. a \in 1 .. i - 1 /\ list'[a] = list[a] /\ list'[b] = n
        BY <2>2, <2>6, <3>1, <3>3
      <4> QED BY <1>2, <1>3, <4>1
    <3>4. CASE b > i /\ a < i
      <4>1. a \in 1 .. i - 1 /\ b - 1 \in i .. Len(list)
            /\ list'[a] = list[a] /\ list'[b] = list[b - 1]
        BY <2>1, <2>2, <3>1, <3>4
      <4>2. list[a].id < id /\ id < list[b - 1].id
        BY <1>2, <2>5, <4>1
      <4>3. list[a].id \in Nat /\ list[b - 1].id \in Nat
        BY <1>2, <2>1, <2>3, <3>1, <4>1
      <4> QED BY <2>4, <4>1, <4>2, <4>3
    <3>5. CASE b > i /\ a = i
      <4>1. b - 1 \in i .. Len(list) /\ list'[a] = n /\ list'[b] = list[b - 1]
        BY <2>1, <2>2, <3>1, <3>5
      <4> QED BY <1>3, <2>5, <4>1
    <3>6. CASE a > i
      <4>1. a - 1 \in DOMAIN list /\ b - 1 \in DOMAIN list /\ a - 1 < b - 1
            /\ list'[a] = list[a - 1] /\ list'[b] = list[b - 1]
        BY <1>2, <2>1, <2>2, <2>6, <3>1, <3>6
      <4> QED BY <4>1 DEF Sorted
    <3> QED BY <2>6, <3>1, <3>2, <3>3, <3>4, <3>5, <3>6
  <2> QED BY <2>6 DEF Sorted
<1> QED BY <1>2, <1>3, <1>4, <1>5 DEF p_enqueue

LEMMA SortedServe ==
  ASSUME Prioritised, TypeOK, Sorted, NEW i \in 1 .. Len(list), Serve(i)
  PROVE  Sorted'
<1>1. list \in Seq(Node) /\ Len(list) \in Nat /\ DOMAIN list = 1 .. Len(list)
  BY TypedList
<1>2. /\ DOMAIN list' = 1 .. Len(list) - 1
      /\ \A j \in 1 .. Len(list) - 1 :
           list'[j] = IF j < i THEN list[j] ELSE list[j + 1]
  BY <1>1, UnlinkedNodes DEF Serve
<1>3. ASSUME NEW a \in DOMAIN list', NEW b \in DOMAIN list', a < b
      PROVE  list'[a].id < list'[b].id
  <2>1. a \in 1 .. Len(list) - 1 /\ b \in 1 .. Len(list) - 1
    BY <1>2
  <2>2. PICK c \in DOMAIN list, d \in DOMAIN list :
          c < d /\ list'[a] = list[c] /\ list'[b] = list[d]
    <3>1. CASE b < i
      <4>1. a \in DOMAIN list /\ b \in DOMAIN list /\ list'[a] = list[a] /\ list'[b] = list[b]
        BY <1>1, <1>2, <1>3, <2>1, <3>1
      <4> QED BY <1>3, <4>1
    <3>2. CASE b >= i /\ a < i
      <4>1. a \in DOMAIN list /\ b + 1 \in DOMAIN list /\ a < b + 1
            /\ list'[a] = list[a] /\ list'[b] = list[b + 1]
        BY <1>1, <1>2, <1>3, <2>1, <3>2
      <4> QED BY <4>1
    <3>3. CASE a >= i
      <4>1. a + 1 \in DOMAIN list /\ b + 1 \in DOMAIN list /\ a + 1 < b + 1
            /\ list'[a] = list[a + 1] /\ list'[b] = list[b + 1]
        BY <1>1, <1>2, <1>3, <2>1, <3>3
      <4> QED BY <4>1
    <3> QED BY <1>1, <2>1, <3>1, <3>2, <3>3
  <2> QED BY <2>2 DEF Sorted
<1> QED BY <1>3 DEF Sorted

LEMMA CallsFixed == ASSUME [Next]_vars PROVE Prioritised' <=> Prioritised
  BY DEF Next, vars, Prioritised

\* With p_enqueue alone, a step links an entry in, serves one, or keeps the list.
LEMMA ListSteps ==
  ASSUME Prioritised, TypeOK, NothingLost, [Next]_vars
  PROVE  \/ \E id \in Ids : p_enqueue(id) /\ UNCHANGED now
         \/ \E i \in 1 .. Len(list) : Serve(i) /\ UNCHANGED <<now, accepted>>
         \/ /\ UNCHANGED <<list, size, minima, maxima, accepted>>
            /\ now' = now \/ now' = now + 1
<1>1. CASE EnqueueForeign
  BY <1>1 DEF EnqueueForeign
<1>2. CASE EnqueueNext
  BY <1>2 DEF EnqueueNext, TypeOK
<1>3. CASE EnqueueUnsorted
  BY <1>3 DEF EnqueueUnsorted, Prioritised
<1>4. CASE pop \/ \E id \in Ids : pop_by_id(id)
  <2>1. UNCHANGED <<next_event_id, now, accepted, area>>
    BY <1>4, PopKeeps, IdsType
  <2> QED BY <1>4, <2>1, PopServes DEF stats
<1>5. CASE peek \/ \E id \in Ids : peek_by_id(id)
  BY <1>5, PeekType DEF queueVars, stats
<1>6. CASE Tick
  BY <1>6 DEF Tick, queueVars, stats
<1>7. CASE UNCHANGED vars
  BY <1>7 DEF vars, queueVars, stats
<1> QED BY <1>1, <1>2, <1>3, <1>4, <1>5, <1>6, <1>7 DEF Next

\* p_enqueue and the pops keep the ids strictly increasing along the list: pop
\* serves the least id, and no id is queued twice.
THEOREM StaysSorted == Spec => []Sorted
<1> DEFINE I == TypeOK /\ NothingLost /\ Sorted
<1>1. Init => I
  BY InitKeeps DEF Init, Sorted
<1>2. I /\ [Next]_vars => I'
  <2> SUFFICES ASSUME TypeOK, NothingLost, Sorted, [Next]_vars PROVE Sorted'
    BY StepKeeps
  <2>1. CASE Prioritised
    <3>1. UNCHANGED list => Sorted'
      BY <2>1 DEF Sorted
    <3> QED BY <2>1, <3>1, ListSteps, SortedEnqueue, SortedServe
  <2>2. CASE ~ Prioritised
    BY <2>2, CallsFixed DEF Sorted
  <2> QED BY <2>1, <2>2
<1>3. I => Sorted
  OBVIOUS
<1> QED BY <1>1, <1>2, <1>3, PTL DEF Spec

\* The extremes were not met in the future, before the first entry either.
Past == minima.ts <= now /\ maxima.ts <= now

LEMMA StatsStep ==
  ASSUME Prioritised, TypeOK, NothingLost, StatsBracket, Past,
         [Next]_vars
  PROVE  StatsBracket' /\ Past'
<1>1. /\ size \in Nat /\ accepted \in Nat /\ served \in Nat /\ now \in Nat
      /\ minima.size \in Nat /\ maxima.size \in Nat
      /\ minima.ts \in Nat /\ maxima.ts \in Nat
      /\ size = Len(list) /\ served + size = accepted /\ IdMod \in Nat \ {0}
  BY EventQueueAssumption DEF TypeOK, NothingLost
<1>2. ASSUME NEW id \in Ids, p_enqueue(id), UNCHANGED now PROVE StatsBracket' /\ Past'
  <2>1. CASE UNCHANGED <<list, size, stats, accepted>>
    BY <1>2, <2>1 DEF StatsBracket, Past, stats
  <2>2. CASE size' = size + 1 /\ update_stats(size + 1, id) /\ accepted' = accepted + 1
    <3>1. /\ maxima'.size = (IF size + 1 > maxima.size THEN size + 1 ELSE maxima.size)
          /\ maxima'.ts = (IF size + 1 > maxima.size THEN now ELSE maxima.ts)
          /\ minima'.size = (IF size + 1 < minima.size THEN size + 1 ELSE minima.size)
          /\ minima'.ts = (IF size + 1 < minima.size THEN now ELSE minima.ts)
      BY <2>2 DEF update_stats
    <3>2. Past'
      BY <1>1, <1>2, <3>1 DEF Past
    <3>3. StatsBracket'
      BY <1>1, <1>2, <2>2, <3>1, <3>2 DEF StatsBracket, Past
    <3> QED BY <3>2, <3>3
  <2> QED BY <1>2, <2>1, <2>2 DEF p_enqueue
<1>3. ASSUME NEW i \in 1 .. Len(list), Serve(i), UNCHANGED <<now, accepted>>
      PROVE  StatsBracket' /\ Past'
  <2>1. size' = size - 1 /\ update_stats(size - 1, list[i].id)
    BY <1>3 DEF Serve
  <2>2. /\ maxima'.size = (IF size - 1 > maxima.size THEN size - 1 ELSE maxima.size)
        /\ maxima'.ts = (IF size - 1 > maxima.size THEN now ELSE maxima.ts)
        /\ minima'.size = (IF size - 1 < minima.size THEN size - 1 ELSE minima.size)
        /\ minima'.ts = (IF size - 1 < minima.size THEN now ELSE minima.ts)
    BY <2>1 DEF update_stats
  <2>3. size >= 1 /\ accepted >= 1
    BY <1>1, <1>3
  <2>4. Past'
    BY <1>1, <1>3, <2>2 DEF Past
  <2>5. StatsBracket'
    <3>1. /\ minima.size <= size /\ size <= maxima.size /\ minima.size \in {0, 1}
          /\ maxima.size <= accepted
      BY <2>3 DEF StatsBracket
    <3>2. size - 1 \in Nat /\ size' = size - 1 /\ accepted' = accepted
      BY <1>1, <1>3, <2>1, <2>3
    <3>3. maxima'.size = maxima.size
      BY <1>1, <2>2, <3>1
    <3>4. /\ minima'.size \in {0, 1} /\ minima'.size <= size - 1
          /\ minima'.size = 1 => size - 1 > 0
      <4>1. minima.size = 0 \/ minima.size = 1
        BY <3>1
      <4>2. minima'.size = (IF size - 1 < minima.size THEN size - 1 ELSE minima.size)
        BY <2>2
      <4>3. size \in Nat /\ size >= 1
        BY <1>1, <2>3
      <4>4. CASE minima.size = 0
        <5>1. minima'.size = 0
          BY <4>2, <4>3, <4>4
        <5> QED BY <4>3, <5>1
      <4>5. CASE minima.size = 1
        <5>1. CASE size = 1
          BY <4>2, <4>5, <5>1
        <5>2. CASE size # 1
          BY <4>2, <4>3, <4>5, <5>2
        <5> QED BY <5>1, <5>2
      <4> QED BY <4>1, <4>4, <4>5
    <3>5. accepted' # 0 /\ size' <= maxima'.size /\ maxima'.size <= accepted'
      BY <1>1, <2>3, <3>1, <3>2, <3>3
    <3> QED BY <2>4, <3>2, <3>4, <3>5 DEF StatsBracket, Past
  <2> QED BY <2>4, <2>5
<1>4. CASE /\ UNCHANGED <<list, size, minima, maxima, accepted>>
           /\ now' = now \/ now' = now + 1
  BY <1>1, <1>4 DEF StatsBracket, Past
<1> QED BY <1>2, <1>3, <1>4, ListSteps

\* For every width of the ids, the minimum and the maximum that display prints
\* bracket the sizes the queue has had.
THEOREM StatsRight == Spec => []StatsBracket
<1> DEFINE I == TypeOK /\ NothingLost /\ StatsBracket /\ (Prioritised => Past)
<1>1. Init => I
  BY InitKeeps DEF Init, StatsBracket, Past
<1>2. I /\ [Next]_vars => I'
  <2> SUFFICES ASSUME I, [Next]_vars PROVE StatsBracket' /\ (Prioritised' => Past')
    BY StepKeeps
  <2>1. CASE Prioritised
    BY <2>1, StatsStep
  <2>2. CASE ~ Prioritised
    BY <2>2, CallsFixed DEF StatsBracket
  <2> QED BY <2>1, <2>2
<1>3. I => StatsBracket
  OBVIOUS
<1> QED BY <1>1, <1>2, <1>3, PTL DEF Spec

-----------------------------------------------------------------------------
(* Little's law *)

\* w holds the sums of the times that the first 0, 1, ... nodes of l have waited
\* at time t.
Sums(w, l, t) ==
  /\ w \in [0 .. Len(l) -> Int] /\ w[0] = 0
  /\ \A k \in 1 .. Len(l) : w[k] = w[k - 1] + (t - l[k].ts)

\* Waited, of list l at time t.
Total(l, t) ==
  LET w[n \in 0 .. Len(l)] == IF n = 0 THEN 0 ELSE w[n - 1] + (t - l[n].ts)
  IN  w[Len(l)]

LEMMA Stamps ==
  ASSUME NEW l \in Seq(Node)
  PROVE  Len(l) \in Nat /\ \A k \in 1 .. Len(l) : l[k].ts \in Nat
<1>1. Len(l) \in Nat /\ l \in [1 .. Len(l) -> Node]
  BY LenProperties
<1> QED BY <1>1 DEF Node

\* The recursion of Waited has a solution, and Waited is its last value.
LEMMA SumsExist ==
  ASSUME NEW l \in Seq(Node), NEW t \in Nat
  PROVE  \E w : Sums(w, l, t) /\ Total(l, t) = w[Len(l)]
<1> DEFINE Body(g, N) == [k \in 0 .. N |-> IF k = 0 THEN 0 ELSE g[k - 1] + (t - l[k].ts)]
           S == {N \in 0 .. Len(l) : \E g : g = Body(g, N)}
           w == CHOOSE g : g = Body(g, Len(l))
<1>1. Len(l) \in Nat /\ \A k \in 1 .. Len(l) : l[k].ts \in Nat
  BY Stamps
<1>2. 0 \in S
  <2> DEFINE g == [k \in 0 .. 0 |-> 0]
  <2>1. g = Body(g, 0)
    OBVIOUS
  <2>2. \E f : f = Body(f, 0)
    <3> HIDE DEF Body
    <3> QED BY <2>1
  <2> HIDE DEF Body, g
  <2> QED BY <1>1, <2>2
<1>3. ASSUME NEW N \in 0 .. Len(l) - 1, N \in S PROVE N + 1 \in S
  <2>1. PICK g : g = Body(g, N)
    BY <1>3
  <2> DEFINE h == [k \in 0 .. N + 1 |->
                     IF k = N + 1 THEN g[N] + (t - l[N + 1].ts) ELSE g[k]]
  <2>2. \A k \in 0 .. N : g[k] = IF k = 0 THEN 0 ELSE g[k - 1] + (t - l[k].ts)
    BY <2>1
  <2>3. \A k \in 0 .. N + 1 : h[k] = IF k = 0 THEN 0 ELSE h[k - 1] + (t - l[k].ts)
    BY <1>1, <2>2
  <2>4. h = Body(h, N + 1)
    BY <2>3
  <2>5. \E f : f = Body(f, N + 1)
    <3> HIDE DEF Body
    <3> QED BY <2>4
  <2> HIDE DEF Body, h
  <2> QED BY <1>1, <2>5
<1>4. Len(l) \in S
  <2>1. Len(l) \in Nat
    BY <1>1
  <2> HIDE DEF S
  <2>2. 0 .. Len(l) \subseteq S
    BY <1>2, <1>3, <2>1, UpTo
  <2> QED BY <2>1, <2>2
<1>5. w = Body(w, Len(l))
  BY <1>4
<1>6. Total(l, t) = w[Len(l)]
  BY DEF Total
<1> HIDE DEF w
<1>7. /\ w[0] = 0
      /\ \A k \in 1 .. Len(l) : w[k] = w[k - 1] + (t - l[k].ts)
  BY <1>1, <1>5
<1>8. w \in [0 .. Len(l) -> Int]
  <2> DEFINE I == {k \in 0 .. Len(l) : w[k] \in Int}
  <2>1. 0 \in I
    BY <1>1, <1>7
  <2>2. ASSUME NEW k \in 0 .. Len(l) - 1, k \in I PROVE k + 1 \in I
    <3>1. k + 1 \in 1 .. Len(l) /\ (k + 1) - 1 = k
      BY <1>1
    <3>2. w[k + 1] = w[k] + (t - l[k + 1].ts)
      BY <1>7, <3>1
    <3> QED BY <1>1, <2>2, <3>1, <3>2
  <2>3. 0 .. Len(l) \subseteq I
    <3> HIDE DEF I
    <3> QED BY <1>1, <2>1, <2>2, UpTo
  <2>4. \A k \in 0 .. Len(l) : w[k] \in Int
    BY <2>3
  <2>5. w = [k \in 0 .. Len(l) |-> w[k]]
    BY <1>5
  <2> QED BY <2>4, <2>5
<1> QED BY <1>6, <1>7, <1>8 DEF Sums

\* A new node adds the time since its stamp.
LEMMA LinkedTotal ==
  ASSUME NEW l \in Seq(Node), NEW i \in 1 .. Len(l) + 1, NEW n \in Node, NEW t \in Nat
  PROVE  Total(Linked(l, i, n), t) = Total(l, t) + (t - n.ts)
<1> DEFINE m == Linked(l, i, n)
<1>1. /\ m \in Seq(Node) /\ Len(m) = Len(l) + 1
      /\ \A j \in 1 .. Len(l) + 1 :
           m[j] = IF j < i THEN l[j] ELSE IF j = i THEN n ELSE l[j - 1]
  BY LinkedNodes
<1> HIDE DEF m
<1>2. PICK w : Sums(w, l, t) /\ Total(l, t) = w[Len(l)]
  BY SumsExist
<1>3. PICK v : Sums(v, m, t) /\ Total(m, t) = v[Len(m)]
  BY <1>1, SumsExist
<1>4. /\ Len(l) \in Nat /\ n.ts \in Nat
      /\ \A k \in 1 .. Len(l) : l[k].ts \in Nat
  BY Stamps DEF Node
<1>5. /\ w[0] = 0 /\ v[0] = 0
      /\ \A k \in 0 .. Len(l) : w[k] \in Int
      /\ \A k \in 0 .. Len(l) + 1 : v[k] \in Int
      /\ \A k \in 1 .. Len(l) : w[k] = w[k - 1] + (t - l[k].ts)
      /\ \A k \in 1 .. Len(l) + 1 : v[k] = v[k - 1] + (t - m[k].ts)
  BY <1>1, <1>2, <1>3 DEF Sums
<1> DEFINE S == {k \in 0 .. Len(l) + 1 :
                   v[k] = IF k < i THEN w[k] ELSE w[k - 1] + (t - n.ts)}
<1>6. 0 \in S
  BY <1>4, <1>5
<1>7. ASSUME NEW k \in 0 .. (Len(l) + 1) - 1, k \in S PROVE k + 1 \in S
  <2>1. k + 1 \in 1 .. Len(l) + 1 /\ (k + 1) - 1 = k /\ k \in Nat
    BY <1>4
  <2>2. v[k + 1] = v[k] + (t - m[k + 1].ts)
    BY <1>5, <2>1
  <2>3. v[k] = IF k < i THEN w[k] ELSE w[k - 1] + (t - n.ts)
    BY <1>7
  <2>4. CASE k + 1 < i
    <3>1. k + 1 \in 1 .. Len(l) /\ m[k + 1] = l[k + 1]
      BY <1>1, <1>4, <2>1, <2>4
    <3>2. w[k + 1] = w[k] + (t - l[k + 1].ts)
      BY <1>5, <2>1, <3>1
    <3> QED BY <2>1, <2>2, <2>3, <2>4, <3>1, <3>2
  <2>5. CASE k + 1 = i
    <3>1. m[k + 1] = n
      BY <1>1, <2>1, <2>5
    <3> QED BY <2>1, <2>2, <2>3, <2>5, <3>1
  <2>6. CASE k + 1 > i
    <3>1. k \in 1 .. Len(l) /\ m[k + 1] = l[k] /\ ~(k < i)
      BY <1>1, <1>4, <2>1, <2>6
    <3>2. w[k] = w[k - 1] + (t - l[k].ts)
      BY <1>5, <3>1
    <3>3. v[k + 1] = (w[k - 1] + (t - n.ts)) + (t - l[k].ts)
      BY <2>2, <2>3, <3>1
    <3>4. w[k - 1] \in Int /\ l[k].ts \in Nat
      BY <1>4, <1>5, <3>1
    <3>5. v[k + 1] = w[k] + (t - n.ts)
      <4>0. w[k - 1] \in Int /\ t - n.ts \in Int /\ t - l[k].ts \in Int
        BY <1>4, <3>4
      <4>1. PICK x \in Int, y \in Int, z \in Int :
              x = w[k - 1] /\ y = t - n.ts /\ z = t - l[k].ts
        BY <4>0
      <4>2. (x + y) + z = (x + z) + y
        OBVIOUS
      <4> QED BY <3>2, <3>3, <4>1, <4>2
    <3> QED BY <2>1, <2>6, <3>5
  <2> QED BY <2>1, <2>4, <2>5, <2>6
<1>8. Len(l) + 1 \in S
  <2> HIDE DEF S
  <2>1. Len(l) + 1 \in Nat
    BY <1>4
  <2>2. 0 .. Len(l) + 1 \subseteq S
    BY <1>6, <1>7, <2>1, UpTo
  <2> QED BY <2>1, <2>2
<1>9. v[Len(l) + 1] = w[Len(l)] + (t - n.ts)
  BY <1>4, <1>8
<1> QED BY <1>1, <1>2, <1>3, <1>9 DEF m

\* A removed node takes the time since its stamp with it.
LEMMA UnlinkedTotal ==
  ASSUME NEW l \in Seq(Node), NEW i \in 1 .. Len(l), NEW t \in Nat
  PROVE  Total(Unlinked(l, i), t) = Total(l, t) - (t - l[i].ts)
<1> DEFINE m == Unlinked(l, i)
<1>1. /\ m \in Seq(Node) /\ Len(m) = Len(l) - 1
      /\ \A j \in 1 .. Len(l) - 1 : m[j] = IF j < i THEN l[j] ELSE l[j + 1]
  BY UnlinkedNodes
<1> HIDE DEF m
<1>2. PICK w : Sums(w, l, t) /\ Total(l, t) = w[Len(l)]
  BY SumsExist
<1>3. PICK v : Sums(v, m, t) /\ Total(m, t) = v[Len(m)]
  BY <1>1, SumsExist
<1>4. Len(l) \in Nat /\ Len(l) - 1 \in Nat /\ \A k \in 1 .. Len(l) : l[k].ts \in Nat
  BY Stamps
<1>5. /\ w[0] = 0 /\ v[0] = 0
      /\ \A k \in 0 .. Len(l) : w[k] \in Int
      /\ \A k \in 0 .. Len(l) - 1 : v[k] \in Int
      /\ \A k \in 1 .. Len(l) : w[k] = w[k - 1] + (t - l[k].ts)
      /\ \A k \in 1 .. Len(l) - 1 : v[k] = v[k - 1] + (t - m[k].ts)
  BY <1>1, <1>2, <1>3 DEF Sums
<1> DEFINE S == {k \in 0 .. Len(l) - 1 :
                   v[k] = IF k < i THEN w[k] ELSE w[k + 1] - (t - l[i].ts)}
<1>6. 0 \in S
  BY <1>4, <1>5
<1>7. ASSUME NEW k \in 0 .. (Len(l) - 1) - 1, k \in S PROVE k + 1 \in S
  <2>1. k + 1 \in 1 .. Len(l) - 1 /\ (k + 1) - 1 = k /\ k \in Nat /\ k + 2 \in 1 .. Len(l)
        /\ (k + 2) - 1 = k + 1 /\ (k + 1) + 1 = k + 2 /\ k + 1 \in 1 .. Len(l)
    BY <1>4
  <2>2. v[k + 1] = v[k] + (t - m[k + 1].ts)
    BY <1>5, <2>1
  <2>3. v[k] = IF k < i THEN w[k] ELSE w[k + 1] - (t - l[i].ts)
    BY <1>7
  <2>4. /\ w[k + 1] = w[k] + (t - l[k + 1].ts)
        /\ w[k + 2] = w[k + 1] + (t - l[k + 2].ts)
    <3>1. w[k + 1] = w[(k + 1) - 1] + (t - l[k + 1].ts)
      BY <1>5, <2>1
    <3>2. w[k + 2] = w[(k + 2) - 1] + (t - l[k + 2].ts)
      BY <1>5, <2>1
    <3> QED BY <2>1, <3>1, <3>2
  <2>5. /\ w[k] \in Int /\ w[k + 1] \in Int /\ w[k + 2] \in Int
        /\ l[k + 1].ts \in Nat /\ l[k + 2].ts \in Nat /\ l[i].ts \in Nat
    BY <1>4, <1>5, <2>1
  <2>5a. w[k + 2] - (t - l[i].ts) = (w[k + 1] - (t - l[i].ts)) + (t - l[k + 2].ts)
    <3>1. PICK x \in Int, y \in Int, z \in Int :
            x = w[k + 1] /\ y = l[k + 2].ts /\ z = l[i].ts
      BY <2>5
    <3>2. (x + (t - y)) - (t - z) = (x - (t - z)) + (t - y)
      OBVIOUS
    <3> QED BY <2>4, <3>1, <3>2
  <2>6. m[k + 1] = IF k + 1 < i THEN l[k + 1] ELSE l[k + 2]
    BY <1>1, <2>1
  <2>7. v[k + 1] = IF k + 1 < i THEN w[k + 1] ELSE w[k + 2] - (t - l[i].ts)
    <3>1. CASE k + 1 < i
      BY <2>1, <2>2, <2>3, <2>4, <2>6, <3>1
    <3>2. CASE k + 1 = i
      <4>1. v[k + 1] = w[k] + (t - l[k + 2].ts)
        BY <2>1, <2>2, <2>3, <2>6, <3>2
      <4>2. w[k] = w[k + 1] - (t - l[i].ts)
        <5>1. w[k + 1] = w[k] + (t - l[i].ts)
          BY <2>4, <3>2
        <5>2. PICK x \in Int, y \in Int, z \in Int :
                x = w[k] /\ y = w[k + 1] /\ z = t - l[i].ts
          BY <2>5
        <5>3. y = x + z => x = y - z
          OBVIOUS
        <5> QED BY <5>1, <5>2, <5>3
      <4> QED BY <2>1, <2>5a, <3>2, <4>1, <4>2
    <3>3. CASE k + 1 > i
      <4>1. v[k + 1] = (w[k + 1] - (t - l[i].ts)) + (t - l[k + 2].ts)
        BY <2>1, <2>2, <2>3, <2>6, <3>3
      <4> QED BY <2>1, <2>5a, <3>3, <4>1
    <3> QED BY <2>1, <3>1, <3>2, <3>3
  <2> QED BY <2>1, <2>7
<1>8. Len(l) - 1 \in S
  <2>1. Len(l) - 1 \in Nat
    BY <1>4
  <2> HIDE DEF S
  <2>2. 0 .. Len(l) - 1 \subseteq S
    BY <1>6, <1>7, <2>1, UpTo
  <2> QED BY <2>1, <2>2
<1>9. v[Len(l) - 1] = w[Len(l)] - (t - l[i].ts)
  <2>1. CASE Len(l) - 1 < i
    <3>1. i = Len(l) /\ v[Len(l) - 1] = w[Len(l) - 1]
      BY <1>4, <1>8, <2>1
    <3>2. w[Len(l)] = w[Len(l) - 1] + (t - l[Len(l)].ts)
      BY <1>4, <1>5
    <3>3. w[Len(l) - 1] \in Int /\ l[Len(l)].ts \in Nat
      BY <1>4, <1>5
    <3> QED BY <3>1, <3>2, <3>3
  <2>2. CASE ~(Len(l) - 1 < i)
    <3>1. (Len(l) - 1) + 1 = Len(l)
      BY <1>4
    <3> QED BY <1>8, <2>2, <3>1
  <2> QED BY <2>1, <2>2
<1> QED BY <1>1, <1>2, <1>3, <1>9 DEF m

\* A tick adds 1 for every node.
LEMMA LaterTotal ==
  ASSUME NEW l \in Seq(Node), NEW t \in Nat
  PROVE  Total(l, t + 1) = Total(l, t) + Len(l)
<1>1. PICK w : Sums(w, l, t) /\ Total(l, t) = w[Len(l)]
  BY SumsExist
<1>2. PICK v : Sums(v, l, t + 1) /\ Total(l, t + 1) = v[Len(l)]
  <2>1. t + 1 \in Nat
    OBVIOUS
  <2> QED BY <2>1, SumsExist
<1>3. Len(l) \in Nat /\ \A k \in 1 .. Len(l) : l[k].ts \in Nat
  BY Stamps
<1>4. /\ w[0] = 0 /\ v[0] = 0
      /\ \A k \in 0 .. Len(l) : w[k] \in Int /\ v[k] \in Int
      /\ \A k \in 1 .. Len(l) : w[k] = w[k - 1] + (t - l[k].ts)
      /\ \A k \in 1 .. Len(l) : v[k] = v[k - 1] + ((t + 1) - l[k].ts)
  BY <1>1, <1>2 DEF Sums
<1> DEFINE S == {k \in 0 .. Len(l) : v[k] = w[k] + k}
<1>5. 0 \in S
  BY <1>3, <1>4
<1>6. ASSUME NEW k \in 0 .. Len(l) - 1, k \in S PROVE k + 1 \in S
  <2>1. k + 1 \in 1 .. Len(l) /\ (k + 1) - 1 = k /\ k \in 0 .. Len(l)
    BY <1>3
  <2>2. w[k + 1] = w[k] + (t - l[k + 1].ts) /\ v[k + 1] = v[k] + ((t + 1) - l[k + 1].ts)
    BY <1>4, <2>1
  <2>3. v[k] = w[k] + k /\ w[k] \in Int /\ l[k + 1].ts \in Nat
    BY <1>3, <1>4, <1>6, <2>1
  <2>4. v[k + 1] = w[k + 1] + (k + 1)
    <3>1. PICK x \in Int, y \in Int : x = w[k] /\ y = l[k + 1].ts
      BY <2>3
    <3>2. (x + k) + ((t + 1) - y) = (x + (t - y)) + (k + 1)
      OBVIOUS
    <3> QED BY <2>2, <2>3, <3>1, <3>2
  <2> QED BY <2>1, <2>4
<1>7. Len(l) \in S
  <2>1. Len(l) \in Nat
    BY <1>3
  <2> HIDE DEF S
  <2>2. 0 .. Len(l) \subseteq S
    BY <1>5, <1>6, <2>1, UpTo
  <2> QED BY <2>1, <2>2
<1> QED BY <1>1, <1>2, <1>7

LEMMA TotalType ==
  ASSUME NEW l \in Seq(Node), NEW t \in Nat
  PROVE  Total(l, t) \in Int
<1>1. PICK w : Sums(w, l, t) /\ Total(l, t) = w[Len(l)]
  BY SumsExist
<1>2. Len(l) \in 0 .. Len(l)
  BY Stamps
<1> QED BY <1>1, <1>2 DEF Sums

LEMMA WaitedIs == Waited = Total(list, now) /\ Waited' = Total(list', now')
  BY DEF Waited, Total

LEMMA LittleStep ==
  ASSUME Prioritised, TypeOK, NothingLost, LittlesLaw, [Next]_vars
  PROVE  LittlesLaw'
<1>1. list \in Seq(Node) /\ now \in Nat /\ service_rtt \in Nat /\ area \in Nat
  BY DEF TypeOK
<1>2. service_rtt + Total(list, now) = area /\ Total(list, now) \in Int
  BY <1>1, WaitedIs, TotalType DEF LittlesLaw
<1>3. SUFFICES service_rtt' + Total(list', now') = area'
  BY WaitedIs DEF LittlesLaw
<1>4. ASSUME NEW id \in Ids, p_enqueue(id), UNCHANGED <<now, area>>
      PROVE  service_rtt' + Total(list', now') = area'
  <2>1. CASE UNCHANGED <<list, stats>>
    BY <1>2, <1>4, <2>1 DEF stats
  <2>2. CASE /\ list' = Linked(list, StopsAt(list, id), [id |-> id, ts |-> now])
             /\ UNCHANGED service_rtt
    <3>1. PICK n \in Node : n = [id |-> id, ts |-> now]
      BY <1>1 DEF Node
    <3>2. StopsAt(list, id) \in 1 .. Len(list) + 1
      BY <1>1, WalkStops
    <3>3. Total(list', now) = Total(list, now) + (now - n.ts) /\ n.ts = now
      BY <1>1, <2>2, <3>1, <3>2, LinkedTotal
    <3> QED BY <1>1, <1>2, <1>4, <2>2, <3>3
  <2> QED BY <1>4, <2>1, <2>2 DEF p_enqueue
<1>5. ASSUME NEW i \in 1 .. Len(list), Serve(i), UNCHANGED <<now, area>>
      PROVE  service_rtt' + Total(list', now') = area'
  <2>1. list' = Unlinked(list, i) /\ service_rtt' = service_rtt + (now - list[i].ts)
    BY <1>5 DEF Serve, Rtt
  <2>2. Total(list', now) = Total(list, now) - (now - list[i].ts) /\ list[i].ts \in Nat
    BY <1>1, <2>1, UnlinkedTotal, Stamps
  <2> QED BY <1>1, <1>2, <1>5, <2>1, <2>2
<1>6. CASE EnqueueForeign
  BY <1>4, <1>6 DEF EnqueueForeign
<1>7. CASE EnqueueNext
  BY <1>4, <1>7 DEF EnqueueNext, TypeOK
<1>8. CASE EnqueueUnsorted
  BY <1>8 DEF EnqueueUnsorted, Prioritised
<1>9. CASE pop \/ \E id \in Ids : pop_by_id(id)
  <2>1. UNCHANGED <<next_event_id, now, accepted, area>>
    BY <1>9, PopKeeps, IdsType
  <2>2. CASE ret' = {} /\ UNCHANGED <<list, size, stats>>
    BY <1>2, <2>1, <2>2 DEF stats
  <2> QED BY <1>5, <1>9, <2>1, <2>2, PopServes
<1>10. CASE peek \/ \E id \in Ids : peek_by_id(id)
  BY <1>2, <1>10, PeekType DEF queueVars, stats
<1>11. CASE Tick
  <2>1. /\ list' = list /\ service_rtt' = service_rtt
        /\ now' = now + 1 /\ area' = area + Len(list)
    BY <1>11 DEF Tick, queueVars, stats
  <2>2. Total(list', now') = Total(list, now) + Len(list) /\ Len(list) \in Nat
    BY <1>1, <2>1, LaterTotal, Stamps
  <2> QED BY <1>1, <1>2, <2>1, <2>2
<1>12. CASE UNCHANGED vars
  BY <1>2, <1>12 DEF vars, queueVars, stats
<1> QED BY <1>6, <1>7, <1>8, <1>9, <1>10, <1>11, <1>12 DEF Next

\* With p_enqueue alone, which stamps its nodes, the service times and the times
\* waited so far add up to the queue length summed over time.
THEOREM LittlesLawHolds == Spec => []LittlesLaw
<1> DEFINE I == TypeOK /\ NothingLost /\ LittlesLaw
<1>1. Init => I
  <2> SUFFICES ASSUME Init PROVE I
    OBVIOUS
  <2>1. list \in Seq(Node) /\ Len(list) = 0 /\ now \in Nat /\ service_rtt = 0 /\ area = 0
    BY InitKeeps, EmptySeq DEF Init, TypeOK
  <2>2. PICK w : Sums(w, list, now) /\ Total(list, now) = w[Len(list)]
    BY <2>1, SumsExist
  <2>3. Waited = 0
    BY <2>1, <2>2, WaitedIs DEF Sums
  <2> QED BY <2>1, <2>3, InitKeeps DEF LittlesLaw
<1>2. I /\ [Next]_vars => I'
  <2> SUFFICES ASSUME I, [Next]_vars PROVE LittlesLaw'
    BY StepKeeps
  <2>1. CASE Prioritised
    BY <2>1, LittleStep
  <2>2. CASE ~ Prioritised
    BY <2>2, CallsFixed DEF LittlesLaw
  <2> QED BY <2>1, <2>2
<1>3. I => LittlesLaw
  OBVIOUS
<1> QED BY <1>1, <1>2, <1>3, PTL DEF Spec

-----------------------------------------------------------------------------
(* The sorted list implements the queue of ids *)

Distinct(l) == \A i, j \in DOMAIN l : l[i].id = l[j].id => i = j

IdsOf(l) == {l[i].id : i \in DOMAIN l}

\* The function from ids to stamps that a list stands for.
AsQueue(l) == [id \in IdsOf(l) |-> l[First(At(l, id))].ts]

LEMMA AsQueueAt ==
  ASSUME NEW l \in Seq(Node), Distinct(l), NEW i \in DOMAIN l
  PROVE  l[i].id \in IdsOf(l) /\ AsQueue(l)[l[i].id] = l[i].ts
<1>1. At(l, l[i].id) = {i}
  BY DEF At, Distinct
<1>2. i \in Nat
  BY LenProperties
<1>3. First({i}) = i
  <2>1. {i} \in SUBSET Nat /\ {i} # {}
    BY <1>2
  <2> QED BY <2>1, FirstIsLeast, Zenon
<1>4. l[i].id \in IdsOf(l)
  BY DEF IdsOf
<1> QED BY <1>1, <1>3, <1>4 DEF AsQueue

LEMMA NodeAt ==
  ASSUME NEW l \in Seq(Node), NEW i \in DOMAIN l
  PROVE  /\ i \in 1 .. Len(l) /\ i \in Nat /\ Len(l) \in Nat
         /\ l[i] \in Node /\ l[i].id \in Nat /\ l[i].id \in Ids
<1>1. l \in [1 .. Len(l) -> Node] /\ Len(l) \in Nat /\ DOMAIN l = 1 .. Len(l)
  BY LenProperties
<1>2. l[i] \in Node
  BY <1>1
<1>3. l[i].id \in Ids
  BY <1>2 DEF Node
<1>4. l[i].id \in Nat
  BY <1>3, IdsType
<1> QED BY <1>1, <1>2, <1>3, <1>4

LEMMA SortedDistinct ==
  ASSUME NEW l \in Seq(Node), \A i, j \in DOMAIN l : i < j => l[i].id < l[j].id
  PROVE  Distinct(l)
<1> SUFFICES ASSUME NEW i \in DOMAIN l, NEW j \in DOMAIN l, l[i].id = l[j].id
             PROVE  i = j
  BY DEF Distinct
<1>1. i \in Nat /\ j \in Nat /\ l[i].id \in Nat /\ l[j].id \in Nat
  BY NodeAt
<1>2. (i < j => l[i].id < l[j].id) /\ (j < i => l[j].id < l[i].id)
  OBVIOUS
<1> QED BY <1>1, <1>2

\* A list that has the nodes of another one and one more.
LEMMA QueueGrown ==
  ASSUME NEW l \in Seq(Node), NEW m \in Seq(Node), NEW n \in Node,
         Distinct(l), Distinct(m), n.id \notin IdsOf(l),
         \A j \in DOMAIN l : \E k \in DOMAIN m : m[k] = l[j],
         \E k \in DOMAIN m : m[k] = n,
         \A k \in DOMAIN m : m[k] = n \/ \E j \in DOMAIN l : m[k] = l[j]
  PROVE  AsQueue(m) = Queue!p_enqueue(AsQueue(l), n.id, n.ts)
<1>1. IdsOf(m) = IdsOf(l) \cup {n.id}
  <2>1. ASSUME NEW k \in DOMAIN m PROVE m[k].id \in IdsOf(l) \cup {n.id}
    <3>1. CASE m[k] = n
      BY <3>1
    <3>2. CASE \E j \in DOMAIN l : m[k] = l[j]
      BY <3>2 DEF IdsOf
    <3> QED BY <3>1, <3>2
  <2>2. ASSUME NEW j \in DOMAIN l PROVE l[j].id \in IdsOf(m)
    <3>1. PICK k \in DOMAIN m : m[k] = l[j]
      OBVIOUS
    <3> QED BY <3>1 DEF IdsOf
  <2>3. n.id \in IdsOf(m)
    <3>1. PICK k \in DOMAIN m : m[k] = n
      OBVIOUS
    <3> QED BY <3>1 DEF IdsOf
  <2>4. IdsOf(m) \subseteq IdsOf(l) \cup {n.id}
    BY <2>1 DEF IdsOf
  <2>5. IdsOf(l) \subseteq IdsOf(m)
    BY <2>2 DEF IdsOf
  <2> QED BY <2>3, <2>4, <2>5
<1>2. DOMAIN AsQueue(l) = IdsOf(l) /\ DOMAIN AsQueue(m) = IdsOf(m)
  BY DEF AsQueue
<1>3. ASSUME NEW x \in IdsOf(l) PROVE AsQueue(m)[x] = AsQueue(l)[x]
  <2>1. PICK j \in DOMAIN l : x = l[j].id
    BY DEF IdsOf
  <2>2. PICK k \in DOMAIN m : m[k] = l[j]
    OBVIOUS
  <2>3. AsQueue(l)[x] = l[j].ts
    BY <2>1, AsQueueAt
  <2>4. AsQueue(m)[m[k].id] = m[k].ts
    BY AsQueueAt
  <2>5. m[k].id = x /\ m[k].ts = l[j].ts
    BY <2>1, <2>2
  <2> QED BY <2>3, <2>4, <2>5
<1>4. AsQueue(m)[n.id] = n.ts
  <2>1. PICK k \in DOMAIN m : m[k] = n
    OBVIOUS
  <2>2. AsQueue(m)[m[k].id] = m[k].ts
    BY AsQueueAt
  <2> QED BY <2>1, <2>2
<1>5. AsQueue(m) = [x \in IdsOf(m) |-> AsQueue(m)[x]]
  BY DEF AsQueue
<1>6. \A x \in IdsOf(m) : AsQueue(m)[x] = IF x \in IdsOf(l) THEN AsQueue(l)[x] ELSE n.ts
  BY <1>1, <1>3, <1>4
<1>7. Queue!p_enqueue(AsQueue(l), n.id, n.ts) =
        [x \in IdsOf(m) |-> IF x \in IdsOf(l) THEN AsQueue(l)[x] ELSE n.ts]
  BY <1>1, <1>2 DEF Queue!p_enqueue
<1> QED BY <1>5, <1>6, <1>7

\* A list that has the nodes of another one but one.
LEMMA QueueShrunk ==
  ASSUME NEW l \in Seq(Node), NEW m \in Seq(Node), NEW i \in DOMAIN l,
         Distinct(l), Distinct(m),
         \A j \in DOMAIN l : j # i => \E k \in DOMAIN m : m[k] = l[j],
         \A k \in DOMAIN m : \E j \in DOMAIN l : j # i /\ m[k] = l[j]
  PROVE  AsQueue(m) = Queue!pop_by_id(AsQueue(l), l[i].id)
<1>1. IdsOf(m) = IdsOf(l) \ {l[i].id}
  <2>1. ASSUME NEW x \in IdsOf(m) PROVE x \in IdsOf(l) \ {l[i].id}
    <3>1. PICK k \in DOMAIN m : x = m[k].id
      BY DEF IdsOf
    <3>2. PICK j \in DOMAIN l : j # i /\ m[k] = l[j]
      OBVIOUS
    <3>3. l[j].id # l[i].id
      BY <3>2 DEF Distinct
    <3> QED BY <3>1, <3>2, <3>3 DEF IdsOf
  <2>2. ASSUME NEW x \in IdsOf(l), x # l[i].id PROVE x \in IdsOf(m)
    <3>1. PICK j \in DOMAIN l : x = l[j].id
      BY DEF IdsOf
    <3>2. PICK k \in DOMAIN m : m[k] = l[j]
      BY <2>2, <3>1
    <3> QED BY <3>1, <3>2 DEF IdsOf
  <2> QED BY <2>1, <2>2
<1>2. DOMAIN AsQueue(l) = IdsOf(l) /\ DOMAIN AsQueue(m) = IdsOf(m)
  BY DEF AsQueue
<1>3. ASSUME NEW x \in IdsOf(m) PROVE AsQueue(m)[x] = AsQueue(l)[x]
  <2>1. PICK k \in DOMAIN m : x = m[k].id
    BY DEF IdsOf
  <2>2. PICK j \in DOMAIN l : m[k] = l[j]
    OBVIOUS
  <2>3. AsQueue(l)[x] = l[j].ts
    BY <2>1, <2>2, AsQueueAt
  <2>4. AsQueue(m)[x] = m[k].ts
    BY <2>1, AsQueueAt
  <2> QED BY <2>2, <2>3, <2>4
<1>4. AsQueue(m) = [x \in IdsOf(m) |-> AsQueue(m)[x]]
  BY DEF AsQueue
<1>5. Queue!pop_by_id(AsQueue(l), l[i].id) = [x \in IdsOf(m) |-> AsQueue(l)[x]]
  BY <1>1, <1>2 DEF Queue!pop_by_id
<1> QED BY <1>3, <1>4, <1>5

LEMMA LinkedQueue ==
  ASSUME NEW l \in Seq(Node), NEW i \in 1 .. Len(l) + 1, NEW n \in Node,
         Distinct(l), n.id \notin IdsOf(l), Distinct(Linked(l, i, n))
  PROVE  AsQueue(Linked(l, i, n)) = Queue!p_enqueue(AsQueue(l), n.id, n.ts)
<1> DEFINE m == Linked(l, i, n)
<1>1. m \in Seq(Node)
  BY LinkedNodes
<1>2. DOMAIN m = 1 .. Len(l) + 1
  BY LinkedNodes
<1>3. \A j \in 1 .. Len(l) + 1 : m[j] = IF j < i THEN l[j] ELSE IF j = i THEN n ELSE l[j - 1]
  BY LinkedNodes
<1>4. Distinct(m)
  OBVIOUS
<1> HIDE DEF m
<1>5. DOMAIN l = 1 .. Len(l) /\ Len(l) \in Nat
  BY LenProperties
<1>6. ASSUME NEW j \in DOMAIN l PROVE \E k \in DOMAIN m : m[k] = l[j]
  <2>1. CASE j < i
    BY <1>2, <1>3, <1>5, <2>1
  <2>2. CASE j >= i
    <3>1. j + 1 \in 1 .. Len(l) + 1 /\ ~(j + 1 < i) /\ j + 1 # i /\ j + 1 - 1 = j
      BY <1>5, <2>2
    <3> QED BY <1>2, <1>3, <3>1
  <2> QED BY <1>5, <2>1, <2>2
<1>7. \E k \in DOMAIN m : m[k] = n
  BY <1>2, <1>3
<1>8. ASSUME NEW k \in DOMAIN m PROVE m[k] = n \/ \E j \in DOMAIN l : m[k] = l[j]
  <2>1. CASE k < i
    BY <1>2, <1>3, <1>5, <2>1
  <2>2. CASE k > i
    <3>1. k - 1 \in DOMAIN l /\ m[k] = l[k - 1]
      BY <1>2, <1>3, <1>5, <2>2
    <3> QED BY <3>1
  <2>3. CASE k = i
    BY <1>2, <1>3, <2>3
  <2> QED BY <1>2, <1>5, <2>1, <2>2, <2>3
<1>9. AsQueue(m) = Queue!p_enqueue(AsQueue(l), n.id, n.ts)
  BY <1>1, <1>4, <1>6, <1>7, <1>8, QueueGrown
<1> QED BY <1>9 DEF m

LEMMA UnlinkedQueue ==
  ASSUME NEW l \in Seq(Node), NEW i \in 1 .. Len(l), Distinct(l), Distinct(Unlinked(l, i))
  PROVE  AsQueue(Unlinked(l, i)) = Queue!pop_by_id(AsQueue(l), l[i].id)
<1> DEFINE m == Unlinked(l, i)
<1>1. m \in Seq(Node)
  BY UnlinkedNodes
<1>2. DOMAIN m = 1 .. Len(l) - 1
  BY UnlinkedNodes
<1>3. \A j \in 1 .. Len(l) - 1 : m[j] = IF j < i THEN l[j] ELSE l[j + 1]
  BY UnlinkedNodes
<1>4. Distinct(m)
  OBVIOUS
<1> HIDE DEF m
<1>5. DOMAIN l = 1 .. Len(l) /\ Len(l) \in Nat
  BY LenProperties
<1>6. ASSUME NEW j \in DOMAIN l, j # i PROVE \E k \in DOMAIN m : m[k] = l[j]
  <2>1. CASE j < i
    <3>1. j \in 1 .. Len(l) - 1
      BY <1>5, <2>1
    <3> QED BY <1>2, <1>3, <2>1, <3>1
  <2>2. CASE j > i
    <3>1. j - 1 \in 1 .. Len(l) - 1 /\ ~(j - 1 < i) /\ j - 1 + 1 = j
      BY <1>5, <2>2
    <3> QED BY <1>2, <1>3, <3>1
  <2> QED BY <1>5, <1>6, <2>1, <2>2
<1>7. ASSUME NEW k \in DOMAIN m PROVE \E j \in DOMAIN l : j # i /\ m[k] = l[j]
  <2>1. CASE k < i
    <3>1. k \in DOMAIN l /\ k # i /\ m[k] = l[k]
      BY <1>2, <1>3, <1>5, <2>1
    <3> QED BY <3>1
  <2>2. CASE k >= i
    <3>1. k + 1 \in DOMAIN l /\ k + 1 # i /\ m[k] = l[k + 1]
      BY <1>2, <1>3, <1>5, <2>2
    <3> QED BY <3>1
  <2> QED BY <1>2, <1>5, <2>1, <2>2
<1>8. i \in DOMAIN l
  BY <1>5
<1>9. AsQueue(m) = Queue!pop_by_id(AsQueue(l), l[i].id)
  BY <1>1, <1>4, <1>6, <1>7, <1>8, QueueShrunk
<1> QED BY <1>9 DEF m

LEMMA QueueEnqueue ==
  ASSUME NEW id, NEW d, AsQueue(list') = Queue!p_enqueue(AsQueue(list), id, d),
         ret' = {id} \ IdsOf(list)
  PROVE  Queue!Enqueue(id, d)
  BY DEF Queue!Enqueue, AsQueue, IdsOf

LEMMA QueuePopById ==
  ASSUME NEW id, AsQueue(list') = Queue!pop_by_id(AsQueue(list), id),
         ret' = {id} \cap IdsOf(list)
  PROVE  Queue!PopById(id)
  BY DEF Queue!PopById, AsQueue, IdsOf

LEMMA QueuePeekById ==
  ASSUME NEW id, AsQueue(list') = AsQueue(list), ret' = {id} \cap IdsOf(list)
  PROVE  Queue!PeekById(id)
  BY DEF Queue!PeekById, AsQueue, IdsOf

LEMMA QueueHead ==
  /\ Queue!Pop <=>
       /\ AsQueue(list') = IF IdsOf(list) = {} THEN AsQueue(list)
                           ELSE Queue!pop_by_id(AsQueue(list), Queue!HeadId(AsQueue(list)))
       /\ ret' = IF IdsOf(list) = {} THEN {} ELSE {Queue!HeadId(AsQueue(list))}
  /\ Queue!Peek <=>
       /\ ret' = IF IdsOf(list) = {} THEN {} ELSE {Queue!HeadId(AsQueue(list))}
       /\ AsQueue(list') = AsQueue(list)
  BY DEF Queue!Pop, Queue!Peek, Queue!pop, Queue!is_empty, AsQueue, IdsOf

LEMMA QueueNext ==
  ASSUME NEW id \in Ids
  PROVE  /\ \A d \in Times : Queue!Enqueue(id, d) => Queue!Next
         /\ Queue!PopById(id) => Queue!Next
         /\ Queue!PeekById(id) => Queue!Next
  BY DEF Queue!Next, Queue!Ids, Ids

LEMMA HeadIsFirst ==
  ASSUME NEW l \in Seq(Node), 1 \in DOMAIN l,
         \A i, j \in DOMAIN l : i < j => l[i].id < l[j].id
  PROVE  Queue!HeadId(AsQueue(l)) = l[1].id
<1>1. l \in [1 .. Len(l) -> Node] /\ Len(l) \in Nat /\ DOMAIN l = 1 .. Len(l)
  BY LenProperties
<1>2. DOMAIN AsQueue(l) = IdsOf(l)
  BY DEF AsQueue
<1>3. IdsOf(l) \subseteq Nat /\ l[1].id \in IdsOf(l)
  BY NodeAt DEF IdsOf
<1>4. ASSUME NEW x \in IdsOf(l) PROVE l[1].id <= x
  <2>1. PICK j \in DOMAIN l : x = l[j].id
    BY DEF IdsOf
  <2>2. l[1].id \in Nat /\ l[j].id \in Nat /\ j \in Nat /\ 1 <= j
    BY <1>1, NodeAt
  <2>3. 1 < j => l[1].id < l[j].id
    OBVIOUS
  <2> QED BY <2>1, <2>2, <2>3
<1>5. \A x \in IdsOf(l) : (\A y \in IdsOf(l) : x <= y) => x = l[1].id
  BY <1>3, <1>4
<1>6. (CHOOSE x \in IdsOf(l) : \A y \in IdsOf(l) : x <= y) = l[1].id
  BY <1>3, <1>4, <1>5
<1> QED BY <1>2, <1>6 DEF Queue!HeadId

\* One step of the list, for users who only p_enqueue.
LEMMA QueueStep ==
  ASSUME Prioritised, TypeOK, NothingLost, Sorted, now \in Times,
         [Next]_vars
  PROVE  [Queue!Next]_Queue!vars
<1>1. list \in Seq(Node) /\ Len(list) \in Nat /\ DOMAIN list = 1 .. Len(list)
      /\ size = Len(list) /\ \A i, j \in DOMAIN list : i < j => list[i].id < list[j].id
  BY TypedList DEF NothingLost, Sorted
<1>2. list' \in Seq(Node) /\ \A i, j \in DOMAIN list' : i < j => list'[i].id < list'[j].id
  <2>1. Sorted'
    <3>1. UNCHANGED list => Sorted'
      BY DEF Sorted
    <3> QED BY <3>1, ListSteps, SortedEnqueue, SortedServe
  <2>2. TypeOK' /\ Prioritised'
    BY StepKeeps, CallsFixed
  <2> QED BY <2>1, <2>2 DEF Sorted, TypeOK
<1>3. Distinct(list) /\ Distinct(list')
  BY <1>1, <1>2, SortedDistinct
<1>4. DOMAIN AsQueue(list) = IdsOf(list)
      /\ AsQueue(list) = [x \in IdsOf(list) |-> AsQueue(list)[x]]
  BY DEF AsQueue
<1>5. UNCHANGED <<list, ret>> => UNCHANGED Queue!vars
  BY DEF Queue!vars
<1>6. ASSUME NEW id \in Ids, p_enqueue(id) PROVE Queue!Next
  <2>0. PICK d \in Times : d = now
    OBVIOUS
  <2>1. CASE id \in IdsOf(list)
    <3>1. PICK j \in 1 .. Len(list) : list[j].id = id
      BY <1>1, <2>1 DEF IdsOf
    <3>2. /\ StopsAt(list, id) \in 1 .. Len(list) + 1
          /\ \A k \in 1 .. StopsAt(list, id) - 1 : list[k].id < id
      BY <1>1, WalkStops
    <3>3. StopsAt(list, id) <= j
      BY <1>1, <3>1, <3>2, TypedList, IdsType
    <3>4. StopsAt(list, id) <= Len(list) /\ StopsAt(list, id) \in 1 .. Len(list)
      BY <1>1, <3>2, <3>3
    <3>5. list[StopsAt(list, id)].id = id
      <4>1. list[StopsAt(list, id)].id >= id
        BY <1>1, <3>4, WalkStops
      <4>2. StopsAt(list, id) < j => list[StopsAt(list, id)].id < list[j].id
        BY <1>1, <3>4
      <4>3. list[StopsAt(list, id)].id \in Nat /\ list[j].id \in Nat
        BY <3>4, TypedList, IdsType
      <4> QED BY <1>1, <3>1, <3>3, <3>4, <4>1, <4>2, <4>3
    <3>6. ret' = {} /\ list' = list
      BY <1>6, <3>4, <3>5 DEF p_enqueue
    <3>7. AsQueue(list') = Queue!p_enqueue(AsQueue(list), id, now)
      <4>1. Queue!p_enqueue(AsQueue(list), id, now) =
              [x \in IdsOf(list) \cup {id} |-> IF x \in IdsOf(list) THEN AsQueue(list)[x] ELSE now]
        BY <1>4 DEF Queue!p_enqueue
      <4>2. IdsOf(list) \cup {id} = IdsOf(list)
        BY <2>1
      <4> QED BY <1>4, <3>6, <4>1, <4>2
    <3>8. Queue!Enqueue(id, d)
      <4>1. ret' = {id} \ IdsOf(list)
        BY <2>1, <3>6
      <4> QED BY <2>0, <3>7, <4>1, QueueEnqueue
    <3> QED BY <3>8, QueueNext
  <2>2. CASE id \notin IdsOf(list)
    <3>1. PICK i \in 1 .. Len(list) + 1 : i = StopsAt(list, id)
      BY <1>1, WalkStops
    <3>2. PICK n \in Node : n = [id |-> id, ts |-> now]
      BY <1>6 DEF Node, TypeOK
    <3>3. ~(i <= Len(list) /\ list[i].id = id)
      BY <1>1, <2>2 DEF IdsOf
    <3>4. list' = Linked(list, i, n) /\ ret' = {id}
      BY <1>6, <3>1, <3>2, <3>3 DEF p_enqueue
    <3>5. AsQueue(Linked(list, i, n)) = Queue!p_enqueue(AsQueue(list), n.id, n.ts)
      <4>1. n.id = id /\ Distinct(Linked(list, i, n))
        BY <1>3, <3>2, <3>4
      <4> QED BY <1>1, <1>3, <2>2, <4>1, LinkedQueue
    <3>6. Queue!Enqueue(id, d)
      <4>1. ret' = {id} \ IdsOf(list)
        BY <2>2, <3>4
      <4>2. AsQueue(list') = Queue!p_enqueue(AsQueue(list), id, now)
        BY <3>2, <3>4, <3>5
      <4> QED BY <2>0, <4>1, <4>2, QueueEnqueue
    <3> QED BY <3>6, QueueNext
  <2> QED BY <2>1, <2>2
<1>7. ASSUME NEW i \in 1 .. Len(list), Serve(i) PROVE Queue!Next
  <2>0. PICK id \in Ids : id = list[i].id
    BY TypedList
  <2>1. list' = Unlinked(list, i) /\ ret' = {list[i].id}
    BY <1>7 DEF Serve
  <2>2. AsQueue(list') = Queue!pop_by_id(AsQueue(list), list[i].id)
    BY <1>1, <1>3, <2>1, UnlinkedQueue
  <2>3. list[i].id \in IdsOf(list)
    BY <1>1 DEF IdsOf
  <2>4. ret' = {list[i].id} \cap IdsOf(list)
    BY <2>1, <2>3
  <2>5. Queue!PopById(id)
    BY <2>0, <2>2, <2>4, QueuePopById
  <2> QED BY <2>5, QueueNext
<1>8. CASE pop
  <2>1. CASE size = 0
    <3>1. IdsOf(list) = {} /\ list' = list /\ ret' = {}
      BY <1>1, <1>8, <2>1 DEF pop, IdsOf
    <3>2. Queue!Pop
      BY <3>1, QueueHead
    <3> QED BY <3>2 DEF Queue!Next
  <2>2. CASE size # 0
    <3>1. 1 \in 1 .. Len(list) /\ Serve(1)
      BY <1>1, <1>8, <2>2 DEF pop
    <3> QED BY <1>7, <3>1
  <2> QED BY <2>1, <2>2
<1>9. ASSUME NEW id \in Ids, pop_by_id(id) PROVE Queue!Next
  <2>1. CASE At(list, id) = {}
    <3>1. id \notin IdsOf(list) /\ list' = list /\ ret' = {}
      BY <1>9, <2>1 DEF pop_by_id, At, IdsOf
    <3>2. IdsOf(list) \ {id} = IdsOf(list) /\ {id} \cap IdsOf(list) = {}
      BY <3>1
    <3>3. Queue!pop_by_id(AsQueue(list), id) = AsQueue(list)
      BY <1>4, <3>2 DEF Queue!pop_by_id
    <3>4. Queue!PopById(id)
      BY <3>1, <3>2, <3>3, QueuePopById
    <3> QED BY <3>4, QueueNext
  <2>2. CASE At(list, id) # {}
    <3>1. PICK i \in 1 .. Len(list) : i = First(At(list, id))
      BY <1>1, <2>2, FirstAt
    <3>2. Serve(i)
      BY <1>9, <2>2, <3>1 DEF pop_by_id
    <3> QED BY <1>7, <3>2
  <2> QED BY <2>1, <2>2
<1>10. CASE peek
  <2>1. list' = list /\ ret' = IF size = 0 THEN {} ELSE {list[1].id}
    BY <1>10 DEF peek, queueVars
  <2>2. size = 0 <=> IdsOf(list) = {}
    <3>1. size # 0 => list[1].id \in IdsOf(list)
      BY <1>1 DEF IdsOf
    <3>2. size = 0 => DOMAIN list = {}
      BY <1>1
    <3> QED BY <3>1, <3>2 DEF IdsOf
  <2>3. size # 0 => Queue!HeadId(AsQueue(list)) = list[1].id
    BY <1>1, HeadIsFirst
  <2>4. Queue!Peek
    BY <2>1, <2>2, <2>3, QueueHead
  <2> QED BY <2>4 DEF Queue!Next
<1>11. ASSUME NEW id \in Ids, peek_by_id(id) PROVE Queue!Next
  <2>1. list' = list /\ ret' = {id} \cap IdsOf(list)
    BY <1>11 DEF peek_by_id, queueVars, At, IdsOf
  <2>2. Queue!PeekById(id)
    BY <2>1, QueuePeekById
  <2> QED BY <2>2, QueueNext
<1>12. CASE EnqueueForeign \/ EnqueueNext
  <2>1. next_event_id \in Ids
    BY DEF TypeOK
  <2> QED BY <1>6, <1>12, <2>1 DEF EnqueueForeign, EnqueueNext
<1>13. CASE EnqueueUnsorted
  BY <1>13 DEF EnqueueUnsorted, Prioritised
<1>14. CASE Tick
  BY <1>5, <1>14 DEF Tick, queueVars
<1>15. CASE UNCHANGED vars
  BY <1>5, <1>15 DEF vars, queueVars
<1> QED BY <1>8, <1>9, <1>10, <1>11, <1>12, <1>13, <1>14, <1>15 DEF Next

\* The linked list implements the function from ids to entries that the
\* connectors are modelled with, for ids of any width.
THEOREM Refinement == Spec => ImplementsIdQueue
<1> DEFINE I == TypeOK /\ NothingLost /\ Sorted /\ now \in Times
<1>1. Init => I
  BY InitKeeps, EventQueueAssumption DEF Init, Sorted, Times
<1>2. I /\ [Next]_vars => I'
  <2> SUFFICES ASSUME TypeOK, NothingLost, Sorted, now \in Times, [Next]_vars
               PROVE  Sorted' /\ now' \in Times
    BY StepKeeps
  <2>1. Sorted'
    <3>1. CASE Prioritised
      <4>1. UNCHANGED list => Sorted'
        BY <3>1 DEF Sorted
      <4> QED BY <3>1, <4>1, ListSteps, SortedEnqueue, SortedServe
    <3>2. CASE ~ Prioritised
      BY <3>2, CallsFixed DEF Sorted
    <3> QED BY <3>1, <3>2
  <2>2. now' \in Times
    <3>1. CASE Tick
      BY <3>1, EventQueueAssumption DEF Tick, Times
    <3>2. CASE ~Tick
      BY <3>2 DEF Next, vars, EnqueueForeign, EnqueueNext, EnqueueUnsorted, pop,
                  pop_by_id, peek, peek_by_id
    <3> QED BY <3>1, <3>2
  <2> QED BY <2>1, <2>2
<1>3. Init => Queue!Init
  BY DEF Init, Queue!Init, Queue!EmptyQueue
<1>4. I /\ [Next]_vars => [Prioritised => Queue!Next]_Queue!vars
  BY QueueStep
<1> QED BY <1>1, <1>2, <1>3, <1>4, PTL DEF Spec, ImplementsIdQueue
====
