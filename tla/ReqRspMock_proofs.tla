---- MODULE ReqRspMock_proofs ----
(***************************************************************************)
(* Proofs that the safety invariants of ReqRspMock hold for every number   *)
(* of requests, every length and every timing, as long as no 32-bit id is  *)
(* handed out twice (NoWrap): first what the queues and the event queue    *)
(* agree on, then the time and the order of the answers, that every step   *)
(* is one of the abstract service or silent, and that the program goes on  *)
(* until it ends, with fewer steps left after every step.                  *)
(***************************************************************************)
EXTENDS ReqRspMock, FiniteSetTheorems, TLAPS

-----------------------------------------------------------------------------
(* Numbers and microsteps *)

\* Every nonempty set of naturals has a least element.
LEMMA LeastNatural ==
  ASSUME NEW S \in SUBSET Nat, S # {}
  PROVE  \E m \in S : \A j \in S : m <= j
<1>1. PICK m \in S : \A j \in S : ~ (<<j, m>> \in OpToRel(<, Nat))
  BY NatLessThanWellFounded, WFMin, Zenon
<1>2. \A j \in S : ~ (j < m)
  BY <1>1 DEF OpToRel
<1> QED BY <1>2

\* A finite set of events leaves one of the first microsteps free, and the first
\* one that is free is found.
LEMMA FreeMicroIsFree ==
  ASSUME NEW P, IsFiniteSet(P), NEW m \in Nat, \A e \in P : e.micro \in Nat
  PROVE  /\ FreeMicro(P, m) \in Nat /\ m <= FreeMicro(P, m)
         /\ \A e \in P : e.micro # FreeMicro(P, m)
         /\ \A j \in m .. FreeMicro(P, m) - 1 : \E e \in P : e.micro = j
<1> DEFINE n == Cardinality(P)
           F == {k \in m .. m + n : \A e \in P : e.micro # k}
<1>1. n \in Nat
  BY FS_CardinalityType
<1> HIDE DEF n
<1>2. ASSUME F = {} PROVE FALSE
  <2> DEFINE g == [k \in m .. m + n |-> CHOOSE e \in P : e.micro = k]
  <2>1. \A k \in m .. m + n : g[k] \in P /\ g[k].micro = k
    BY <1>2
  <2>2. g \in [m .. m + n -> P]
    BY <2>1
  <2>3. IsFiniteSet(m .. m + n) /\ Cardinality(m .. m + n) = n + 1
    BY <1>1, FS_Interval
  <2> HIDE DEF g
  <2>4. Cardinality(P) < Cardinality(m .. m + n)
    BY <1>1, <2>3 DEF n
  <2>5. PICK x, y \in m .. m + n : x # y /\ g[x] = g[y]
    BY <2>2, <2>3, <2>4, FS_PigeonHole
  <2> QED BY <2>1, <2>5
<1>3. F \subseteq Nat
  BY <1>1
<1>4. PICK k \in F : \A j \in F : k <= j
  BY <1>2, <1>3, LeastNatural
<1>5. /\ k \in m .. m + n
      /\ \A e \in P : e.micro # k
      /\ \A j \in m .. k - 1 : \E e \in P : e.micro = j
  BY <1>1, <1>4
<1>6. /\ FreeMicro(P, m) \in m .. m + n
      /\ \A e \in P : e.micro # FreeMicro(P, m)
      /\ \A j \in m .. FreeMicro(P, m) - 1 : \E e \in P : e.micro = j
  BY <1>5 DEF FreeMicro, n
<1> QED BY <1>1, <1>6

-----------------------------------------------------------------------------
(* Facts about the queues and the runtime *)

\* The head of a nonempty queue is an id of the queue.
LEMMA HeadIdInDomain ==
  ASSUME NEW q, DOMAIN q \subseteq Nat, DOMAIN q # {}
  PROVE  HeadId(q) \in DOMAIN q
  BY LeastNatural DEF HeadId

LEMMA TriggerNames ==
  Triggers = {"sch_ref", "batch_request", "storage_req_trigger",
              "workstream_req", "fetch_page", "task_result",
              "workstream_response", "batch_response"}
  BY DEF Triggers, Level

\* What the order of the reactions says when one of them runs.
LEMMA TurnOrder ==
  /\ \A t \in Triggers : Turn(t) => present[t] # {} /\ ~crashed
  /\ Turn("batch_request") => present.sch_ref = {}
  /\ Turn("storage_req_trigger") =>
       present.sch_ref = {} /\ present.batch_request = {}
  /\ Turn("workstream_req") =>
       /\ present.sch_ref = {} /\ present.batch_request = {}
       /\ present.storage_req_trigger = {}
  /\ Turn("fetch_page") =>
       /\ present.sch_ref = {} /\ present.batch_request = {}
       /\ present.storage_req_trigger = {} /\ present.workstream_req = {}
  /\ Turn("task_result") =>
       /\ present.sch_ref = {} /\ present.batch_request = {}
       /\ present.storage_req_trigger = {} /\ present.workstream_req = {}
       /\ present.fetch_page = {}
  /\ Turn("workstream_response") =>
       /\ present.sch_ref = {} /\ present.batch_request = {}
       /\ present.storage_req_trigger = {} /\ present.workstream_req = {}
       /\ present.fetch_page = {} /\ present.task_result = {}
  /\ Turn("batch_response") =>
       /\ present.sch_ref = {} /\ present.batch_request = {}
       /\ present.storage_req_trigger = {} /\ present.workstream_req = {}
       /\ present.fetch_page = {} /\ present.task_result = {}
       /\ present.workstream_response = {}
  BY DEF Turn, Triggers, Level

\* events is the event queue with one more event e of action a.
AddsEvent(e, a, id, events) ==
  /\ e \in [action : Actions, id : Ids, time : Nat, micro : Nat]
  /\ e.action = a /\ e.id = id
  /\ e \notin pending
  /\ events = pending \cup {e}
  /\ \A f \in pending : f.action = a /\ f.time = e.time => f.micro # e.micro

\* lf_schedule adds one event, at a tag that no event of its action has.
LEMMA ScheduledAddsOne ==
  ASSUME TypeOK, NEW a \in Actions, NEW id \in Ids, NEW d \in Nat
  PROVE  \E e : AddsEvent(e, a, id, Scheduled(a, id, d))
<1> DEFINE t == tag.time + d
           m == IF d = 0 THEN tag.micro + 1 ELSE 0
           k == FreeMicro(Piled(a, t), m)
           e == [action |-> a, id |-> id, time |-> t, micro |-> k]
<1>1. t \in Nat /\ m \in Nat
  BY DEF TypeOK, RuntimeTypeOK
<1>2. IsFiniteSet(Piled(a, t))
  BY FS_Subset DEF TypeOK, RuntimeTypeOK, Piled
<1>3. \A f \in Piled(a, t) : f.micro \in Nat
  BY DEF TypeOK, RuntimeTypeOK, Piled
<1>4. k \in Nat /\ \A f \in Piled(a, t) : f.micro # k
  <2> HIDE DEF t, m
  <2> QED BY <1>1, <1>2, <1>3, FreeMicroIsFree
<1>5. Scheduled(a, id, d) = pending \cup {e}
  BY DEF Scheduled
<1> HIDE DEF k
<1>6. \A f \in pending : f.action = a /\ f.time = t => f.micro # k
  BY <1>4 DEF Piled
<1>7. e \in [action : Actions, id : Ids, time : Nat, micro : Nat]
  BY <1>1, <1>4
<1>8. e \notin pending
  BY <1>6
<1> QED BY <1>5, <1>6, <1>7, <1>8 DEF AddsEvent

\* What arming the scheduler's trigger, or not, does to the event queue.
LEMMA ArmsTrigger ==
  ASSUME TypeOK, NEW armed \in BOOLEAN,
         pending' = IF armed THEN Scheduled("storage_req_trigger", 0, 0) ELSE pending
  PROVE  /\ IsFiniteSet(pending')
         /\ pending \subseteq pending'
         /\ \A e \in pending' \ pending :
              /\ e \in [action : Actions, id : Ids, time : Nat, micro : Nat]
              /\ e.action = "storage_req_trigger" /\ e.id = 0
              /\ \A f \in pending : f.action = e.action /\ f.time = e.time
                                    => f.micro # e.micro
         /\ \A e, f \in pending' \ pending : e = f
         /\ pending' \ pending = {} <=> ~armed
<1>1. IsFiniteSet(pending)
  BY DEF TypeOK, RuntimeTypeOK
<1>2. "storage_req_trigger" \in Actions /\ 0 \in Ids /\ 0 \in Nat
  BY IdModAssumption DEF Actions, Ids
<1>3. PICK e : AddsEvent(e, "storage_req_trigger", 0, Scheduled("storage_req_trigger", 0, 0))
  BY <1>2, ScheduledAddsOne
<1>4. CASE ~armed
  BY <1>1, <1>4
<1>5. CASE armed
  BY <1>1, <1>3, <1>5, FS_AddElement DEF AddsEvent
<1> QED BY <1>4, <1>5

\* What the runtime hands to the reactions of a new tag.
LEMMA EnterTagPresent ==
  ASSUME TypeOK, NEW t, NEW m, EnterTag(t, m)
  PROVE  /\ DOMAIN present' = Triggers
         /\ \A a \in Actions :
              present'[a] = {e.id : e \in {f \in At(t, m) : f.action = a}}
         /\ \A p \in Triggers \ Actions : present'[p] = {}
         /\ At(t, m) \subseteq pending
<1>1. At(t, m) \subseteq pending
  BY DEF At
<1>2. Actions \subseteq Triggers
  BY TriggerNames DEF Actions
<1>3. \A f \in At(t, m) : f.action \in Actions
  BY <1>1 DEF TypeOK, RuntimeTypeOK
<1> QED BY <1>1, <1>2, <1>3 DEF EnterTag

-----------------------------------------------------------------------------
(* The invariant is inductive *)

LEMMA InitIInv == ASSUME Init PROVE IInv
<1> USE DEF Init, ClientInit, DispatcherInit, WorkerInit, Quiet, EmptyQueue
<1>1. 0 \in Ids
  BY IdModAssumption DEF Ids
<1>2. Requests \in Nat \ {0}
  BY ClientAssumption DEF Requests
<1>3. IsFiniteSet(pending)
  BY FS_Singleton
<1>4. \A t \in Triggers : present[t] = {}
  OBVIOUS
<1>5. RuntimeTypeOK
  <2>1. pending \subseteq [action : Actions, id : Ids, time : Nat, micro : Nat]
    BY <1>1 DEF Actions
  <2>2. tag \in [time : Nat, micro : Nat]
    OBVIOUS
  <2>3. crashed \in BOOLEAN /\ stop \in {"no", "requested", "final", "done"}
    OBVIOUS
  <2>4. \A e \in pending : e.action # "fetch_page" => e.id = 0
    OBVIOUS
  <2> QED BY <1>3, <2>1, <2>2, <2>3, <2>4 DEF RuntimeTypeOK
<1>6. PresentTypeOK
  BY <1>4, TriggerNames DEF PresentTypeOK
<1>7. ClientTypeOK /\ DispatcherTypeOK /\ taskQ \subseteq Ids
  <2>1. ClientTypeOK
    <3>1. refCounter \in 0 .. Requests /\ refCounter # Requests
      BY <1>2
    <3> QED BY <1>1, <3>1 DEF ClientTypeOK
  <2>2. DispatcherTypeOK
    BY <1>1 DEF DispatcherTypeOK
  <2> QED BY <2>1, <2>2
<1>8. NoCrash /\ BlockAccounting
  BY DEF NoCrash, BlockAccounting, SubIds
<1>9. DiskAccounting
  <2>1. FetchEvents = {}
    BY DEF FetchEvents
  <2> QED BY <1>4, <2>1, TriggerNames DEF DiskAccounting
<1>10. TriggerArmed
  BY <1>4, TriggerNames DEF TriggerArmed, TriggerEvents, is_empty
<1>11. ClientDispatcherAgree
  BY <1>4, TriggerNames DEF ClientDispatcherAgree
<1>12. PortsFollow /\ RequestMask
  BY <1>4, TriggerNames DEF PortsFollow, RequestMask
<1>13. SchRefOnce
  BY <1>2, <1>4, TriggerNames DEF SchRefOnce, SchRefEvents
<1>14. EventsDistinct
  BY DEF EventsDistinct
<1>15. IdsFresh
  BY <1>4, TriggerNames, ClientAssumption DEF IdsFresh, SubIds
<1> QED BY <1>5, <1>6, <1>7, <1>8, <1>9, <1>10, <1>11, <1>12, <1>13, <1>14, <1>15
        DEF IInv, TypeOK

LEMMA WorkerTaskStep ==
  ASSUME IInv, worker_task, UNCHANGED <<clientVars, dispatcherVars>>
  PROVE  IInv'
<1>1. PICK id \in present.workstream_req :
        taskQ' = taskQ \cup {id} /\ pending' = Scheduled("fetch_page", id, ReadTime)
  BY DEF worker_task, enqueue_task
<1>2. id \in Ids /\ present.workstream_req = {id}
  BY <1>1, TriggerNames DEF IInv, TypeOK, PresentTypeOK
<1>3. PICK e : AddsEvent(e, "fetch_page", id, pending')
  <2>1. TypeOK /\ "fetch_page" \in Actions /\ ReadTime \in Nat
    BY WorkerAssumption DEF IInv, Actions
  <2> QED BY <1>1, <1>2, <2>1, ScheduledAddsOne
<1>4. /\ present.sch_ref = {} /\ present.batch_request = {}
      /\ present.storage_req_trigger = {}
      /\ present.fetch_page \subseteq taskQ
      /\ present.task_result = {}
      /\ present.workstream_response = {} /\ present.batch_response = {}
  BY <1>2, TurnOrder DEF worker_task, IInv, PortsFollow, DiskAccounting
<1>5. /\ DOMAIN present' = Triggers
      /\ present'.workstream_req = {}
      /\ \A t \in Triggers \ {"workstream_req"} : present'[t] = present[t]
  BY TriggerNames DEF worker_task, IInv, TypeOK, PresentTypeOK
<1>6. /\ UNCHANGED <<tag, stop, crashed, refCounter, terminate, clientNextId, clientOut>>
      /\ UNCHANGED <<reqQ, schQ, diskQ, subNextId>>
  BY DEF worker_task, clientVars, dispatcherVars
<1>7. RuntimeTypeOK'
  <2>1. IsFiniteSet(pending')
    BY <1>3, FS_AddElement DEF AddsEvent, IInv, TypeOK, RuntimeTypeOK
  <2> QED BY <1>3, <1>6, <2>1 DEF AddsEvent, IInv, TypeOK, RuntimeTypeOK
<1>8. PresentTypeOK'
  BY <1>5, TriggerNames DEF IInv, TypeOK, PresentTypeOK
<1>9. ClientTypeOK' /\ DispatcherTypeOK' /\ (taskQ \subseteq Ids)'
  BY <1>1, <1>2, <1>6 DEF IInv, TypeOK, ClientTypeOK, DispatcherTypeOK
<1>10. NoCrash' /\ BlockAccounting'
  BY <1>6 DEF IInv, NoCrash, BlockAccounting, SubIds, Sub
<1>11. DiskAccounting'
  <2>1. FetchEvents' = FetchEvents \cup {e}
    BY <1>3 DEF AddsEvent, FetchEvents
  <2>2. id \notin taskQ /\ id \notin present.fetch_page
    BY <1>2, <1>4 DEF IInv, DiskAccounting
  <2> QED BY <1>1, <1>2, <1>3, <1>4, <1>5, <1>6, <2>1, <2>2, TriggerNames
          DEF AddsEvent, IInv, DiskAccounting
<1>12. TriggerArmed'
  <2>1. TriggerEvents' = TriggerEvents
    BY <1>3 DEF AddsEvent, TriggerEvents
  <2> QED BY <1>5, <1>6, <2>1, TriggerNames DEF IInv, TriggerArmed, is_empty
<1>13. ClientDispatcherAgree'
  BY <1>5, <1>6, TriggerNames DEF IInv, ClientDispatcherAgree, InFlight
<1>14. PortsFollow'
  BY <1>4, <1>5, TriggerNames DEF PortsFollow
<1>15. SchRefOnce'
  <2>1. SchRefEvents' = SchRefEvents
    BY <1>3 DEF AddsEvent, SchRefEvents
  <2> QED BY <1>5, <1>6, <2>1, TriggerNames DEF IInv, SchRefOnce
<1>16. RequestMask' /\ IdsFresh'
  BY <1>5, <1>6, TriggerNames DEF IInv, RequestMask, IdsFresh, SubIds
<1>17. EventsDistinct'
  BY <1>3 DEF AddsEvent, IInv, EventsDistinct
<1> QED BY <1>7, <1>8, <1>9, <1>10, <1>11, <1>12, <1>13, <1>14, <1>15, <1>16, <1>17
        DEF IInv, TypeOK

LEMMA WorkerFetchPageStep ==
  ASSUME IInv, worker_fetch_page, UNCHANGED <<clientVars, dispatcherVars>>
  PROVE  IInv'
<1>1. PICK id \in present.fetch_page : emulate_delay(id)
  BY DEF worker_fetch_page
<1>2. id \in Ids /\ present.fetch_page = {id}
  BY <1>1, TriggerNames DEF IInv, TypeOK, PresentTypeOK
<1>3. id \in taskQ
  BY <1>2 DEF IInv, DiskAccounting
<1>4. /\ taskQ' = taskQ \ {id}
      /\ present' = [present EXCEPT !.fetch_page = {}, !.task_result = {id}]
  BY <1>1, <1>3 DEF emulate_delay, Finished
<1>5. /\ DOMAIN present' = Triggers
      /\ present'.fetch_page = {} /\ present'.task_result = {id}
      /\ \A t \in Triggers \ {"fetch_page", "task_result"} : present'[t] = present[t]
  BY <1>4, TriggerNames DEF IInv, TypeOK, PresentTypeOK
<1>6. /\ present.sch_ref = {} /\ present.batch_request = {}
      /\ present.storage_req_trigger = {} /\ present.workstream_req = {}
      /\ present.task_result = {}
      /\ present.workstream_response = {} /\ present.batch_response = {}
  BY <1>2, TurnOrder DEF worker_fetch_page, IInv, PortsFollow
<1>7. /\ UNCHANGED <<tag, pending, stop, crashed, refCounter, terminate, clientNextId, clientOut>>
      /\ UNCHANGED <<reqQ, schQ, diskQ, subNextId>>
  BY DEF worker_fetch_page, clientVars, dispatcherVars
<1>8. RuntimeTypeOK' /\ ClientTypeOK' /\ DispatcherTypeOK'
  BY <1>7 DEF IInv, TypeOK, RuntimeTypeOK, ClientTypeOK, DispatcherTypeOK
<1>9. PresentTypeOK' /\ (taskQ \subseteq Ids)'
  BY <1>2, <1>4, <1>5, TriggerNames DEF IInv, TypeOK, PresentTypeOK
<1>10. NoCrash' /\ BlockAccounting'
  BY <1>7 DEF IInv, NoCrash, BlockAccounting, SubIds, Sub
<1>11. DiskAccounting'
  <2>1. FetchEvents' = FetchEvents
    BY <1>7 DEF FetchEvents
  <2>2. taskQ = {e.id : e \in FetchEvents} \cup {id} /\ id \notin {e.id : e \in FetchEvents}
    BY <1>2 DEF IInv, DiskAccounting
  <2> QED BY <1>2, <1>3, <1>4, <1>5, <1>6, <1>7, <2>1, <2>2, TriggerNames
          DEF IInv, DiskAccounting
<1>12. TriggerArmed'
  BY <1>5, <1>7, TriggerNames DEF IInv, TriggerArmed, TriggerEvents, is_empty
<1>13. ClientDispatcherAgree'
  BY <1>5, <1>7, TriggerNames DEF IInv, ClientDispatcherAgree, InFlight
<1>14. PortsFollow'
  BY <1>5, <1>6, TriggerNames DEF PortsFollow
<1>15. SchRefOnce'
  BY <1>5, <1>7, TriggerNames DEF IInv, SchRefOnce, SchRefEvents
<1>16. RequestMask' /\ IdsFresh'
  BY <1>5, <1>7, TriggerNames DEF IInv, RequestMask, IdsFresh, SubIds
<1>17. EventsDistinct'
  BY <1>7 DEF IInv, EventsDistinct
<1> QED BY <1>8, <1>9, <1>10, <1>11, <1>12, <1>13, <1>14, <1>15, <1>16, <1>17
        DEF IInv, TypeOK

\* The products of the id bounds.
LEMMA IdBounds ==
  ASSUME NoWrap, NEW r \in 0 .. Requests
  PROVE  /\ r * MaxLen \in Nat /\ r * MaxLen < IdMod
         /\ (r + 1) * MaxLen = r * MaxLen + MaxLen
         /\ r < IdMod
<1>1. Requests \in Nat /\ MaxLen \in Nat /\ MaxLen > 0 /\ IdMod \in Nat
  BY ClientAssumption, IdModAssumption DEF Requests
<1>2. r * MaxLen \in Nat
  BY <1>1
<1>3. r * MaxLen <= Requests * MaxLen
  BY <1>1
<1>4. Requests <= Requests * MaxLen
  BY <1>1
<1>5. (r + 1) * MaxLen = r * MaxLen + MaxLen
  BY <1>1
<1> QED BY <1>1, <1>2, <1>3, <1>4, <1>5 DEF NoWrap

LEMMA ClientSchRefStep ==
  ASSUME IInv, NoWrap, client_sch_ref, UNCHANGED <<dispatcherVars, taskQ>>
  PROVE  IInv'
<1>1. PICK len \in 1 .. MaxLen : schedule_reference(len)
  BY DEF client_sch_ref
<1> DEFINE id == refCounter
           mask == 0 .. len - 1
           req == [id |-> id, mask |-> mask]
<1>2. /\ Requests \in Nat /\ MaxLen \in Nat /\ MaxLen > 0 /\ IdMod \in Nat /\ 0 \in Ids
      /\ TotalRefs \in Nat
  BY ClientAssumption, IdModAssumption DEF Requests, Ids
<1>3. /\ present.batch_request = {}
      /\ present.workstream_req = {} /\ present.task_result = {}
      /\ present.workstream_response = {} /\ present.batch_response = {}
      /\ present.sch_ref # {}
  BY TurnOrder, TriggerNames DEF client_sch_ref, IInv, PortsFollow
<1>4. refCounter \in Nat /\ refCounter < Requests /\ SchRefEvents = {}
  BY <1>2, <1>3 DEF IInv, SchRefOnce, TypeOK, ClientTypeOK
<1>5. /\ refCounter' = refCounter + 1
      /\ refCounter + 1 < IdMod /\ refCounter + 1 <= Requests
      /\ EventIdAfter(refCounter, 1) = refCounter + 1
  <2>1. refCounter + 1 \in 0 .. Requests
    BY <1>2, <1>4
  <2> QED BY <1>2, <1>4, <2>1, IdBounds DEF client_sch_ref, EventIdAfter
<1>6. mask \in SUBSET Blocks /\ mask # {} /\ id \in Ids
  BY <1>2, <1>4, <1>5 DEF Blocks, Ids
<1>7. /\ clientNextId = id /\ clientNextId' = id + 1
      /\ id \notin DOMAIN clientOut
      /\ DOMAIN clientOut' = DOMAIN clientOut \cup {id}
      /\ clientOut'[id] = [mask |-> mask, ts |-> tag.time]
      /\ \A r \in DOMAIN clientOut : clientOut'[r] = clientOut[r]
  <2>1. clientNextId = id /\ id \notin DOMAIN clientOut
    BY <1>4 DEF IInv, IdsFresh
  <2>2. clientOut' = p_enqueue(clientOut, id, [mask |-> mask, ts |-> tag.time])
    BY <1>1, <2>1 DEF schedule_reference
  <2> QED BY <1>1, <1>5, <2>1, <2>2 DEF schedule_reference, p_enqueue
<1>8. /\ DOMAIN present' = Triggers
      /\ present'.sch_ref = {} /\ present'.batch_request = {req}
      /\ \A t \in Triggers \ {"sch_ref", "batch_request"} : present'[t] = present[t]
  BY <1>1, <1>7, TriggerNames DEF schedule_reference, IInv, TypeOK, PresentTypeOK
<1>9. /\ UNCHANGED <<tag, stop, crashed, reqQ, schQ, diskQ, subNextId, taskQ>>
  BY DEF client_sch_ref, dispatcherVars
<1>10. \/ /\ pending' = pending /\ terminate' = TRUE /\ refCounter + 1 = Requests
       \/ /\ \E e : AddsEvent(e, "sch_ref", 0, pending')
          /\ terminate' = terminate /\ refCounter + 1 < Requests
  <2>1. CASE IsLastRef(refCounter + 1)
    <3>1. refCounter + 1 = Requests
      BY <1>2, <1>4, <1>5, <2>1 DEF IsLastRef, Requests
    <3> QED BY <2>1, <3>1 DEF client_sch_ref
  <2>2. CASE ~IsLastRef(refCounter + 1)
    <3>1. refCounter + 1 < Requests
      BY <1>2, <1>4, <1>5, <2>2 DEF IsLastRef, Requests
    <3>2. PICK d \in Intervals : pending' = Scheduled("sch_ref", 0, d)
      BY <2>2 DEF client_sch_ref
    <3>3. d \in Nat
      BY ClientAssumption DEF Intervals
    <3>4. TypeOK /\ "sch_ref" \in Actions
      BY DEF IInv, Actions
    <3>5. \E e : AddsEvent(e, "sch_ref", 0, pending')
      BY <1>2, <3>2, <3>3, <3>4, ScheduledAddsOne
    <3> QED BY <2>2, <3>1, <3>5 DEF client_sch_ref
  <2> QED BY <2>1, <2>2
<1> HIDE DEF id, mask, req
<1>11. /\ IsFiniteSet(pending')
       /\ pending \subseteq pending'
       /\ \A e \in pending' \ pending :
            /\ e \in [action : Actions, id : Ids, time : Nat, micro : Nat]
            /\ e.action = "sch_ref" /\ e.id = 0
            /\ refCounter + 1 < Requests
            /\ \A f \in pending : f.action = "sch_ref" /\ f.time = e.time
                                  => f.micro # e.micro
       /\ \A e, f \in pending' \ pending : e = f
  <2>1. IsFiniteSet(pending)
    BY DEF IInv, TypeOK, RuntimeTypeOK
  <2>2. CASE pending' = pending
    BY <2>1, <2>2
  <2>3. CASE (\E e : AddsEvent(e, "sch_ref", 0, pending')) /\ refCounter + 1 < Requests
    BY <2>1, <2>3, FS_AddElement DEF AddsEvent
  <2> QED BY <1>10, <2>2, <2>3
<1>12. RuntimeTypeOK'
  <2>1. pending' \subseteq [action : Actions, id : Ids, time : Nat, micro : Nat]
    BY <1>11 DEF IInv, TypeOK, RuntimeTypeOK
  <2>2. \A e \in pending' : e.action # "fetch_page" => e.id = 0
    BY <1>11 DEF IInv, TypeOK, RuntimeTypeOK
  <2> QED BY <1>9, <1>11, <2>1, <2>2 DEF IInv, TypeOK, RuntimeTypeOK
<1>13. PresentTypeOK'
  BY <1>6, <1>8, TriggerNames DEF IInv, TypeOK, PresentTypeOK, req
<1>14. ClientTypeOK'
  <2>1. refCounter' \in 0 .. Requests /\ clientNextId' \in Ids
    BY <1>2, <1>4, <1>5, <1>7 DEF Ids, id
  <2>2. terminate' \in BOOLEAN /\ (terminate' <=> refCounter' = Requests)
    <3>1. refCounter # Requests
      BY <1>2, <1>4
    <3>2. terminate \in BOOLEAN /\ ~terminate
      BY <3>1 DEF IInv, TypeOK, ClientTypeOK
    <3>3. CASE terminate' = TRUE /\ refCounter + 1 = Requests
      BY <1>5, <3>3
    <3>4. CASE terminate' = terminate /\ refCounter + 1 < Requests
      <4>1. refCounter' # Requests
        BY <1>2, <1>4, <1>5, <3>4
      <4> QED BY <3>2, <3>4, <4>1
    <3> QED BY <1>10, <3>3, <3>4
  <2>3. DOMAIN clientOut' \subseteq Ids
    BY <1>6, <1>7 DEF IInv, TypeOK, ClientTypeOK
  <2>4. \A r \in DOMAIN clientOut' : clientOut'[r] \in [mask : SUBSET Blocks, ts : Nat]
    BY <1>6, <1>7 DEF IInv, TypeOK, ClientTypeOK, RuntimeTypeOK
  <2> QED BY <2>1, <2>2, <2>3, <2>4 DEF ClientTypeOK
<1>15. DispatcherTypeOK' /\ (taskQ \subseteq Ids)'
  BY <1>9 DEF IInv, TypeOK, DispatcherTypeOK
<1>16. NoCrash' /\ BlockAccounting'
  BY <1>9 DEF IInv, NoCrash, BlockAccounting, SubIds, Sub
<1>17. DiskAccounting'
  <2>1. FetchEvents' = FetchEvents
    BY <1>11 DEF FetchEvents
  <2> QED BY <1>8, <1>9, <2>1, TriggerNames DEF IInv, DiskAccounting
<1>18. TriggerArmed'
  <2>1. TriggerEvents' = TriggerEvents
    BY <1>11 DEF TriggerEvents
  <2> QED BY <1>8, <1>9, <2>1, TriggerNames DEF IInv, TriggerArmed, is_empty
<1>19. ClientDispatcherAgree'
  <2>1. id \notin DOMAIN reqQ /\ DOMAIN reqQ = DOMAIN clientOut
    BY <1>3, <1>7 DEF IInv, ClientDispatcherAgree
  <2>2. {q.id : q \in present'.batch_request} = {id}
    BY <1>8 DEF req
  <2> QED BY <1>3, <1>7, <1>8, <1>9, <2>1, <2>2, TriggerNames
          DEF IInv, ClientDispatcherAgree, InFlight, req
<1>20. PortsFollow'
  BY <1>3, <1>8, TriggerNames DEF PortsFollow
<1>21. SchRefOnce'
  <2>1. SchRefEvents' = pending' \ pending
    BY <1>4, <1>11 DEF SchRefEvents
  <2> QED BY <1>5, <1>8, <1>11, <2>1 DEF SchRefOnce
<1>22. RequestMask'
  BY <1>1, <1>8 DEF RequestMask, req, mask
<1>23. IdsFresh'
  <2>1. subNextId + MaxLen <= (refCounter + 1) * MaxLen
    <3>1. subNextId <= refCounter * MaxLen
      BY <1>3 DEF IInv, IdsFresh
    <3>2. subNextId \in Nat
      BY DEF IInv, TypeOK, DispatcherTypeOK, Ids
    <3>3. refCounter * MaxLen \in Nat /\ (refCounter + 1) * MaxLen = refCounter * MaxLen + MaxLen
      BY <1>2, <1>4, IdBounds
    <3> QED BY <1>2, <3>1, <3>2, <3>3
  <2>2. \A r \in DOMAIN clientOut' : r < clientNextId'
    BY <1>4, <1>7 DEF IInv, IdsFresh, TypeOK, ClientTypeOK, Ids, id
  <2> QED BY <1>5, <1>7, <1>8, <1>9, <2>1, <2>2 DEF IInv, IdsFresh, SubIds, id
<1>24. EventsDistinct'
  <2>1. \A e \in SchRefEvents : FALSE
    BY <1>4
  <2> QED BY <1>11 DEF IInv, EventsDistinct
<1> QED BY <1>12, <1>13, <1>14, <1>15, <1>16, <1>17, <1>18, <1>19, <1>20, <1>21,
           <1>22, <1>23, <1>24 DEF IInv, TypeOK

LEMMA ClientInterimStep ==
  ASSUME IInv, client_workstream_rsp, UNCHANGED <<dispatcherVars, taskQ>>
  PROVE  IInv'
<1>1. PICK rsp \in present.workstream_response : client_interim_response(rsp)
  BY DEF client_workstream_rsp
<1>2. present.workstream_response = {rsp}
  BY <1>1, TriggerNames DEF IInv, TypeOK, PresentTypeOK
<1>3. rsp \in [id : Ids, block : Blocks]
  BY <1>1 DEF IInv, TypeOK, PresentTypeOK
<1>4. rsp.id \in DOMAIN clientOut
  BY <1>1 DEF IInv, ClientDispatcherAgree
<1>5. /\ DOMAIN clientOut' = DOMAIN clientOut
      /\ clientOut'[rsp.id].mask = clientOut[rsp.id].mask \ {rsp.block}
      /\ clientOut'[rsp.id] \in [mask : SUBSET Blocks, ts : Nat]
      /\ \A r \in DOMAIN clientOut : r # rsp.id => clientOut'[r] = clientOut[r]
      /\ crashed' = crashed
  <2>1. clientOut' = [clientOut EXCEPT ![rsp.id] = Fill(@, rsp.block)] /\ crashed' = crashed
    BY <1>1, <1>4 DEF client_interim_response
  <2>2. clientOut[rsp.id] \in [mask : SUBSET Blocks, ts : Nat]
    BY <1>4 DEF IInv, TypeOK, ClientTypeOK
  <2>3. /\ Fill(clientOut[rsp.id], rsp.block).mask = clientOut[rsp.id].mask \ {rsp.block}
        /\ Fill(clientOut[rsp.id], rsp.block) \in [mask : SUBSET Blocks, ts : Nat]
    BY <2>2 DEF Fill
  <2> QED BY <1>4, <2>1, <2>3
<1>6. /\ DOMAIN present' = Triggers
      /\ present'.workstream_response = {}
      /\ \A t \in Triggers \ {"workstream_response"} : present'[t] = present[t]
  BY TriggerNames DEF client_workstream_rsp, IInv, TypeOK, PresentTypeOK
<1>7. /\ present.sch_ref = {} /\ present.batch_request = {}
      /\ present.storage_req_trigger = {} /\ present.workstream_req = {}
      /\ present.fetch_page = {} /\ present.task_result = {}
  BY TurnOrder DEF client_workstream_rsp
<1>8. /\ UNCHANGED <<tag, pending, stop, refCounter, terminate, clientNextId>>
      /\ UNCHANGED <<reqQ, schQ, diskQ, subNextId, taskQ>>
  BY DEF client_workstream_rsp, dispatcherVars
<1>9. RuntimeTypeOK' /\ DispatcherTypeOK' /\ (taskQ \subseteq Ids)'
  BY <1>5, <1>8 DEF IInv, TypeOK, RuntimeTypeOK, DispatcherTypeOK
<1>10. PresentTypeOK'
  BY <1>6, TriggerNames DEF IInv, TypeOK, PresentTypeOK
<1>11. ClientTypeOK'
  BY <1>5, <1>8 DEF IInv, TypeOK, ClientTypeOK
<1>12. NoCrash' /\ BlockAccounting'
  BY <1>5, <1>8 DEF IInv, NoCrash, BlockAccounting, SubIds, Sub
<1>13. DiskAccounting'
  BY <1>6, <1>8, TriggerNames DEF IInv, DiskAccounting, FetchEvents
<1>14. TriggerArmed'
  BY <1>6, <1>8, TriggerNames DEF IInv, TriggerArmed, TriggerEvents, is_empty
<1>15. ClientDispatcherAgree'
  <2>1. /\ \A r : InFlight(r) = IF r = rsp.id THEN {rsp.block} ELSE {}
        /\ \A r : InFlight(r)' = {}
    BY <1>2, <1>6 DEF InFlight
  <2>2. rsp.id \in DOMAIN reqQ => rsp.block \notin reqQ[rsp.id]
    BY <1>1 DEF IInv, ClientDispatcherAgree
  <2>3. \A r \in DOMAIN reqQ : clientOut'[r].mask = reqQ[r]
    <3> SUFFICES ASSUME NEW r \in DOMAIN reqQ PROVE clientOut'[r].mask = reqQ[r]
      OBVIOUS
    <3>1. r \in DOMAIN clientOut /\ clientOut[r].mask = reqQ[r] \cup InFlight(r)
      BY DEF IInv, ClientDispatcherAgree
    <3> QED BY <1>5, <2>1, <2>2, <3>1
  <2>4. \A r \in present.batch_response : clientOut'[r].mask = {}
    <3> SUFFICES ASSUME NEW r \in present.batch_response PROVE clientOut'[r].mask = {}
      OBVIOUS
    <3>1. r \in DOMAIN clientOut /\ clientOut[r].mask = InFlight(r)
      BY DEF IInv, ClientDispatcherAgree
    <3> QED BY <1>5, <2>1, <3>1
  <2> QED BY <1>5, <1>6, <1>7, <1>8, <2>1, <2>3, <2>4, TriggerNames
          DEF IInv, ClientDispatcherAgree
<1>16. PortsFollow'
  BY <1>6, <1>7, TriggerNames DEF PortsFollow
<1>17. SchRefOnce'
  BY <1>6, <1>8, TriggerNames DEF IInv, SchRefOnce, SchRefEvents
<1>18. RequestMask' /\ IdsFresh' /\ EventsDistinct'
  BY <1>5, <1>6, <1>8, TriggerNames
     DEF IInv, RequestMask, IdsFresh, SubIds, EventsDistinct
<1> QED BY <1>9, <1>10, <1>11, <1>12, <1>13, <1>14, <1>15, <1>16, <1>17, <1>18
        DEF IInv, TypeOK

LEMMA ClientResponseStep ==
  ASSUME IInv, client_batch_response, UNCHANGED <<dispatcherVars, taskQ>>
  PROVE  IInv'
<1>1. PICK id \in present.batch_response : clientOut' = client_response(clientOut, id)
  BY DEF client_batch_response
<1>2. present.batch_response = {id}
  BY <1>1, TriggerNames DEF IInv, TypeOK, PresentTypeOK
<1>3. /\ DOMAIN clientOut' = DOMAIN clientOut \ {id}
      /\ \A r \in DOMAIN clientOut' : clientOut'[r] = clientOut[r]
  BY <1>1 DEF client_response, pop_by_id
<1>4. /\ DOMAIN present' = Triggers
      /\ present'.batch_response = {}
      /\ \A t \in Triggers \ {"batch_response"} : present'[t] = present[t]
  BY TriggerNames DEF client_batch_response, IInv, TypeOK, PresentTypeOK
<1>5. /\ present.sch_ref = {} /\ present.batch_request = {}
      /\ present.storage_req_trigger = {} /\ present.workstream_req = {}
      /\ present.fetch_page = {} /\ present.task_result = {}
      /\ present.workstream_response = {}
  BY TurnOrder DEF client_batch_response
<1>6. /\ UNCHANGED <<tag, pending, crashed, refCounter, terminate, clientNextId>>
      /\ UNCHANGED <<reqQ, schQ, diskQ, subNextId, taskQ>>
  BY DEF client_batch_response, dispatcherVars
<1>7. stop' \in {"no", "requested", "final", "done"}
  BY DEF client_batch_response, StopRequested, IInv, TypeOK, RuntimeTypeOK
<1>8. RuntimeTypeOK' /\ DispatcherTypeOK' /\ (taskQ \subseteq Ids)'
  BY <1>6, <1>7 DEF IInv, TypeOK, RuntimeTypeOK, DispatcherTypeOK
<1>9. PresentTypeOK' /\ ClientTypeOK'
  BY <1>3, <1>4, <1>6, TriggerNames DEF IInv, TypeOK, PresentTypeOK, ClientTypeOK
<1>10. NoCrash' /\ BlockAccounting'
  BY <1>6 DEF IInv, NoCrash, BlockAccounting, SubIds, Sub
<1>11. DiskAccounting'
  BY <1>4, <1>6, TriggerNames DEF IInv, DiskAccounting, FetchEvents
<1>12. TriggerArmed'
  BY <1>4, <1>6, TriggerNames DEF IInv, TriggerArmed, TriggerEvents, is_empty
<1>13. ClientDispatcherAgree'
  <2>1. DOMAIN clientOut' = DOMAIN reqQ
    BY <1>2, <1>3, <1>5 DEF IInv, ClientDispatcherAgree
  <2>2. \A r : InFlight(r)' = InFlight(r)
    BY <1>4, TriggerNames DEF InFlight
  <2> QED BY <1>3, <1>4, <1>5, <1>6, <2>1, <2>2, TriggerNames
          DEF IInv, ClientDispatcherAgree
<1>14. PortsFollow'
  BY <1>4, <1>5, TriggerNames DEF PortsFollow
<1>15. SchRefOnce'
  BY <1>4, <1>6, TriggerNames DEF IInv, SchRefOnce, SchRefEvents
<1>16. RequestMask' /\ IdsFresh' /\ EventsDistinct'
  BY <1>3, <1>4, <1>6, TriggerNames
     DEF IInv, RequestMask, IdsFresh, SubIds, EventsDistinct
<1> QED BY <1>8, <1>9, <1>10, <1>11, <1>12, <1>13, <1>14, <1>15, <1>16
        DEF IInv, TypeOK

\* The ids that process_batch_request gives to the blocks of a request.
LEMMA SubRequestIds ==
  ASSUME IInv, NoWrap, NEW req \in present.batch_request,
         NEW n \in 1 .. MaxLen, req.mask = 0 .. n - 1
  PROVE  /\ \A b \in req.mask : b \in Nat /\ SubId(req.mask, b) = subNextId + b
         /\ EventIdAfter(subNextId, Cardinality(req.mask)) = subNextId + n
         /\ subNextId \in Nat /\ subNextId + n <= refCounter * MaxLen
         /\ refCounter * MaxLen < IdMod
<1>1. MaxLen \in Nat /\ IdMod \in Nat /\ n \in Nat /\ n > 0 /\ n <= MaxLen
  BY ClientAssumption, IdModAssumption
<1>2. subNextId \in Nat /\ subNextId + MaxLen <= refCounter * MaxLen
  BY DEF IInv, IdsFresh, TypeOK, DispatcherTypeOK, Ids
<1>3. refCounter * MaxLen \in Nat /\ refCounter * MaxLen < IdMod
  BY IdBounds DEF IInv, TypeOK, ClientTypeOK
<1> DEFINE p == refCounter * MaxLen
<1> HIDE DEF p
<1>4. p \in Nat /\ p < IdMod /\ subNextId + MaxLen <= p
  BY <1>2, <1>3 DEF p
<1>5. Cardinality(req.mask) = n
  BY <1>1, FS_Interval
<1>6. EventIdAfter(subNextId, Cardinality(req.mask)) = subNextId + n
  BY <1>1, <1>2, <1>4, <1>5 DEF EventIdAfter
<1>7. ASSUME NEW b \in req.mask PROVE b \in Nat /\ SubId(req.mask, b) = subNextId + b
  <2>1. b \in Nat /\ b < n
    BY <1>1
  <2>2. {c \in req.mask : c < b} = 0 .. b - 1
    BY <1>1, <2>1
  <2>3. Rank(req.mask, b) = b
    <3>1. Cardinality(0 .. b - 1) = b
      BY <2>1, FS_Interval
    <3> QED BY <2>2, <3>1 DEF Rank
  <2> QED BY <1>1, <1>2, <1>4, <2>1, <2>3 DEF SubId, EventIdAfter
<1>8. subNextId + n <= p
  BY <1>1, <1>2, <1>4
<1> QED BY <1>2, <1>4, <1>6, <1>7, <1>8 DEF p

LEMMA DispatcherRequestStep ==
  ASSUME IInv, NoWrap, dispatcher_batch_request, UNCHANGED <<clientVars, taskQ>>
  PROVE  IInv'
<1>1. PICK req \in present.batch_request : process_batch_request(req)
  BY DEF dispatcher_batch_request
<1>2. /\ present.batch_request = {req}
      /\ req \in [id : Ids, mask : SUBSET Blocks]
  BY <1>1, TriggerNames DEF IInv, TypeOK, PresentTypeOK
<1>3. PICK n \in 1 .. MaxLen : req.mask = 0 .. n - 1
  BY <1>1 DEF IInv, RequestMask
<1>4. MaxLen \in Nat /\ IdMod \in Nat /\ n \in Nat /\ n > 0 /\ n <= MaxLen
  BY ClientAssumption, IdModAssumption
<1>5. /\ \A b \in req.mask : b \in Nat /\ SubId(req.mask, b) = subNextId + b
      /\ EventIdAfter(subNextId, Cardinality(req.mask)) = subNextId + n
      /\ subNextId \in Nat /\ subNextId + n <= refCounter * MaxLen
      /\ refCounter * MaxLen < IdMod
  BY <1>1, <1>3, SubRequestIds
<1> DEFINE p == refCounter * MaxLen
           new == subNextId .. subNextId + n - 1
<1>6. p \in Nat
  BY IdBounds DEF IInv, TypeOK, ClientTypeOK
<1> HIDE DEF p
<1>7. {SubId(req.mask, b) : b \in req.mask} = new
  <2>1. \A i \in new : i - subNextId \in req.mask /\ i = subNextId + (i - subNextId)
    BY <1>3, <1>4, <1>5
  <2>2. \A b \in req.mask : subNextId + b \in new
    BY <1>3, <1>4, <1>5
  <2> HIDE DEF new
  <2> QED BY <1>5, <2>1, <2>2
<1>8. /\ new \subseteq Ids /\ subNextId \in new
      /\ new \cap SubIds = {}
      /\ \A i \in new : i < subNextId + n
  <2>1. \A i \in SubIds : i < subNextId /\ i \in Nat
    BY DEF IInv, IdsFresh, TypeOK, DispatcherTypeOK, SubIds, Ids
  <2> QED BY <1>4, <1>5, <1>6, <2>1 DEF Ids, p
<1>9. /\ DOMAIN schQ' = DOMAIN schQ \cup new
      /\ \A i \in DOMAIN schQ : schQ'[i] = schQ[i]
      /\ \A i \in new : schQ'[i] = [parent |-> req.id, block |-> i - subNextId]
  <2>1. schQ' = WithSubRequests(schQ, req)
    BY <1>1 DEF process_batch_request
  <2>2. DOMAIN schQ' = DOMAIN schQ \cup new /\ \A i \in DOMAIN schQ : schQ'[i] = schQ[i]
    BY <1>7, <2>1 DEF WithSubRequests
  <2>3. ASSUME NEW i \in new
        PROVE  schQ'[i] = [parent |-> req.id, block |-> i - subNextId]
    <3>1. i \notin DOMAIN schQ
      BY <1>8 DEF SubIds
    <3>2. schQ'[i] = [parent |-> req.id,
                      block |-> CHOOSE b \in req.mask : SubId(req.mask, b) = i]
      BY <1>7, <2>1, <3>1 DEF WithSubRequests
    <3>3. i - subNextId \in req.mask /\ SubId(req.mask, i - subNextId) = i
      BY <1>3, <1>4, <1>5
    <3>4. \A b \in req.mask : SubId(req.mask, b) = i => b = i - subNextId
      BY <1>5
    <3> QED BY <3>2, <3>3, <3>4
  <2> QED BY <2>2, <2>3
<1>10. \A i \in new : i - subNextId \in req.mask
  BY <1>3, <1>4, <1>5
<1>11. \A b \in req.mask : subNextId + b \in new /\ (subNextId + b) - subNextId = b
  BY <1>3, <1>4, <1>5
<1>12. \A i, j \in new : i - subNextId = j - subNextId => i = j
  BY <1>4, <1>5
<1>13. subNextId' = subNextId + n
  BY <1>1, <1>5 DEF process_batch_request
<1> HIDE DEF new
<1>14. /\ req.id \notin DOMAIN reqQ
       /\ DOMAIN reqQ' = DOMAIN reqQ \cup {req.id}
       /\ reqQ'[req.id] = req.mask
       /\ \A r \in DOMAIN reqQ : reqQ'[r] = reqQ[r]
  <2>1. req.id \notin DOMAIN reqQ
    BY <1>1 DEF IInv, ClientDispatcherAgree
  <2> QED BY <1>1, <2>1 DEF process_batch_request, p_enqueue
<1>15. /\ present.sch_ref = {}
       /\ present.workstream_req = {} /\ present.task_result = {}
       /\ present.workstream_response = {} /\ present.batch_response = {}
  BY <1>2, TurnOrder DEF dispatcher_batch_request, IInv, PortsFollow
<1>16. /\ DOMAIN present' = Triggers
       /\ present'.batch_request = {}
       /\ \A t \in Triggers \ {"batch_request"} : present'[t] = present[t]
  BY TriggerNames DEF dispatcher_batch_request, IInv, TypeOK, PresentTypeOK
<1>17. /\ UNCHANGED <<tag, stop, crashed, diskQ, taskQ>>
       /\ UNCHANGED <<refCounter, terminate, clientNextId, clientOut>>
  BY DEF dispatcher_batch_request, clientVars
<1>18. pending' = IF DOMAIN schQ = {} THEN Scheduled("storage_req_trigger", 0, 0) ELSE pending
  BY DEF dispatcher_batch_request, WakesScheduler, is_empty
<1>19. /\ IsFiniteSet(pending')
       /\ pending \subseteq pending'
       /\ \A e \in pending' \ pending :
            /\ e \in [action : Actions, id : Ids, time : Nat, micro : Nat]
            /\ e.action = "storage_req_trigger" /\ e.id = 0
            /\ \A f \in pending : f.action = e.action /\ f.time = e.time
                                  => f.micro # e.micro
       /\ \A e, f \in pending' \ pending : e = f
       /\ pending' \ pending = {} <=> DOMAIN schQ # {}
  <2>1. TypeOK /\ (DOMAIN schQ = {}) \in BOOLEAN
    BY DEF IInv
  <2> QED BY <1>18, <2>1, ArmsTrigger
<1>20. RuntimeTypeOK'
  <2>1. pending' \subseteq [action : Actions, id : Ids, time : Nat, micro : Nat]
    BY <1>19 DEF IInv, TypeOK, RuntimeTypeOK
  <2>2. \A e \in pending' : e.action # "fetch_page" => e.id = 0
    BY <1>19 DEF IInv, TypeOK, RuntimeTypeOK
  <2> QED BY <1>17, <1>19, <2>1, <2>2 DEF IInv, TypeOK, RuntimeTypeOK
<1>21. PresentTypeOK' /\ ClientTypeOK' /\ (taskQ \subseteq Ids)'
  BY <1>16, <1>17, TriggerNames DEF IInv, TypeOK, PresentTypeOK, ClientTypeOK
<1>22. DispatcherTypeOK'
  <2>1. subNextId' \in Ids
    BY <1>4, <1>5, <1>6, <1>13 DEF Ids, p
  <2>2. DOMAIN reqQ' \subseteq Ids /\ \A r \in DOMAIN reqQ' : reqQ'[r] \in SUBSET Blocks
    BY <1>2, <1>14 DEF IInv, TypeOK, DispatcherTypeOK
  <2>3. DOMAIN schQ' \subseteq Ids
    BY <1>8, <1>9 DEF IInv, TypeOK, DispatcherTypeOK
  <2>4. \A i \in DOMAIN schQ' : schQ'[i] \in [parent : Ids, block : Blocks]
    BY <1>2, <1>9, <1>10 DEF IInv, TypeOK, DispatcherTypeOK
  <2> QED BY <1>17, <2>1, <2>2, <2>3, <2>4 DEF IInv, TypeOK, DispatcherTypeOK
<1>23. SubIds' = SubIds \cup new
  BY <1>9, <1>17 DEF SubIds
<1>24. /\ \A i \in SubIds : Sub(i)' = Sub(i)
       /\ \A i \in new : Sub(i)' = [parent |-> req.id, block |-> i - subNextId]
  BY <1>8, <1>9, <1>17 DEF Sub, SubIds
<1>25. NoCrash' /\ BlockAccounting'
  <2>1. DOMAIN schQ' \cap DOMAIN diskQ' = {}
    BY <1>8, <1>9, <1>17 DEF IInv, BlockAccounting, SubIds
  <2>2. \A i \in SubIds' : /\ Sub(i)'.parent \in DOMAIN reqQ'
                           /\ Sub(i)'.block \in reqQ'[Sub(i)'.parent]
    BY <1>10, <1>14, <1>23, <1>24 DEF IInv, BlockAccounting
  <2>3. \A i, j \in SubIds' : Sub(i)' = Sub(j)' => i = j
    <3>1. \A i \in SubIds : Sub(i).parent # req.id
      BY <1>14 DEF IInv, BlockAccounting
    <3>2. \A i, j \in SubIds : Sub(i) = Sub(j) => i = j
      BY DEF IInv, BlockAccounting
    <3>3. \A i, j \in new : Sub(i)' = Sub(j)' => i = j
      BY <1>12, <1>24
    <3>4. \A i \in SubIds, j \in new : Sub(i)' # Sub(j)'
      BY <1>24, <3>1
    <3> QED BY <1>23, <1>24, <3>2, <3>3, <3>4
  <2>4. ASSUME NEW r \in DOMAIN reqQ'
        PROVE  /\ reqQ'[r] # {}
               /\ \A b \in reqQ'[r] : \E i \in SubIds' : Sub(i)' = [parent |-> r, block |-> b]
    <3>1. CASE r = req.id
      <4>1. 0 \in req.mask
        BY <1>3, <1>4
      <4> QED BY <1>11, <1>14, <1>23, <1>24, <3>1, <4>1
    <3>2. CASE r \in DOMAIN reqQ
      BY <1>14, <1>23, <1>24, <3>2 DEF IInv, BlockAccounting
    <3> QED BY <1>14, <3>1, <3>2
  <2> QED BY <1>17, <2>1, <2>2, <2>3, <2>4 DEF IInv, NoCrash, BlockAccounting
<1>26. DiskAccounting'
  <2>1. FetchEvents' = FetchEvents
    BY <1>19 DEF FetchEvents
  <2> QED BY <1>16, <1>17, <2>1, TriggerNames DEF IInv, DiskAccounting
<1>27. TriggerArmed'
  <2>1. DOMAIN schQ' # {}
    BY <1>8, <1>9
  <2>2. TriggerEvents' = TriggerEvents \cup (pending' \ pending)
    BY <1>19 DEF TriggerEvents
  <2>3. CASE DOMAIN schQ = {}
    <3>1. TriggerEvents = {} /\ present.storage_req_trigger = {}
      BY <2>3 DEF IInv, TriggerArmed, is_empty
    <3> QED BY <1>16, <1>19, <2>1, <2>2, <2>3, <3>1, TriggerNames DEF TriggerArmed, is_empty
  <2>4. CASE DOMAIN schQ # {}
    BY <1>16, <1>19, <2>1, <2>2, <2>4, TriggerNames DEF IInv, TriggerArmed, is_empty
  <2> QED BY <2>3, <2>4
<1>28. ClientDispatcherAgree'
  <2>1. {q.id : q \in present.batch_request} = {req.id} /\ clientOut[req.id].mask = req.mask
    BY <1>2 DEF IInv, ClientDispatcherAgree
  <2>2. \A r : InFlight(r) = {} /\ InFlight(r)' = {}
    BY <1>15, <1>16, TriggerNames DEF InFlight
  <2> QED BY <1>14, <1>15, <1>16, <1>17, <2>1, <2>2, TriggerNames
          DEF IInv, ClientDispatcherAgree
<1>29. PortsFollow'
  BY <1>15, <1>16, TriggerNames DEF PortsFollow
<1>30. SchRefOnce'
  <2>1. SchRefEvents' = SchRefEvents
    BY <1>19 DEF SchRefEvents
  <2> QED BY <1>16, <1>17, <2>1, TriggerNames DEF IInv, SchRefOnce
<1>31. RequestMask' /\ EventsDistinct'
  BY <1>16, <1>19 DEF IInv, RequestMask, EventsDistinct
<1>32. IdsFresh'
  <2>1. \A i \in SubIds' : i < subNextId'
    <3>1. \A i \in SubIds : i < subNextId /\ i \in Nat
      BY DEF IInv, IdsFresh, TypeOK, DispatcherTypeOK, SubIds, Ids
    <3>2. \A i \in SubIds : i < subNextId + n
      BY <1>4, <1>5, <3>1
    <3> QED BY <1>8, <1>13, <1>23, <3>2
  <2> QED BY <1>5, <1>13, <1>16, <1>17, <2>1 DEF IInv, IdsFresh
<1> QED BY <1>20, <1>21, <1>22, <1>25, <1>26, <1>27, <1>28, <1>29, <1>30, <1>31, <1>32
        DEF IInv, TypeOK

LEMMA DispatcherTriggerStep ==
  ASSUME IInv, dispatcher_storage_req_trigger, UNCHANGED <<clientVars, taskQ>>
  PROVE  IInv'
<1> DEFINE id == HeadId(schQ)
<1>1. /\ present.storage_req_trigger # {}
      /\ present.sch_ref = {} /\ present.batch_request = {}
      /\ present.workstream_req = {} /\ present.task_result = {}
      /\ present.workstream_response = {} /\ present.batch_response = {}
  BY TurnOrder, TriggerNames DEF dispatcher_storage_req_trigger, IInv, PortsFollow
<1>2. DOMAIN schQ # {} /\ TriggerEvents = {}
  BY <1>1 DEF IInv, TriggerArmed, is_empty
<1>3. id \in DOMAIN schQ /\ id \in Ids
  BY <1>2, HeadIdInDomain DEF IInv, TypeOK, DispatcherTypeOK, Ids
<1>4. id \notin DOMAIN diskQ
  BY <1>3 DEF IInv, BlockAccounting
<1>5. /\ DOMAIN schQ' = DOMAIN schQ \ {id}
      /\ \A i \in DOMAIN schQ' : schQ'[i] = schQ[i]
  BY <1>2 DEF dispatcher_storage_req_trigger, schedule_disk_request, is_empty,
              pop, pop_by_id
<1>6. /\ DOMAIN diskQ' = DOMAIN diskQ \cup {id}
      /\ \A i \in DOMAIN diskQ : diskQ'[i] = diskQ[i]
      /\ diskQ'[id] = schQ[id]
  BY <1>2, <1>4 DEF dispatcher_storage_req_trigger, schedule_disk_request,
                    is_empty, p_enqueue
<1>7. /\ DOMAIN present' = Triggers
      /\ present'.storage_req_trigger = {} /\ present'.workstream_req = {id}
      /\ \A t \in Triggers \ {"storage_req_trigger", "workstream_req"} :
           present'[t] = present[t]
  BY <1>2, TriggerNames DEF dispatcher_storage_req_trigger, schedule_disk_request,
                            is_empty, IInv, TypeOK, PresentTypeOK
<1>8. /\ UNCHANGED <<tag, stop, crashed, reqQ, subNextId, taskQ>>
      /\ UNCHANGED <<refCounter, terminate, clientNextId, clientOut>>
  BY DEF dispatcher_storage_req_trigger, clientVars
<1>9. pending' = IF DOMAIN schQ' # {} THEN Scheduled("storage_req_trigger", 0, 0)
                 ELSE pending
  BY DEF dispatcher_storage_req_trigger, Rearms, is_empty
<1> HIDE DEF id
<1>10. /\ IsFiniteSet(pending')
       /\ pending \subseteq pending'
       /\ \A e \in pending' \ pending :
            /\ e \in [action : Actions, id : Ids, time : Nat, micro : Nat]
            /\ e.action = "storage_req_trigger" /\ e.id = 0
            /\ \A f \in pending : f.action = e.action /\ f.time = e.time
                                  => f.micro # e.micro
       /\ \A e, f \in pending' \ pending : e = f
       /\ pending' \ pending = {} <=> ~(DOMAIN schQ' # {})
  <2>1. TypeOK /\ (DOMAIN schQ' # {}) \in BOOLEAN
    BY DEF IInv
  <2> QED BY <1>9, <2>1, ArmsTrigger
<1>11. RuntimeTypeOK'
  <2>1. pending' \subseteq [action : Actions, id : Ids, time : Nat, micro : Nat]
    BY <1>10 DEF IInv, TypeOK, RuntimeTypeOK
  <2>2. \A e \in pending' : e.action # "fetch_page" => e.id = 0
    BY <1>10 DEF IInv, TypeOK, RuntimeTypeOK
  <2> QED BY <1>8, <1>10, <2>1, <2>2 DEF IInv, TypeOK, RuntimeTypeOK
<1>12. PresentTypeOK' /\ ClientTypeOK' /\ (taskQ \subseteq Ids)'
  BY <1>3, <1>7, <1>8, TriggerNames DEF IInv, TypeOK, PresentTypeOK, ClientTypeOK
<1>13. DispatcherTypeOK'
  BY <1>3, <1>5, <1>6, <1>8 DEF IInv, TypeOK, DispatcherTypeOK
<1>14. SubIds' = SubIds /\ \A i \in SubIds : Sub(i)' = Sub(i)
  BY <1>3, <1>4, <1>5, <1>6 DEF SubIds, Sub, IInv, BlockAccounting
<1>15. NoCrash' /\ BlockAccounting'
  <2>1. DOMAIN schQ' \cap DOMAIN diskQ' = {}
    BY <1>3, <1>4, <1>5, <1>6 DEF IInv, BlockAccounting
  <2>2. \A i \in SubIds' : /\ Sub(i)'.parent \in DOMAIN reqQ'
                           /\ Sub(i)'.block \in reqQ'[Sub(i)'.parent]
    BY <1>8, <1>14 DEF IInv, BlockAccounting
  <2>3. \A i, j \in SubIds' : Sub(i)' = Sub(j)' => i = j
    BY <1>14 DEF IInv, BlockAccounting
  <2>4. \A r \in DOMAIN reqQ' :
          /\ reqQ'[r] # {}
          /\ \A b \in reqQ'[r] : \E i \in SubIds' : Sub(i)' = [parent |-> r, block |-> b]
    BY <1>8, <1>14 DEF IInv, BlockAccounting
  <2> QED BY <1>8, <2>1, <2>2, <2>3, <2>4 DEF IInv, NoCrash, BlockAccounting
<1>16. DiskAccounting'
  <2>1. FetchEvents' = FetchEvents
    BY <1>10 DEF FetchEvents
  <2> QED BY <1>1, <1>4, <1>6, <1>7, <1>8, <2>1, TriggerNames DEF IInv, DiskAccounting
<1>17. TriggerArmed'
  <2>1. TriggerEvents' = pending' \ pending
    BY <1>2, <1>10 DEF TriggerEvents
  <2> QED BY <1>7, <1>10, <2>1, TriggerNames DEF TriggerArmed, is_empty
<1>18. ClientDispatcherAgree'
  BY <1>7, <1>8, TriggerNames DEF IInv, ClientDispatcherAgree, InFlight
<1>19. PortsFollow'
  BY <1>1, <1>7, TriggerNames DEF PortsFollow
<1>20. SchRefOnce'
  <2>1. SchRefEvents' = SchRefEvents
    BY <1>10 DEF SchRefEvents
  <2> QED BY <1>7, <1>8, <2>1, TriggerNames DEF IInv, SchRefOnce
<1>21. RequestMask' /\ IdsFresh'
  BY <1>7, <1>8, <1>14, TriggerNames DEF IInv, RequestMask, IdsFresh
<1>22. EventsDistinct'
  BY <1>10 DEF IInv, EventsDistinct
<1> QED BY <1>11, <1>12, <1>13, <1>15, <1>16, <1>17, <1>18, <1>19, <1>20, <1>21, <1>22
        DEF IInv, TypeOK

LEMMA DispatcherResponseStep ==
  ASSUME IInv, dispatcher_workstream_rsp, UNCHANGED <<clientVars, taskQ>>
  PROVE  IInv'
<1>1. PICK id \in present.task_result : process_disk_response(id)
  BY DEF dispatcher_workstream_rsp
<1>2. present.task_result = {id} /\ id \in Ids
  BY <1>1, TriggerNames DEF IInv, TypeOK, PresentTypeOK
<1>3. id \in DOMAIN diskQ /\ id \in SubIds /\ id \notin DOMAIN schQ
  BY <1>1 DEF IInv, DiskAccounting, BlockAccounting, SubIds
<1> DEFINE r == diskQ[id].parent
           b == diskQ[id].block
           mask == reqQ[r] \ {b}
<1>4. Sub(id) = diskQ[id]
  BY <1>3 DEF Sub
<1>5. r \in DOMAIN reqQ /\ b \in reqQ[r] /\ r \in Ids /\ b \in Blocks
  BY <1>3, <1>4 DEF IInv, BlockAccounting, TypeOK, DispatcherTypeOK
<1>6. ~is_empty(diskQ)
  BY <1>3 DEF is_empty
<1>7. /\ DOMAIN diskQ' = DOMAIN diskQ \ {id}
      /\ \A i \in DOMAIN diskQ' : diskQ'[i] = diskQ[i]
      /\ reqQ' = IF mask = {} THEN pop_by_id(reqQ, r) ELSE [reqQ EXCEPT ![r] = mask]
      /\ present' = [present EXCEPT !.task_result = {},
                       !.workstream_response = {[id |-> r, block |-> b]},
                       !.batch_response = IF mask = {} THEN {r} ELSE {}]
      /\ UNCHANGED crashed
  <2>1. diskQ' = pop_by_id(diskQ, id)
    BY <1>1, <1>3, <1>5, <1>6 DEF process_disk_response
  <2> QED BY <1>1, <1>3, <1>5, <1>6, <2>1
          DEF process_disk_response, pop_by_id, SendResponses, Without
<1>8. /\ DOMAIN reqQ' = IF mask = {} THEN DOMAIN reqQ \ {r} ELSE DOMAIN reqQ
      /\ \A s \in DOMAIN reqQ' : reqQ'[s] = IF s = r THEN mask ELSE reqQ[s]
  BY <1>5, <1>7 DEF pop_by_id
<1>9. /\ DOMAIN present' = Triggers
      /\ present'.task_result = {}
      /\ present'.workstream_response = {[id |-> r, block |-> b]}
      /\ present'.batch_response = IF mask = {} THEN {r} ELSE {}
      /\ \A t \in Triggers \ {"task_result", "workstream_response", "batch_response"} :
           present'[t] = present[t]
  BY <1>7, TriggerNames DEF IInv, TypeOK, PresentTypeOK
<1>10. /\ present.sch_ref = {} /\ present.batch_request = {}
       /\ present.storage_req_trigger = {} /\ present.workstream_req = {}
       /\ present.fetch_page = {}
       /\ present.workstream_response = {} /\ present.batch_response = {}
  BY <1>2, TurnOrder DEF dispatcher_workstream_rsp, IInv, PortsFollow
<1>11. /\ UNCHANGED <<tag, pending, stop, schQ, subNextId, taskQ>>
       /\ UNCHANGED <<refCounter, terminate, clientNextId, clientOut>>
  BY DEF dispatcher_workstream_rsp, clientVars
<1>12. mask \subseteq reqQ[r] /\ b \notin mask
  OBVIOUS
<1>13. \A s \in DOMAIN reqQ' : s \in DOMAIN reqQ /\ reqQ'[s] \subseteq reqQ[s]
  BY <1>8, <1>12
<1>14. \A s \in DOMAIN reqQ' : s = r => mask # {}
  BY <1>8
<1> HIDE DEF mask
<1>15. RuntimeTypeOK' /\ ClientTypeOK' /\ (taskQ \subseteq Ids)'
  BY <1>7, <1>11 DEF IInv, TypeOK, RuntimeTypeOK, ClientTypeOK
<1>16. PresentTypeOK'
  <2>1. present'.workstream_response \subseteq [id : Ids, block : Blocks]
    BY <1>5, <1>9
  <2>2. present'.batch_response \subseteq Ids
    BY <1>5, <1>9
  <2>3. \A t \in Triggers : \A v, w \in present'[t] : v = w
    BY <1>9, TriggerNames DEF IInv, TypeOK, PresentTypeOK
  <2> QED BY <1>9, <2>1, <2>2, <2>3, TriggerNames DEF IInv, TypeOK, PresentTypeOK
<1>17. DispatcherTypeOK'
  <2>1. DOMAIN reqQ' \subseteq Ids /\ \A s \in DOMAIN reqQ' : reqQ'[s] \in SUBSET Blocks
    BY <1>13 DEF IInv, TypeOK, DispatcherTypeOK
  <2> QED BY <1>7, <1>11, <2>1 DEF IInv, TypeOK, DispatcherTypeOK
<1>18. SubIds' = SubIds \ {id} /\ \A i \in SubIds' : Sub(i)' = Sub(i)
  BY <1>3, <1>7, <1>11 DEF SubIds, Sub
<1>19. \A i \in SubIds' : ~(Sub(i).parent = r /\ Sub(i).block = b)
  <2>1. \A i \in SubIds : Sub(i) \in [parent : Ids, block : Blocks]
    BY DEF IInv, TypeOK, DispatcherTypeOK, SubIds, Sub
  <2>2. ASSUME NEW i \in SubIds, Sub(i).parent = r, Sub(i).block = b PROVE i = id
    <3>1. Sub(i) = Sub(id)
      BY <1>3, <1>4, <2>1, <2>2
    <3> QED BY <1>3, <3>1 DEF IInv, BlockAccounting
  <2> QED BY <1>18, <2>2
<1>20. NoCrash' /\ BlockAccounting'
  <2>1. DOMAIN schQ' \cap DOMAIN diskQ' = {}
    BY <1>7, <1>11 DEF IInv, BlockAccounting
  <2>2. ASSUME NEW i \in SubIds'
        PROVE  Sub(i)'.parent \in DOMAIN reqQ' /\ Sub(i)'.block \in reqQ'[Sub(i)'.parent]
    <3>1. Sub(i).parent \in DOMAIN reqQ /\ Sub(i).block \in reqQ[Sub(i).parent]
      BY <1>18 DEF IInv, BlockAccounting
    <3>2. CASE Sub(i).parent = r
      <4>1. Sub(i).block \in mask
        BY <1>19, <3>1, <3>2 DEF mask
      <4> QED BY <1>8, <1>18, <3>1, <3>2, <4>1
    <3>3. CASE Sub(i).parent # r
      BY <1>8, <1>18, <3>1, <3>3
    <3> QED BY <3>2, <3>3
  <2>3. \A i, j \in SubIds' : Sub(i)' = Sub(j)' => i = j
    BY <1>18 DEF IInv, BlockAccounting
  <2>4. \A s \in DOMAIN reqQ' : reqQ'[s] # {}
    BY <1>8, <1>13, <1>14 DEF IInv, BlockAccounting
  <2>5. ASSUME NEW s \in DOMAIN reqQ', NEW c \in reqQ'[s]
        PROVE  \E i \in SubIds' : Sub(i)' = [parent |-> s, block |-> c]
    <3>1. PICK i \in SubIds : Sub(i) = [parent |-> s, block |-> c]
      BY <1>13 DEF IInv, BlockAccounting
    <3>2. i # id
      BY <1>4, <1>8, <1>12, <3>1
    <3> QED BY <1>18, <3>1, <3>2
  <2> QED BY <1>7, <2>1, <2>2, <2>3, <2>4, <2>5 DEF IInv, NoCrash, BlockAccounting
<1>21. DiskAccounting'
  <2>1. FetchEvents' = FetchEvents
    BY <1>11 DEF FetchEvents
  <2> QED BY <1>2, <1>7, <1>9, <1>10, <1>11, <2>1, TriggerNames DEF IInv, DiskAccounting
<1>22. TriggerArmed'
  BY <1>9, <1>11, TriggerNames DEF IInv, TriggerArmed, TriggerEvents, is_empty
<1>23. ClientDispatcherAgree'
  <2>1. DOMAIN clientOut = DOMAIN reqQ
    BY <1>10 DEF IInv, ClientDispatcherAgree
  <2>2. \A s \in DOMAIN reqQ : clientOut[s].mask = reqQ[s]
    <3>1. \A s : InFlight(s) = {}
      BY <1>10 DEF InFlight
    <3>2. \A s \in DOMAIN reqQ : clientOut[s].mask = reqQ[s] \cup InFlight(s)
      BY DEF IInv, ClientDispatcherAgree
    <3> QED BY <3>1, <3>2
  <2>3. \A s : InFlight(s)' = IF s = r THEN {b} ELSE {}
    <3>1. present'.workstream_response = {[id |-> r, block |-> b]}
      BY <1>9
    <3>2. \A s : s # r => InFlight(s)' = {}
      BY <3>1 DEF InFlight
    <3>3. ASSUME NEW s, s = r PROVE InFlight(s)' = {b}
      <4>1. {x \in present'.workstream_response : x.id = s} = {[id |-> r, block |-> b]}
        BY <3>1, <3>3
      <4>2. [id |-> r, block |-> b].block = b
        OBVIOUS
      <4> HIDE DEF r, b
      <4>3. {rsp.block : rsp \in {[id |-> r, block |-> b]}} = {b}
        BY <4>2
      <4> QED BY <4>1, <4>3 DEF InFlight
    <3> QED BY <3>2, <3>3
  <2>4. DOMAIN clientOut' = DOMAIN reqQ' \cup {q.id : q \in present'.batch_request}
                                        \cup present'.batch_response
    BY <1>5, <1>8, <1>9, <1>10, <1>11, <2>1, TriggerNames
  <2>5. present'.batch_response \cap DOMAIN reqQ' = {}
    BY <1>8, <1>9
  <2>6. \A s \in DOMAIN reqQ' : clientOut'[s].mask = reqQ'[s] \cup InFlight(s)'
    <3>1. reqQ[r] = mask \cup {b}
      BY <1>5 DEF mask
    <3> QED BY <1>8, <1>11, <1>13, <2>2, <2>3, <3>1
  <2>7. \A s \in present'.batch_response : clientOut'[s].mask = InFlight(s)'
    <3>1. mask = {} => reqQ[r] = {b}
      BY <1>5 DEF mask
    <3> QED BY <1>5, <1>9, <1>11, <2>2, <2>3, <3>1
  <2>8. \A rsp \in present'.workstream_response :
          \/ rsp.id \in DOMAIN reqQ' /\ rsp.block \notin reqQ'[rsp.id]
          \/ rsp.id \in present'.batch_response
    BY <1>5, <1>8, <1>9, <1>12
  <2> QED BY <1>9, <1>10, <2>4, <2>5, <2>6, <2>7, <2>8, TriggerNames
          DEF ClientDispatcherAgree
<1>24. PortsFollow'
  BY <1>9, <1>10, TriggerNames DEF PortsFollow
<1>25. SchRefOnce'
  BY <1>9, <1>11, TriggerNames DEF IInv, SchRefOnce, SchRefEvents
<1>26. RequestMask' /\ EventsDistinct'
  BY <1>9, <1>11, TriggerNames DEF IInv, RequestMask, EventsDistinct
<1>27. IdsFresh'
  BY <1>9, <1>11, <1>18, TriggerNames DEF IInv, IdsFresh
<1> QED BY <1>15, <1>16, <1>17, <1>20, <1>21, <1>22, <1>23, <1>24, <1>25, <1>26, <1>27
        DEF IInv, TypeOK

\* The next tag, whether it comes from the event queue or from a stop.
LEMMA EnterTagStep ==
  ASSUME IInv, NEW t \in Nat, NEW m \in Nat, present = Quiet, EnterTag(t, m),
         stop' \in {"no", "requested", "final", "done"},
         UNCHANGED <<clientVars, dispatcherVars, taskQ>>
  PROVE  IInv'
<1> DEFINE due(a) == {e \in pending : e.action = a /\ e.time = t /\ e.micro = m}
<1>1. \A p \in Triggers : present[p] = {}
  BY DEF Quiet
<1>2. /\ DOMAIN present' = Triggers
      /\ \A a \in Actions : present'[a] = {e.id : e \in due(a)}
      /\ \A p \in Triggers \ Actions : present'[p] = {}
  <2>1. TypeOK
    BY DEF IInv
  <2>2. \A a : {f \in At(t, m) : f.action = a} = due(a)
    BY DEF At
  <2> HIDE DEF due
  <2> QED BY <2>1, <2>2, EnterTagPresent
<1>3. /\ present'.sch_ref = {e.id : e \in due("sch_ref")}
      /\ present'.storage_req_trigger = {e.id : e \in due("storage_req_trigger")}
      /\ present'.fetch_page = {e.id : e \in due("fetch_page")}
      /\ present'.batch_request = {} /\ present'.workstream_req = {}
      /\ present'.task_result = {} /\ present'.workstream_response = {}
      /\ present'.batch_response = {}
  <2> HIDE DEF due
  <2> QED BY <1>2, TriggerNames DEF Actions
<1>4. pending' = {e \in pending : ~(e.time = t /\ e.micro = m)}
  BY DEF EnterTag, At
<1>5. \A a : \A e, f \in due(a) : e = f
  BY DEF IInv, EventsDistinct
<1>6. UNCHANGED <<crashed, refCounter, terminate, clientNextId, clientOut, reqQ,
                  schQ, diskQ, subNextId, taskQ>>
  BY DEF EnterTag, clientVars, dispatcherVars
<1>7. RuntimeTypeOK'
  <2>1. IsFiniteSet(pending')
    BY <1>4, FS_Subset DEF IInv, TypeOK, RuntimeTypeOK
  <2>2. tag' \in [time : Nat, micro : Nat]
    BY DEF EnterTag
  <2> QED BY <1>4, <1>6, <2>1, <2>2 DEF IInv, TypeOK, RuntimeTypeOK
<1>8. PresentTypeOK'
  <2>1. \A e \in due("sch_ref") \cup due("storage_req_trigger") : e.id = 0
    BY DEF IInv, TypeOK, RuntimeTypeOK
  <2>2. \A e \in due("fetch_page") : e.id \in Ids
    BY DEF IInv, TypeOK, RuntimeTypeOK
  <2> HIDE DEF due
  <2>3. /\ present'.sch_ref \subseteq {0} /\ present'.storage_req_trigger \subseteq {0}
        /\ present'.fetch_page \subseteq Ids
    BY <1>3, <2>1, <2>2
  <2>4. \A a \in Actions : \A v, w \in present'[a] : v = w
    BY <1>2, <1>5
  <2>5. \A p \in Triggers : \A v, w \in present'[p] : v = w
    BY <1>2, <2>4
  <2> QED BY <1>2, <1>3, <2>3, <2>5 DEF PresentTypeOK
<1>9. ClientTypeOK' /\ DispatcherTypeOK' /\ (taskQ \subseteq Ids)'
  BY <1>6 DEF IInv, TypeOK, ClientTypeOK, DispatcherTypeOK
<1>10. NoCrash' /\ BlockAccounting'
  BY <1>6 DEF IInv, NoCrash, BlockAccounting, SubIds, Sub
<1>11. DiskAccounting'
  <2>1. /\ DOMAIN diskQ = taskQ /\ taskQ = {e.id : e \in FetchEvents}
        /\ \A e, f \in FetchEvents : e.id = f.id => e = f
    BY <1>1, TriggerNames DEF IInv, DiskAccounting
  <2>2. /\ FetchEvents = FetchEvents' \cup due("fetch_page")
        /\ FetchEvents' \cap due("fetch_page") = {}
    BY <1>4 DEF FetchEvents
  <2> HIDE DEF due
  <2>3. taskQ = {e.id : e \in FetchEvents'} \cup present'.fetch_page
    BY <1>3, <2>1, <2>2
  <2>4. \A e \in FetchEvents' : e.id \notin present'.fetch_page
    BY <1>3, <2>1, <2>2
  <2>5. \A e, f \in FetchEvents' : e.id = f.id => e = f
    BY <2>1, <2>2
  <2> QED BY <1>3, <1>6, <2>1, <2>3, <2>4, <2>5 DEF DiskAccounting
<1>12. TriggerArmed'
  <2>1. /\ TriggerEvents = TriggerEvents' \cup due("storage_req_trigger")
        /\ TriggerEvents' \cap due("storage_req_trigger") = {}
    BY <1>4 DEF TriggerEvents
  <2>2. /\ DOMAIN schQ = {} <=> TriggerEvents = {}
        /\ \A e, f \in TriggerEvents : e = f
    BY <1>1, TriggerNames DEF IInv, TriggerArmed, is_empty
  <2> HIDE DEF due
  <2>3. present'.storage_req_trigger = {} <=> due("storage_req_trigger") = {}
    <3>1. \A e \in due("storage_req_trigger") : e.id \in present'.storage_req_trigger
      BY <1>3
    <3>2. \A v \in present'.storage_req_trigger : due("storage_req_trigger") # {}
      BY <1>3
    <3> QED BY <3>1, <3>2
  <2> QED BY <1>6, <2>1, <2>2, <2>3 DEF TriggerArmed, is_empty
<1>13. ClientDispatcherAgree'
  <2>1. \A r : InFlight(r) = {} /\ InFlight(r)' = {}
    BY <1>1, <1>3, TriggerNames DEF InFlight
  <2> QED BY <1>1, <1>3, <1>6, <2>1, TriggerNames DEF IInv, ClientDispatcherAgree
<1>14. PortsFollow' /\ RequestMask'
  BY <1>3 DEF PortsFollow, RequestMask
<1>15. SchRefOnce'
  <2>1. /\ SchRefEvents = SchRefEvents' \cup due("sch_ref")
        /\ SchRefEvents' \cap due("sch_ref") = {}
    BY <1>4 DEF SchRefEvents
  <2>2. /\ \A e, f \in SchRefEvents : e = f
        /\ SchRefEvents # {} => refCounter < Requests
    BY DEF IInv, SchRefOnce
  <2> HIDE DEF due
  <2>3. present'.sch_ref = {} <=> due("sch_ref") = {}
    <3>1. \A e \in due("sch_ref") : e.id \in present'.sch_ref
      BY <1>3
    <3>2. \A v \in present'.sch_ref : due("sch_ref") # {}
      BY <1>3
    <3> QED BY <3>1, <3>2
  <2> QED BY <1>6, <2>1, <2>2, <2>3 DEF SchRefOnce, Requests
<1>16. IdsFresh'
  <2>1. present.batch_request = {} /\ present'.batch_request = {}
    BY <1>1, <1>3, TriggerNames
  <2>2. SubIds' = SubIds
    BY <1>6 DEF SubIds
  <2> QED BY <1>6, <2>1, <2>2 DEF IInv, IdsFresh
<1>17. EventsDistinct'
  BY <1>4 DEF IInv, EventsDistinct
<1> QED BY <1>7, <1>8, <1>9, <1>10, <1>11, <1>12, <1>13, <1>14, <1>15, <1>16, <1>17
        DEF IInv, TypeOK

LEMMA RuntimeStepIInv ==
  ASSUME IInv, RuntimeStep
  PROVE  IInv'
<1>1. tag.time \in Nat /\ tag.micro \in Nat
  BY DEF IInv, TypeOK, RuntimeTypeOK
<1>2. stop \in {"no", "requested", "final", "done"}
  BY DEF IInv, TypeOK, RuntimeTypeOK
<1>3. CASE AdvanceTag
  <2>1. PICK e \in pending : EnterTag(e.time, e.micro)
    BY <1>3 DEF AdvanceTag
  <2>2. e.time \in Nat /\ e.micro \in Nat
    BY DEF IInv, TypeOK, RuntimeTypeOK
  <2>3. present = Quiet /\ stop' = stop
    BY <1>3 DEF AdvanceTag
  <2> QED BY <1>2, <2>1, <2>2, <2>3, EnterTagStep DEF RuntimeStep
<1>4. CASE AdvanceToStopTag
  <2>1. EnterTag(tag.time, tag.micro + 1) /\ present = Quiet /\ stop' = "final"
    BY <1>4 DEF AdvanceToStopTag
  <2>2. tag.micro + 1 \in Nat
    BY <1>1
  <2> QED BY <1>1, <2>1, <2>2, EnterTagStep DEF RuntimeStep
<1>5. CASE Shutdown
  <2>1. /\ stop' = "done"
        /\ UNCHANGED <<tag, pending, present, crashed, refCounter, terminate,
                       clientNextId, clientOut, reqQ, schQ, diskQ, subNextId, taskQ>>
    BY <1>5 DEF Shutdown, RuntimeStep, clientVars, dispatcherVars
  <2>2. TypeOK'
    BY <2>1 DEF IInv, TypeOK, RuntimeTypeOK, PresentTypeOK, ClientTypeOK, DispatcherTypeOK
  <2>3. NoCrash' /\ BlockAccounting' /\ DiskAccounting' /\ TriggerArmed'
    BY <2>1 DEF IInv, NoCrash, BlockAccounting, SubIds, Sub, DiskAccounting,
                FetchEvents, TriggerArmed, TriggerEvents, is_empty
  <2>4. ClientDispatcherAgree' /\ PortsFollow' /\ SchRefOnce' /\ RequestMask'
    BY <2>1 DEF IInv, ClientDispatcherAgree, InFlight, PortsFollow, SchRefOnce,
                SchRefEvents, RequestMask
  <2>5. IdsFresh' /\ EventsDistinct'
    BY <2>1 DEF IInv, IdsFresh, SubIds, EventsDistinct
  <2> QED BY <2>2, <2>3, <2>4, <2>5 DEF IInv
<1> QED BY <1>3, <1>4, <1>5 DEF RuntimeStep

LEMMA StutterIInv ==
  ASSUME IInv, UNCHANGED vars
  PROVE  IInv'
<1>1. UNCHANGED <<tag, pending, present, stop, crashed, refCounter, terminate,
                  clientNextId, clientOut, reqQ, schQ, diskQ, subNextId, taskQ>>
  BY DEF vars, rtVars, clientVars, dispatcherVars
<1>2. TypeOK'
  BY <1>1 DEF IInv, TypeOK, RuntimeTypeOK, PresentTypeOK, ClientTypeOK, DispatcherTypeOK
<1>3. NoCrash' /\ BlockAccounting' /\ DiskAccounting' /\ TriggerArmed'
  BY <1>1 DEF IInv, NoCrash, BlockAccounting, SubIds, Sub, DiskAccounting,
              FetchEvents, TriggerArmed, TriggerEvents, is_empty
<1>4. ClientDispatcherAgree' /\ PortsFollow' /\ SchRefOnce' /\ RequestMask'
  BY <1>1 DEF IInv, ClientDispatcherAgree, InFlight, PortsFollow, SchRefOnce,
              SchRefEvents, RequestMask
<1>5. IdsFresh' /\ EventsDistinct'
  BY <1>1 DEF IInv, IdsFresh, SubIds, EventsDistinct
<1> QED BY <1>2, <1>3, <1>4, <1>5 DEF IInv

LEMMA NextIInv ==
  ASSUME NoWrap, IInv, [Next]_vars
  PROVE  IInv'
<1>1. CASE ClientStep
  BY <1>1, ClientSchRefStep, ClientInterimStep, ClientResponseStep DEF ClientStep
<1>2. CASE DispatcherStep
  BY <1>2, DispatcherRequestStep, DispatcherTriggerStep, DispatcherResponseStep
     DEF DispatcherStep
<1>3. CASE WorkerStep
  BY <1>3, WorkerTaskStep, WorkerFetchPageStep DEF WorkerStep
<1>4. CASE RuntimeStep
  BY <1>4, RuntimeStepIInv
<1>5. CASE UNCHANGED vars
  BY <1>5, StutterIInv
<1> QED BY <1>1, <1>2, <1>3, <1>4, <1>5 DEF Next, Ended

\* What a step may do to the client's requests.
LEMMA StepAnswersComplete ==
  ASSUME IInv, [Next]_vars
  PROVE  [\A r \in DOMAIN clientOut :
            r \notin DOMAIN clientOut' => clientOut[r].mask = {}]_vars
<1> SUFFICES ASSUME NEW r \in DOMAIN clientOut, r \notin DOMAIN clientOut'
             PROVE  clientOut[r].mask = {}
  OBVIOUS
<1>1. CASE client_sch_ref
  BY <1>1 DEF client_sch_ref, schedule_reference, p_enqueue
<1>2. CASE client_workstream_rsp
  BY <1>2 DEF client_workstream_rsp, client_interim_response
<1>3. CASE client_batch_response
  <2>1. PICK id \in present.batch_response : clientOut' = client_response(clientOut, id)
    BY <1>3 DEF client_batch_response
  <2>2. r = id
    BY <2>1 DEF client_response, pop_by_id
  <2>3. present.workstream_response = {}
    BY <1>3, TurnOrder DEF client_batch_response
  <2>4. InFlight(r) = {}
    BY <2>3 DEF InFlight
  <2> QED BY <2>1, <2>2, <2>4 DEF IInv, ClientDispatcherAgree
<1>4. CASE DispatcherStep \/ RuntimeStep \/ UNCHANGED vars
  BY <1>4 DEF DispatcherStep, RuntimeStep, vars, clientVars
<1>5. CASE WorkerStep
  BY <1>5 DEF WorkerStep, clientVars
<1> QED BY <1>1, <1>2, <1>3, <1>4, <1>5 DEF Next, ClientStep, Ended

-----------------------------------------------------------------------------
(* What the reactions do, given the inductive invariant *)

\* lf_schedule's event comes after the current tag, delay later, and in the first
\* microstep that the events of its action leave free there.
LEMMA ScheduledLater ==
  ASSUME TypeOK, NEW a \in Actions, NEW id \in Ids, NEW d \in Nat
  PROVE  \E e : /\ AddsEvent(e, a, id, Scheduled(a, id, d))
                /\ e.time = tag.time + d
                /\ d = 0 => tag.micro < e.micro
                /\ \A j \in 0 .. e.micro - 1 :
                     d > 0 \/ tag.micro < j => \E f \in Piled(a, e.time) : f.micro = j
<1> DEFINE t == tag.time + d
           m == IF d = 0 THEN tag.micro + 1 ELSE 0
           k == FreeMicro(Piled(a, t), m)
           e == [action |-> a, id |-> id, time |-> t, micro |-> k]
<1>1. t \in Nat /\ m \in Nat /\ tag.micro \in Nat
  BY DEF TypeOK, RuntimeTypeOK
<1>2. IsFiniteSet(Piled(a, t))
  BY FS_Subset DEF TypeOK, RuntimeTypeOK, Piled
<1>3. \A f \in Piled(a, t) : f.micro \in Nat
  BY DEF TypeOK, RuntimeTypeOK, Piled
<1>4. /\ k \in Nat /\ m <= k
      /\ \A f \in Piled(a, t) : f.micro # k
      /\ \A j \in m .. k - 1 : \E f \in Piled(a, t) : f.micro = j
  <2> HIDE DEF t, m
  <2> QED BY <1>1, <1>2, <1>3, FreeMicroIsFree
<1>5. Scheduled(a, id, d) = pending \cup {e}
  BY DEF Scheduled
<1> HIDE DEF k
<1>6. \A f \in pending : f.action = a /\ f.time = t => f.micro # k
  BY <1>4 DEF Piled
<1>7. e \in [action : Actions, id : Ids, time : Nat, micro : Nat]
  BY <1>1, <1>4
<1>8. e \notin pending
  BY <1>6
<1>9. AddsEvent(e, a, id, Scheduled(a, id, d))
  BY <1>5, <1>6, <1>7, <1>8 DEF AddsEvent
<1>10. d = 0 => tag.micro < e.micro
  BY <1>1, <1>4
<1>11. \A j \in 0 .. e.micro - 1 :
         d > 0 \/ tag.micro < j => \E f \in Piled(a, e.time) : f.micro = j
  BY <1>1, <1>4
<1> QED BY <1>9, <1>10, <1>11

\* reaction (sch_ref).
LEMMA SchRefEffect ==
  ASSUME IInv, NoWrap, client_sch_ref, UNCHANGED <<dispatcherVars, taskQ>>
  PROVE  \E len \in 1 .. MaxLen :
    /\ present.sch_ref # {} /\ refCounter < Requests /\ refCounter' = refCounter + 1
    /\ clientNextId = refCounter /\ refCounter \notin DOMAIN clientOut
    /\ DOMAIN clientOut' = DOMAIN clientOut \cup {refCounter}
    /\ clientOut'[refCounter] = [mask |-> 0 .. len - 1, ts |-> tag.time]
    /\ \A r \in DOMAIN clientOut : clientOut'[r] = clientOut[r]
    /\ present'.sch_ref = {}
    /\ present'.batch_request = {[id |-> refCounter, mask |-> 0 .. len - 1]}
    /\ \A t \in Triggers \ {"sch_ref", "batch_request"} : present'[t] = present[t]
    /\ UNCHANGED <<tag, stop, crashed, reqQ, schQ, diskQ, subNextId, taskQ>>
    /\ \/ pending' = pending /\ terminate' = TRUE
       \/ \E d \in Intervals :
            pending' = Scheduled("sch_ref", 0, d) /\ terminate' = terminate
<1>1. PICK len \in 1 .. MaxLen : schedule_reference(len)
  BY DEF client_sch_ref
<1>2. present.sch_ref # {}
  BY TurnOrder, TriggerNames DEF client_sch_ref
<1>3. refCounter < Requests /\ refCounter \in Nat
  BY <1>2 DEF IInv, SchRefOnce, TypeOK, ClientTypeOK
<1>4. clientNextId = refCounter /\ refCounter \notin DOMAIN clientOut
  BY <1>3 DEF IInv, IdsFresh
<1>5. clientOut' = p_enqueue(clientOut, refCounter, [mask |-> 0 .. len - 1, ts |-> tag.time])
  BY <1>1, <1>4 DEF schedule_reference
<1>6. /\ DOMAIN clientOut' = DOMAIN clientOut \cup {refCounter}
      /\ clientOut'[refCounter] = [mask |-> 0 .. len - 1, ts |-> tag.time]
      /\ \A r \in DOMAIN clientOut : clientOut'[r] = clientOut[r]
  BY <1>4, <1>5 DEF p_enqueue
<1>7. /\ present'.sch_ref = {}
      /\ present'.batch_request = {[id |-> refCounter, mask |-> 0 .. len - 1]}
      /\ \A t \in Triggers \ {"sch_ref", "batch_request"} : present'[t] = present[t]
  BY <1>1, <1>4, TriggerNames DEF schedule_reference, IInv, TypeOK, PresentTypeOK
<1>8. /\ UNCHANGED <<tag, stop, crashed, reqQ, schQ, diskQ, subNextId, taskQ>>
      /\ refCounter' = refCounter + 1
  BY DEF client_sch_ref, dispatcherVars
<1>9. \/ pending' = pending /\ terminate' = TRUE
      \/ \E d \in Intervals :
           pending' = Scheduled("sch_ref", 0, d) /\ terminate' = terminate
  BY DEF client_sch_ref
<1> QED BY <1>2, <1>3, <1>4, <1>6, <1>7, <1>8, <1>9

\* reaction (workstream_rsp) of the client.
LEMMA InterimEffect ==
  ASSUME IInv, client_workstream_rsp, UNCHANGED <<dispatcherVars, taskQ>>
  PROVE  \E rsp \in present.workstream_response :
    /\ rsp.id \in DOMAIN clientOut /\ rsp.block \in clientOut[rsp.id].mask
    /\ clientOut' = [clientOut EXCEPT ![rsp.id] = Fill(@, rsp.block)]
    /\ DOMAIN clientOut' = DOMAIN clientOut
    /\ clientOut'[rsp.id].mask = clientOut[rsp.id].mask \ {rsp.block}
    /\ \A r \in DOMAIN clientOut : clientOut'[r].ts = clientOut[r].ts
    /\ \A r \in DOMAIN clientOut \ {rsp.id} : clientOut'[r] = clientOut[r]
    /\ present'.workstream_response = {}
    /\ \A t \in Triggers \ {"workstream_response"} : present'[t] = present[t]
    /\ UNCHANGED <<tag, pending, stop, crashed, refCounter, terminate, clientNextId>>
    /\ UNCHANGED <<reqQ, schQ, diskQ, subNextId, taskQ>>
<1>1. PICK rsp \in present.workstream_response : client_interim_response(rsp)
  BY DEF client_workstream_rsp
<1>2. rsp.id \in DOMAIN clientOut
  BY <1>1 DEF IInv, ClientDispatcherAgree
<1>3. rsp.block \in InFlight(rsp.id)
  BY <1>1 DEF InFlight
<1>4. rsp.block \in clientOut[rsp.id].mask
  BY <1>1, <1>3 DEF IInv, ClientDispatcherAgree
<1>5. clientOut' = [clientOut EXCEPT ![rsp.id] = Fill(@, rsp.block)] /\ crashed' = crashed
  BY <1>1, <1>2 DEF client_interim_response
<1>6. clientOut[rsp.id] \in [mask : SUBSET Blocks, ts : Nat]
  BY <1>2 DEF IInv, TypeOK, ClientTypeOK
<1>7. /\ Fill(clientOut[rsp.id], rsp.block).mask = clientOut[rsp.id].mask \ {rsp.block}
      /\ Fill(clientOut[rsp.id], rsp.block).ts = clientOut[rsp.id].ts
  BY <1>6 DEF Fill
<1>8. /\ DOMAIN clientOut' = DOMAIN clientOut
      /\ clientOut'[rsp.id] = Fill(clientOut[rsp.id], rsp.block)
      /\ \A r \in DOMAIN clientOut \ {rsp.id} : clientOut'[r] = clientOut[r]
  BY <1>2, <1>5
<1>9. \A r \in DOMAIN clientOut : clientOut'[r].ts = clientOut[r].ts
  BY <1>7, <1>8
<1>10. /\ present'.workstream_response = {}
       /\ \A t \in Triggers \ {"workstream_response"} : present'[t] = present[t]
  BY TriggerNames DEF client_workstream_rsp, IInv, TypeOK, PresentTypeOK
<1>11. /\ UNCHANGED <<tag, pending, stop, refCounter, terminate, clientNextId>>
       /\ UNCHANGED <<reqQ, schQ, diskQ, subNextId, taskQ>>
  BY DEF client_workstream_rsp, dispatcherVars
<1>12. clientOut'[rsp.id].mask = clientOut[rsp.id].mask \ {rsp.block}
  BY <1>7, <1>8
<1> QED BY <1>1, <1>2, <1>4, <1>5, <1>8, <1>9, <1>10, <1>11, <1>12

\* reaction (batch_response) of the client.
LEMMA AnswerEffect ==
  ASSUME IInv, client_batch_response, UNCHANGED <<dispatcherVars, taskQ>>
  PROVE  \E id \in present.batch_response :
    /\ id \in DOMAIN clientOut /\ clientOut[id].mask = {}
    /\ clientOut' = [r \in DOMAIN clientOut \ {id} |-> clientOut[r]]
    /\ DOMAIN clientOut' = DOMAIN clientOut \ {id}
    /\ \A r \in DOMAIN clientOut' : clientOut'[r] = clientOut[r]
    /\ stop' = IF terminate THEN StopRequested ELSE stop
    /\ present'.batch_response = {}
    /\ \A t \in Triggers \ {"batch_response"} : present'[t] = present[t]
    /\ UNCHANGED <<tag, pending, crashed, refCounter, terminate, clientNextId>>
    /\ UNCHANGED <<reqQ, schQ, diskQ, subNextId, taskQ>>
<1>1. PICK id \in present.batch_response : clientOut' = client_response(clientOut, id)
  BY DEF client_batch_response
<1>2. clientOut' = [r \in DOMAIN clientOut \ {id} |-> clientOut[r]]
  BY <1>1 DEF client_response, pop_by_id
<1>3. present.workstream_response = {}
  BY TurnOrder DEF client_batch_response
<1>4. InFlight(id) = {}
  BY <1>3 DEF InFlight
<1>5. id \in DOMAIN clientOut /\ clientOut[id].mask = {}
  BY <1>1, <1>4 DEF IInv, ClientDispatcherAgree
<1>6. /\ present'.batch_response = {}
      /\ \A t \in Triggers \ {"batch_response"} : present'[t] = present[t]
  BY TriggerNames DEF client_batch_response, IInv, TypeOK, PresentTypeOK
<1>7. /\ UNCHANGED <<tag, pending, crashed, refCounter, terminate, clientNextId>>
      /\ UNCHANGED <<reqQ, schQ, diskQ, subNextId, taskQ>>
      /\ stop' = IF terminate THEN StopRequested ELSE stop
  BY DEF client_batch_response, dispatcherVars, StopsNow
<1> QED BY <1>1, <1>2, <1>5, <1>6, <1>7

\* reaction (batch_request) of the dispatcher.
LEMMA RequestEffect ==
  ASSUME IInv, NoWrap, dispatcher_batch_request, UNCHANGED <<clientVars, taskQ>>
  PROVE  \E q \in present.batch_request : \E new \in SUBSET Ids :
    /\ q.id \in DOMAIN clientOut /\ q.id \notin DOMAIN reqQ
    /\ DOMAIN schQ' = DOMAIN schQ \cup new
    /\ new \cap SubIds = {} /\ SubIds' = SubIds \cup new
    /\ \A i \in new : subNextId <= i /\ Sub(i)'.parent = q.id
    /\ \A i \in SubIds : Sub(i)' = Sub(i) /\ i < subNextId
    /\ present'.batch_request = {}
    /\ \A t \in Triggers \ {"batch_request"} : present'[t] = present[t]
    /\ UNCHANGED <<tag, stop, crashed, diskQ, taskQ>>
    /\ UNCHANGED <<refCounter, terminate, clientNextId, clientOut>>
    /\ \/ pending' = pending
       \/ pending' = Scheduled("storage_req_trigger", 0, 0)
<1>1. PICK q \in present.batch_request : process_batch_request(q)
  BY DEF dispatcher_batch_request
<1>2. PICK n \in 1 .. MaxLen : q.mask = 0 .. n - 1
  BY <1>1 DEF IInv, RequestMask
<1>3. /\ \A b \in q.mask : b \in Nat /\ SubId(q.mask, b) = subNextId + b
      /\ subNextId \in Nat /\ subNextId + n <= refCounter * MaxLen
      /\ refCounter * MaxLen < IdMod
  BY <1>1, <1>2, SubRequestIds
<1> DEFINE new == {SubId(q.mask, b) : b \in q.mask}
<1>4. \A i \in new : i \in Nat /\ subNextId <= i /\ i < subNextId + n
  BY <1>2, <1>3
<1>5. new \subseteq Ids
  <2>1. refCounter * MaxLen \in Nat /\ IdMod \in Nat
    BY IdBounds, IdModAssumption DEF IInv, TypeOK, ClientTypeOK
  <2> DEFINE p == refCounter * MaxLen
  <2> HIDE DEF p, new
  <2>2. p \in Nat /\ subNextId + n <= p /\ p < IdMod
    BY <1>3, <2>1 DEF p
  <2> QED BY <1>3, <1>4, <2>1, <2>2 DEF Ids
<1>6. \A i \in SubIds : i < subNextId /\ i \in Nat
  BY DEF IInv, IdsFresh, TypeOK, DispatcherTypeOK, SubIds, Ids
<1>7. new \cap SubIds = {}
  <2> HIDE DEF new
  <2> QED BY <1>3, <1>4, <1>6
<1>8. schQ' = WithSubRequests(schQ, q)
  BY <1>1 DEF process_batch_request
<1>9. /\ DOMAIN schQ' = DOMAIN schQ \cup new
      /\ \A i \in DOMAIN schQ : schQ'[i] = schQ[i]
  BY <1>8 DEF WithSubRequests
<1>10. \A i \in new : schQ'[i].parent = q.id
  <2> SUFFICES ASSUME NEW i \in new PROVE schQ'[i].parent = q.id
    OBVIOUS
  <2>1. i \notin DOMAIN schQ
    BY <1>7 DEF SubIds
  <2> QED BY <1>8, <2>1 DEF WithSubRequests
<1>11. /\ UNCHANGED <<tag, stop, crashed, diskQ, taskQ>>
       /\ UNCHANGED <<refCounter, terminate, clientNextId, clientOut>>
  BY DEF dispatcher_batch_request, clientVars
<1>12. \/ pending' = pending
       \/ pending' = Scheduled("storage_req_trigger", 0, 0)
  BY DEF dispatcher_batch_request
<1>13. /\ present'.batch_request = {}
       /\ \A t \in Triggers \ {"batch_request"} : present'[t] = present[t]
  BY TriggerNames DEF dispatcher_batch_request, IInv, TypeOK, PresentTypeOK
<1>14. q.id \in DOMAIN clientOut /\ q.id \notin DOMAIN reqQ
  BY <1>1 DEF IInv, ClientDispatcherAgree
<1> HIDE DEF new
<1>15. SubIds' = SubIds \cup new
  BY <1>9, <1>11 DEF SubIds
<1>16. \A i \in new : Sub(i)' = schQ'[i]
  BY <1>9 DEF Sub
<1>17. \A i \in SubIds : Sub(i)' = Sub(i)
  BY <1>7, <1>9, <1>11 DEF Sub, SubIds
<1> QED BY <1>1, <1>4, <1>5, <1>6, <1>7, <1>9, <1>10, <1>11, <1>12, <1>13, <1>14,
           <1>15, <1>16, <1>17

\* reaction (storage_req_trigger).
LEMMA TriggerEffect ==
  ASSUME IInv, dispatcher_storage_req_trigger, UNCHANGED <<clientVars, taskQ>>
  PROVE  \E id \in DOMAIN schQ :
    /\ \A j \in DOMAIN schQ : id <= j
    /\ DOMAIN schQ' = DOMAIN schQ \ {id} /\ DOMAIN diskQ' = DOMAIN diskQ \cup {id}
    /\ SubIds' = SubIds /\ \A i \in SubIds : Sub(i)' = Sub(i)
    /\ present'.storage_req_trigger = {} /\ present'.workstream_req = {id}
    /\ \A t \in Triggers \ {"storage_req_trigger", "workstream_req"} :
         present'[t] = present[t]
    /\ UNCHANGED <<tag, stop, crashed, reqQ, subNextId, taskQ>>
    /\ UNCHANGED <<refCounter, terminate, clientNextId, clientOut>>
    /\ \/ pending' = pending
       \/ pending' = Scheduled("storage_req_trigger", 0, 0)
<1> DEFINE id == HeadId(schQ)
<1>1. present.storage_req_trigger # {}
  BY TurnOrder, TriggerNames DEF dispatcher_storage_req_trigger
<1>2. DOMAIN schQ # {}
  BY <1>1 DEF IInv, TriggerArmed, is_empty
<1>3. id \in DOMAIN schQ /\ \A j \in DOMAIN schQ : id <= j
  <2>1. DOMAIN schQ \subseteq Nat
    BY DEF IInv, TypeOK, DispatcherTypeOK, Ids
  <2> QED BY <1>2, <2>1, LeastNatural DEF HeadId
<1>4. id \notin DOMAIN diskQ
  BY <1>3 DEF IInv, BlockAccounting
<1>5. /\ DOMAIN schQ' = DOMAIN schQ \ {id}
      /\ \A i \in DOMAIN schQ' : schQ'[i] = schQ[i]
  BY <1>2 DEF dispatcher_storage_req_trigger, schedule_disk_request, is_empty,
              pop, pop_by_id
<1>6. /\ DOMAIN diskQ' = DOMAIN diskQ \cup {id}
      /\ \A i \in DOMAIN diskQ : diskQ'[i] = diskQ[i]
      /\ diskQ'[id] = schQ[id]
  BY <1>2, <1>4 DEF dispatcher_storage_req_trigger, schedule_disk_request,
                    is_empty, p_enqueue
<1>7. /\ present'.storage_req_trigger = {} /\ present'.workstream_req = {id}
      /\ \A t \in Triggers \ {"storage_req_trigger", "workstream_req"} :
           present'[t] = present[t]
  BY <1>2, TriggerNames DEF dispatcher_storage_req_trigger, schedule_disk_request,
                            is_empty, IInv, TypeOK, PresentTypeOK
<1>8. /\ UNCHANGED <<tag, stop, crashed, reqQ, subNextId, taskQ>>
      /\ UNCHANGED <<refCounter, terminate, clientNextId, clientOut>>
      /\ \/ pending' = pending
         \/ pending' = Scheduled("storage_req_trigger", 0, 0)
  BY DEF dispatcher_storage_req_trigger, clientVars
<1> HIDE DEF id
<1>9. SubIds' = SubIds /\ \A i \in SubIds : Sub(i)' = Sub(i)
  BY <1>3, <1>4, <1>5, <1>6 DEF SubIds, Sub, IInv, BlockAccounting
<1> QED BY <1>3, <1>5, <1>6, <1>7, <1>8, <1>9

\* reaction (workstream_rsp) of the dispatcher.
LEMMA ResponseEffect ==
  ASSUME IInv, dispatcher_workstream_rsp, UNCHANGED <<clientVars, taskQ>>
  PROVE  \E id \in present.task_result :
    /\ id \in DOMAIN diskQ /\ Sub(id).parent \in DOMAIN reqQ
    /\ DOMAIN diskQ' = DOMAIN diskQ \ {id} /\ SubIds' = SubIds \ {id}
    /\ \A i \in SubIds' : Sub(i)' = Sub(i)
    /\ present'.task_result = {}
    /\ present'.batch_response \subseteq {Sub(id).parent}
    /\ \A t \in Triggers \ {"task_result", "workstream_response", "batch_response"} :
         present'[t] = present[t]
    /\ UNCHANGED <<tag, pending, stop, crashed, schQ, subNextId, taskQ>>
    /\ UNCHANGED <<refCounter, terminate, clientNextId, clientOut>>
<1>1. PICK id \in present.task_result : process_disk_response(id)
  BY DEF dispatcher_workstream_rsp
<1>2. id \in DOMAIN diskQ /\ id \in SubIds /\ id \notin DOMAIN schQ
  BY <1>1 DEF IInv, DiskAccounting, BlockAccounting, SubIds
<1>3. Sub(id) = diskQ[id] /\ ~is_empty(diskQ)
  BY <1>2 DEF Sub, is_empty
<1>4. diskQ[id].parent \in DOMAIN reqQ
  BY <1>2, <1>3 DEF IInv, BlockAccounting
<1> DEFINE mask == Without(reqQ[diskQ[id].parent], diskQ[id].block)
<1>5. /\ diskQ' = pop_by_id(diskQ, id)
      /\ SendResponses(diskQ[id], mask)
      /\ UNCHANGED crashed
  BY <1>1, <1>2, <1>3, <1>4 DEF process_disk_response
<1> HIDE DEF mask
<1>6. /\ present'.task_result = {}
      /\ present'.batch_response \subseteq {diskQ[id].parent}
      /\ \A t \in Triggers \ {"task_result", "workstream_response", "batch_response"} :
           present'[t] = present[t]
  BY <1>5, TriggerNames DEF SendResponses, IInv, TypeOK, PresentTypeOK
<1>7. /\ UNCHANGED <<tag, pending, stop, schQ, subNextId, taskQ>>
      /\ UNCHANGED <<refCounter, terminate, clientNextId, clientOut>>
  BY DEF dispatcher_workstream_rsp, clientVars
<1>8. /\ DOMAIN diskQ' = DOMAIN diskQ \ {id}
      /\ \A i \in DOMAIN diskQ' : diskQ'[i] = diskQ[i]
  BY <1>5 DEF pop_by_id
<1>9. SubIds' = SubIds \ {id} /\ \A i \in SubIds' : Sub(i)' = Sub(i)
  BY <1>2, <1>7, <1>8 DEF SubIds, Sub
<1> QED BY <1>1, <1>2, <1>3, <1>4, <1>5, <1>6, <1>7, <1>8, <1>9

\* reaction (task) of the worker.
LEMMA TaskEffect ==
  ASSUME IInv, worker_task, UNCHANGED <<clientVars, dispatcherVars>>
  PROVE  \E id \in present.workstream_req :
    /\ id \in Ids /\ id \in DOMAIN diskQ
    /\ \A e \in FetchEvents : e.id # id
    /\ pending' = Scheduled("fetch_page", id, ReadTime)
    /\ present'.workstream_req = {}
    /\ \A t \in Triggers \ {"workstream_req"} : present'[t] = present[t]
    /\ UNCHANGED <<tag, stop, crashed, refCounter, terminate, clientNextId, clientOut>>
    /\ UNCHANGED <<reqQ, schQ, diskQ, subNextId>>
<1>1. PICK id \in present.workstream_req : pending' = Scheduled("fetch_page", id, ReadTime)
  BY DEF worker_task
<1>2. id \in Ids
  BY <1>1, TriggerNames DEF IInv, TypeOK, PresentTypeOK
<1>3. id \in DOMAIN diskQ /\ \A e \in FetchEvents : e.id # id
  BY <1>1 DEF IInv, DiskAccounting
<1>4. /\ present'.workstream_req = {}
      /\ \A t \in Triggers \ {"workstream_req"} : present'[t] = present[t]
  BY TriggerNames DEF worker_task, IInv, TypeOK, PresentTypeOK
<1>5. /\ UNCHANGED <<tag, stop, crashed, refCounter, terminate, clientNextId, clientOut>>
      /\ UNCHANGED <<reqQ, schQ, diskQ, subNextId>>
  BY DEF worker_task, clientVars, dispatcherVars
<1> QED BY <1>1, <1>2, <1>3, <1>4, <1>5

\* reaction (fetch_page) of the worker.
LEMMA FetchPageEffect ==
  ASSUME IInv, worker_fetch_page, UNCHANGED <<clientVars, dispatcherVars>>
  PROVE  \E id \in present.fetch_page :
    /\ present'.fetch_page = {} /\ present'.task_result = {id}
    /\ \A t \in Triggers \ {"fetch_page", "task_result"} : present'[t] = present[t]
    /\ UNCHANGED <<tag, pending, stop, crashed, refCounter, terminate, clientNextId, clientOut>>
    /\ UNCHANGED <<reqQ, schQ, diskQ, subNextId>>
<1>1. PICK id \in present.fetch_page : emulate_delay(id)
  BY DEF worker_fetch_page
<1>2. id \in taskQ
  BY <1>1 DEF IInv, DiskAccounting
<1>3. present' = [present EXCEPT !.fetch_page = {}, !.task_result = {id}]
  BY <1>1, <1>2 DEF emulate_delay, Finished
<1>4. /\ present'.fetch_page = {} /\ present'.task_result = {id}
      /\ \A t \in Triggers \ {"fetch_page", "task_result"} : present'[t] = present[t]
  BY <1>3, TriggerNames DEF IInv, TypeOK, PresentTypeOK
<1>5. /\ UNCHANGED <<tag, pending, stop, crashed, refCounter, terminate, clientNextId, clientOut>>
      /\ UNCHANGED <<reqQ, schQ, diskQ, subNextId>>
  BY DEF worker_fetch_page, clientVars, dispatcherVars
<1> QED BY <1>1, <1>4, <1>5

-----------------------------------------------------------------------------
(* Time *)

\* Tag e is after tag f.
After(e, f) == f.time < e.time \/ (f.time = e.time /\ f.micro < e.micro)

\* No event is due at a tag that has passed.
Later == \A e \in pending : After(e, tag)

\* When the request of a sub-request was issued.
SubTime(i) == clientOut[Sub(i).parent].ts

\* A request is split at the time of its issue, its sub-requests are at the worker
\* at this time, and one read later they are back.
Punctual ==
  /\ \A r \in DOMAIN clientOut : clientOut[r].ts <= tag.time
  /\ \A q \in present.batch_request : clientOut[q.id].ts = tag.time
  /\ \A i \in DOMAIN schQ \cup present.workstream_req : SubTime(i) = tag.time
  /\ \A e \in TriggerEvents : e.time = tag.time
  /\ \A e \in FetchEvents : e.time = SubTime(e.id) + ReadTime
  /\ \A i \in present.fetch_page \cup present.task_result :
       tag.time = SubTime(i) + ReadTime
  /\ \A r \in present.batch_response : tag.time = clientOut[r].ts + ReadTime

\* Requests are issued at least MinInterval apart, the one that is booked included.
Spaced ==
  /\ \A r, s \in DOMAIN clientOut :
       r < s => clientOut[r].ts + MinInterval <= clientOut[s].ts
  /\ \A r \in DOMAIN clientOut :
       /\ \A e \in SchRefEvents : clientOut[r].ts + MinInterval <= e.time
       /\ present.sch_ref # {} => clientOut[r].ts + MinInterval <= tag.time

\* A stop is requested when the last request is out, and nothing runs after it.
Closing ==
  /\ stop # "no" => terminate
  /\ stop = "done" => present = Quiet

TInv == Later /\ Punctual /\ Spaced /\ Closing

\* The next tag, whether it comes from the event queue or from a stop.
LEMMA EnterTagEffect ==
  ASSUME IInv, Later, AdvanceTag \/ AdvanceToStopTag,
         UNCHANGED <<clientVars, dispatcherVars, taskQ>>
  PROVE  /\ tag' \in [time : Nat, micro : Nat] /\ After(tag', tag)
         /\ \A e \in pending : NotAfter(tag', e)
         /\ pending' = {e \in pending : ~ (e.time = tag'.time /\ e.micro = tag'.micro)}
         /\ \A p \in Triggers : present[p] = {}
         /\ \A a \in Actions : present'[a] =
              {e.id : e \in {f \in pending : /\ f.action = a
                                             /\ f.time = tag'.time /\ f.micro = tag'.micro}}
         /\ \A p \in Triggers \ Actions : present'[p] = {}
         /\ (stop = "no" /\ stop' = "no") \/ (stop = "requested" /\ stop' = "final")
         /\ UNCHANGED <<crashed, refCounter, terminate, clientNextId, clientOut, reqQ,
                        schQ, diskQ, subNextId, taskQ>>
<1>1. /\ tag.time \in Nat /\ tag.micro \in Nat
      /\ \A e \in pending : e.time \in Nat /\ e.micro \in Nat
  BY DEF IInv, TypeOK, RuntimeTypeOK
<1>2. \E t, m \in Nat : /\ EnterTag(t, m)
                        /\ tag.time < t \/ (tag.time = t /\ tag.micro < m)
                        /\ \A e \in pending : t < e.time \/ (t = e.time /\ m <= e.micro)
  <2>1. CASE AdvanceTag
    <3>1. PICK e \in pending : (\A f \in pending : NotAfter(e, f)) /\ EnterTag(e.time, e.micro)
      BY <2>1 DEF AdvanceTag
    <3> QED BY <1>1, <3>1 DEF Later, After, NotAfter
  <2>2. CASE AdvanceToStopTag
    <3>1. EnterTag(tag.time, tag.micro + 1)
      BY <2>2 DEF AdvanceToStopTag
    <3>2. \A e \in pending : tag.time < e.time \/ (tag.time = e.time /\ tag.micro + 1 <= e.micro)
      BY <1>1 DEF Later, After
    <3> QED BY <1>1, <3>1, <3>2
  <2> QED BY <2>1, <2>2
<1>3. PICK t, m \in Nat : /\ EnterTag(t, m)
                          /\ tag.time < t \/ (tag.time = t /\ tag.micro < m)
                          /\ \A e \in pending : t < e.time \/ (t = e.time /\ m <= e.micro)
  BY <1>2
<1>4. tag' = [time |-> t, micro |-> m]
  BY <1>3 DEF EnterTag
<1>5. /\ tag' \in [time : Nat, micro : Nat] /\ After(tag', tag)
      /\ \A e \in pending : NotAfter(tag', e)
  BY <1>3, <1>4 DEF After, NotAfter
<1>6. pending' = {e \in pending : ~ (e.time = tag'.time /\ e.micro = tag'.micro)}
  BY <1>3, <1>4 DEF EnterTag, At
<1>7. present = Quiet
  BY DEF AdvanceTag, AdvanceToStopTag
<1>8. \A a : {f \in At(t, m) : f.action = a} =
               {f \in pending : /\ f.action = a
                                /\ f.time = tag'.time /\ f.micro = tag'.micro}
  BY <1>4 DEF At
<1>9. /\ \A a \in Actions : present'[a] = {e.id : e \in {f \in At(t, m) : f.action = a}}
      /\ \A p \in Triggers \ Actions : present'[p] = {}
  <2>1. TypeOK
    BY DEF IInv
  <2> QED BY <1>3, <2>1, EnterTagPresent
<1>10. (stop = "no" /\ stop' = "no") \/ (stop = "requested" /\ stop' = "final")
  BY DEF AdvanceTag, AdvanceToStopTag
<1>11. UNCHANGED <<crashed, refCounter, terminate, clientNextId, clientOut, reqQ,
                   schQ, diskQ, subNextId, taskQ>>
  BY <1>3 DEF EnterTag, clientVars, dispatcherVars
<1> QED BY <1>5, <1>6, <1>7, <1>8, <1>9, <1>10, <1>11 DEF Quiet

\* A sub-request is in the queues as long as it is anywhere, and its request is
\* among the client's.
LEMMA SubRequestsKnown ==
  ASSUME IInv
  PROVE  /\ DOMAIN schQ \cup present.workstream_req \subseteq SubIds
         /\ \A e \in FetchEvents : e.id \in SubIds
         /\ present.fetch_page \cup present.task_result \subseteq SubIds
         /\ \A i \in SubIds : Sub(i).parent \in DOMAIN clientOut /\ i \in Nat
         /\ \A r \in DOMAIN clientOut : clientOut[r].ts \in Nat /\ r \in Nat
         /\ tag.time \in Nat /\ tag.micro \in Nat /\ IsFiniteSet(pending)
         /\ \A e \in pending : e.time \in Nat /\ e.micro \in Nat
<1>1. /\ DOMAIN schQ \cup present.workstream_req \subseteq SubIds
      /\ \A e \in FetchEvents : e.id \in SubIds
      /\ present.fetch_page \cup present.task_result \subseteq SubIds
  BY DEF IInv, DiskAccounting, SubIds
<1>2. \A i \in SubIds : Sub(i).parent \in DOMAIN clientOut
  BY DEF IInv, BlockAccounting, ClientDispatcherAgree
<1>3. \A i \in SubIds : i \in Nat
  BY DEF IInv, TypeOK, DispatcherTypeOK, SubIds, Ids
<1>4. \A r \in DOMAIN clientOut : clientOut[r].ts \in Nat /\ r \in Nat
  BY DEF IInv, TypeOK, ClientTypeOK, Ids
<1>5. /\ tag.time \in Nat /\ tag.micro \in Nat /\ IsFiniteSet(pending)
      /\ \A e \in pending : e.time \in Nat /\ e.micro \in Nat
  BY DEF IInv, TypeOK, RuntimeTypeOK
<1> QED BY <1>1, <1>2, <1>3, <1>4, <1>5

\* The sub-requests keep the time of their request.
LEMMA TimesKept ==
  ASSUME IInv, \A i \in SubIds \cap SubIds' : Sub(i)' = Sub(i),
         \A r \in DOMAIN clientOut : r \in DOMAIN clientOut' => clientOut'[r].ts = clientOut[r].ts,
         IInv'
  PROVE  \A i \in SubIds \cap SubIds' : SubTime(i)' = SubTime(i)
<1> SUFFICES ASSUME NEW i \in SubIds, i \in SubIds' PROVE SubTime(i)' = SubTime(i)
  OBVIOUS
<1>1. Sub(i).parent \in DOMAIN clientOut
  BY DEF IInv, BlockAccounting, ClientDispatcherAgree
<1>2. Sub(i)'.parent \in DOMAIN clientOut'
  BY DEF IInv, BlockAccounting, ClientDispatcherAgree
<1> QED BY <1>1, <1>2 DEF SubTime

\* Nothing runs after the end.
LEMMA StillRunning ==
  ASSUME Closing, NEW t \in Triggers, present[t] # {}
  PROVE  stop # "done"
  BY DEF Closing, Quiet

\* A wait is at least one interval.
LEMMA IntervalBounds == \A d \in Intervals : d \in Nat /\ MinInterval <= d
<1> SUFFICES ASSUME NEW f \in 1 .. MaxFactor
             PROVE  MinInterval * f \in Nat /\ MinInterval <= MinInterval * f
  BY DEF Intervals
<1>1. MinInterval \in Nat /\ f \in Nat /\ f >= 1
  BY ClientAssumption
<1>2. f - 1 \in Nat /\ MinInterval * (f - 1) \in Nat
  BY <1>1
<1>3. MinInterval * f = MinInterval * (f - 1) + MinInterval
  BY <1>1
<1> QED BY <1>1, <1>2, <1>3

\* The wake-up of the scheduler is for the next microstep.
LEMMA TriggerLater ==
  ASSUME IInv, Later,
         pending' = pending \/ pending' = Scheduled("storage_req_trigger", 0, 0)
  PROVE  /\ \A e \in pending' : After(e, tag)
         /\ FetchEvents' = FetchEvents /\ SchRefEvents' = SchRefEvents
         /\ \A e \in TriggerEvents' : e \in TriggerEvents \/ e.time = tag.time
<1>1. CASE pending' = pending
  BY <1>1 DEF Later, FetchEvents, SchRefEvents, TriggerEvents
<1>2. CASE pending' = Scheduled("storage_req_trigger", 0, 0)
  <2>1. TypeOK /\ "storage_req_trigger" \in Actions /\ 0 \in Ids /\ 0 \in Nat
    BY IdModAssumption DEF IInv, Actions, Ids
  <2>2. PICK e : /\ AddsEvent(e, "storage_req_trigger", 0, pending')
                 /\ e.time = tag.time + 0 /\ tag.micro < e.micro
    BY <1>2, <2>1, ScheduledLater
  <2>3. pending' = pending \cup {e} /\ e.action = "storage_req_trigger"
    BY <2>2 DEF AddsEvent
  <2>4. e.time = tag.time
    BY <2>2 DEF IInv, TypeOK, RuntimeTypeOK
  <2>5. After(e, tag)
    BY <2>2, <2>4 DEF After
  <2> QED BY <2>3, <2>4, <2>5 DEF Later, FetchEvents, SchRefEvents, TriggerEvents
<1> QED BY <1>1, <1>2

LEMMA SchRefTimes ==
  ASSUME IInv, IInv', TInv, NoWrap, client_sch_ref, UNCHANGED <<dispatcherVars, taskQ>>
  PROVE  TInv'
<1>1. PICK len \in 1 .. MaxLen :
    /\ present.sch_ref # {} /\ refCounter < Requests /\ refCounter' = refCounter + 1
    /\ clientNextId = refCounter /\ refCounter \notin DOMAIN clientOut
    /\ DOMAIN clientOut' = DOMAIN clientOut \cup {refCounter}
    /\ clientOut'[refCounter] = [mask |-> 0 .. len - 1, ts |-> tag.time]
    /\ \A r \in DOMAIN clientOut : clientOut'[r] = clientOut[r]
    /\ present'.sch_ref = {}
    /\ present'.batch_request = {[id |-> refCounter, mask |-> 0 .. len - 1]}
    /\ \A t \in Triggers \ {"sch_ref", "batch_request"} : present'[t] = present[t]
    /\ UNCHANGED <<tag, stop, crashed, reqQ, schQ, diskQ, subNextId, taskQ>>
    /\ \/ pending' = pending /\ terminate' = TRUE
       \/ \E d \in Intervals :
            pending' = Scheduled("sch_ref", 0, d) /\ terminate' = terminate
  BY SchRefEffect
<1>2. /\ tag.time \in Nat /\ tag.micro \in Nat /\ MinInterval \in Nat
      /\ \A r \in DOMAIN clientOut : clientOut[r].ts \in Nat /\ r \in Nat
      /\ \A r \in DOMAIN clientOut : r < refCounter
  BY <1>1, SubRequestsKnown, ClientAssumption DEF IInv, IdsFresh
<1>3. SchRefEvents = {}
  BY <1>1 DEF IInv, SchRefOnce
<1>4. /\ \A e \in pending' : After(e, tag)
      /\ FetchEvents' = FetchEvents /\ TriggerEvents' = TriggerEvents
      /\ \A e \in SchRefEvents' : tag.time + MinInterval <= e.time
  <2>1. CASE pending' = pending
    BY <1>3, <2>1 DEF TInv, Later, FetchEvents, SchRefEvents, TriggerEvents
  <2>2. ASSUME NEW d \in Intervals, pending' = Scheduled("sch_ref", 0, d)
        PROVE  /\ \A e \in pending' : After(e, tag)
               /\ FetchEvents' = FetchEvents /\ TriggerEvents' = TriggerEvents
               /\ \A e \in SchRefEvents' : tag.time + MinInterval <= e.time
    <3>1. d \in Nat /\ MinInterval <= d
      BY IntervalBounds
    <3>2. TypeOK /\ "sch_ref" \in Actions /\ 0 \in Ids
      BY IdModAssumption DEF IInv, Actions, Ids
    <3>3. PICK e : /\ AddsEvent(e, "sch_ref", 0, pending') /\ e.time = tag.time + d
                   /\ d = 0 => tag.micro < e.micro
      BY <2>2, <3>1, <3>2, ScheduledLater
    <3>4. pending' = pending \cup {e} /\ e.action = "sch_ref"
      BY <3>3 DEF AddsEvent
    <3>5. After(e, tag) /\ tag.time + MinInterval <= e.time
      BY <1>2, <3>1, <3>3 DEF After
    <3>6. SchRefEvents' = {e}
      BY <1>3, <3>4 DEF SchRefEvents
    <3> QED BY <3>4, <3>5, <3>6 DEF TInv, Later, FetchEvents, TriggerEvents
  <2> QED BY <1>1, <2>1, <2>2
<1>5. SubIds' = SubIds /\ \A i \in SubIds : Sub(i)' = Sub(i)
  BY <1>1 DEF SubIds, Sub
<1>6. \A i \in SubIds : SubTime(i)' = SubTime(i)
  BY <1>1, <1>5, TimesKept
<1>7. Punctual'
  <2>1. \A r \in DOMAIN clientOut' : clientOut'[r].ts <= tag.time
    BY <1>1, <1>2 DEF TInv, Punctual
  <2>2. \A q \in present'.batch_request : clientOut'[q.id].ts = tag.time
    BY <1>1
  <2>3. \A i \in DOMAIN schQ' \cup present'.workstream_req : SubTime(i)' = tag.time
    BY <1>1, <1>6, SubRequestsKnown, TriggerNames DEF TInv, Punctual
  <2>4. \A e \in FetchEvents' : e.time = SubTime(e.id)' + ReadTime
    BY <1>4, <1>6, SubRequestsKnown DEF TInv, Punctual
  <2>5. \A i \in present'.fetch_page \cup present'.task_result :
          tag.time = SubTime(i)' + ReadTime
    <3>1. present'.fetch_page = present.fetch_page /\ present'.task_result = present.task_result
      BY <1>1, TriggerNames
    <3>2. \A i \in present.fetch_page \cup present.task_result :
            i \in SubIds /\ tag.time = SubTime(i) + ReadTime
      BY SubRequestsKnown DEF TInv, Punctual
    <3> QED BY <1>6, <3>1, <3>2
  <2>6. \A r \in present'.batch_response : tag.time = clientOut'[r].ts + ReadTime
    <3>1. present'.batch_response = {}
      BY <1>1, TriggerNames DEF IInv, PortsFollow
    <3> QED BY <3>1
  <2> QED BY <1>1, <1>4, <2>1, <2>2, <2>3, <2>4, <2>5, <2>6 DEF TInv, Punctual
<1>8. Spaced'
  <2>1. \A r \in DOMAIN clientOut : clientOut[r].ts + MinInterval <= tag.time
    BY <1>1 DEF TInv, Spaced
  <2>2. \A r, s \in DOMAIN clientOut' :
          r < s => clientOut'[r].ts + MinInterval <= clientOut'[s].ts
    <3> SUFFICES ASSUME NEW r \in DOMAIN clientOut', NEW s \in DOMAIN clientOut', r < s
                 PROVE  clientOut'[r].ts + MinInterval <= clientOut'[s].ts
      OBVIOUS
    <3>1. refCounter \in Nat
      BY DEF IInv, TypeOK, ClientTypeOK
    <3>2. r \in DOMAIN clientOut
      BY <1>1, <1>2, <3>1
    <3>3. CASE s = refCounter
      BY <1>1, <2>1, <3>2, <3>3
    <3>4. CASE s \in DOMAIN clientOut
      BY <1>1, <3>2, <3>4 DEF TInv, Spaced
    <3> QED BY <1>1, <3>3, <3>4
  <2>3. \A r \in DOMAIN clientOut' : clientOut'[r].ts \in Nat /\ clientOut'[r].ts <= tag.time
    BY <1>1, <1>2, <1>7 DEF Punctual
  <2>4. \A r \in DOMAIN clientOut' :
          \A e \in SchRefEvents' : clientOut'[r].ts + MinInterval <= e.time
    <3>1. \A e \in SchRefEvents' : e.time \in Nat
      BY DEF IInv, TypeOK, RuntimeTypeOK, SchRefEvents
    <3> QED BY <1>2, <1>4, <2>3, <3>1
  <2> QED BY <1>1, <2>2, <2>4 DEF Spaced
<1>9. Closing'
  <2>1. stop # "done"
    BY <1>1, StillRunning, TriggerNames DEF TInv
  <2> QED BY <1>1, <2>1 DEF TInv, Closing
<1> QED BY <1>1, <1>4, <1>7, <1>8, <1>9 DEF TInv, Later

LEMMA InterimTimes ==
  ASSUME IInv, IInv', TInv, client_workstream_rsp, UNCHANGED <<dispatcherVars, taskQ>>
  PROVE  TInv'
<1>1. /\ DOMAIN clientOut' = DOMAIN clientOut
      /\ \A r \in DOMAIN clientOut : clientOut'[r].ts = clientOut[r].ts
      /\ present.workstream_response # {} /\ present'.workstream_response = {}
      /\ \A t \in Triggers \ {"workstream_response"} : present'[t] = present[t]
      /\ UNCHANGED <<tag, pending, stop, terminate, schQ, diskQ>>
  BY InterimEffect
<1>2. /\ \A t \in Actions \cup {"batch_request", "workstream_req", "task_result",
                                 "batch_response"} : present'[t] = present[t]
      /\ FetchEvents' = FetchEvents /\ TriggerEvents' = TriggerEvents
      /\ SchRefEvents' = SchRefEvents
  BY <1>1, TriggerNames DEF Actions, FetchEvents, TriggerEvents, SchRefEvents
<1>3. SubIds' = SubIds /\ \A i \in SubIds : Sub(i)' = Sub(i)
  BY <1>1 DEF SubIds, Sub
<1>4. \A i \in SubIds : SubTime(i)' = SubTime(i)
  BY <1>1, <1>3, TimesKept
<1>5. Punctual'
  <2>1. \A q \in present.batch_request : q.id \in DOMAIN clientOut
    BY DEF IInv, ClientDispatcherAgree
  <2>2. \A r \in present.batch_response : r \in DOMAIN clientOut
    BY DEF IInv, ClientDispatcherAgree
  <2> QED BY <1>1, <1>2, <1>4, <2>1, <2>2, SubRequestsKnown DEF TInv, Punctual, Actions
<1>6. Spaced'
  BY <1>1, <1>2 DEF TInv, Spaced, Actions
<1>7. Closing'
  <2>1. stop # "done"
    BY <1>1, StillRunning, TriggerNames DEF TInv
  <2> QED BY <1>1, <2>1 DEF TInv, Closing
<1> QED BY <1>1, <1>5, <1>6, <1>7 DEF TInv, Later

LEMMA AnswerTimes ==
  ASSUME IInv, IInv', TInv, client_batch_response, UNCHANGED <<dispatcherVars, taskQ>>
  PROVE  TInv'
<1>1. /\ DOMAIN clientOut' \subseteq DOMAIN clientOut
      /\ \A r \in DOMAIN clientOut' : clientOut'[r] = clientOut[r]
      /\ stop' = IF terminate THEN StopRequested ELSE stop
      /\ present.batch_response # {} /\ present'.batch_response = {}
      /\ \A t \in Triggers \ {"batch_response"} : present'[t] = present[t]
      /\ UNCHANGED <<tag, pending, terminate, schQ, diskQ>>
  BY AnswerEffect
<1>2. /\ \A t \in Actions \cup {"workstream_req", "task_result"} : present'[t] = present[t]
      /\ present'.batch_request = {}
      /\ FetchEvents' = FetchEvents /\ TriggerEvents' = TriggerEvents
      /\ SchRefEvents' = SchRefEvents
  BY <1>1, TriggerNames
     DEF Actions, FetchEvents, TriggerEvents, SchRefEvents, IInv, PortsFollow
<1>3. SubIds' = SubIds /\ \A i \in SubIds : Sub(i)' = Sub(i)
  BY <1>1 DEF SubIds, Sub
<1>4. \A i \in SubIds : SubTime(i)' = SubTime(i)
  BY <1>1, <1>3, TimesKept
<1>5. Punctual'
  BY <1>1, <1>2, <1>4, SubRequestsKnown DEF TInv, Punctual, Actions
<1>6. Spaced'
  BY <1>1, <1>2 DEF TInv, Spaced, Actions
<1>7. Closing'
  <2>1. stop # "done"
    BY <1>1, StillRunning, TriggerNames DEF TInv
  <2> QED BY <1>1, <2>1 DEF TInv, Closing, StopRequested
<1> QED BY <1>1, <1>5, <1>6, <1>7 DEF TInv, Later

LEMMA RequestTimes ==
  ASSUME IInv, IInv', TInv, NoWrap, dispatcher_batch_request,
         UNCHANGED <<clientVars, taskQ>>
  PROVE  TInv'
<1>1. PICK q \in present.batch_request : \E new \in SUBSET Ids :
    /\ q.id \in DOMAIN clientOut
    /\ DOMAIN schQ' = DOMAIN schQ \cup new
    /\ SubIds' = SubIds \cup new
    /\ \A i \in new : Sub(i)'.parent = q.id
    /\ \A i \in SubIds : Sub(i)' = Sub(i)
    /\ present'.batch_request = {}
    /\ \A t \in Triggers \ {"batch_request"} : present'[t] = present[t]
    /\ UNCHANGED <<tag, stop, terminate, clientOut>>
    /\ \/ pending' = pending
       \/ pending' = Scheduled("storage_req_trigger", 0, 0)
  BY RequestEffect
<1>2. PICK new \in SUBSET Ids :
    /\ DOMAIN schQ' = DOMAIN schQ \cup new
    /\ SubIds' = SubIds \cup new
    /\ \A i \in new : Sub(i)'.parent = q.id
    /\ \A i \in SubIds : Sub(i)' = Sub(i)
  BY <1>1
<1>3. \A t \in Actions \cup {"workstream_req", "task_result", "batch_response"} :
        present'[t] = present[t]
  BY <1>1, TriggerNames DEF Actions
<1>4. /\ \A e \in pending' : After(e, tag)
      /\ FetchEvents' = FetchEvents /\ SchRefEvents' = SchRefEvents
      /\ \A e \in TriggerEvents' : e \in TriggerEvents \/ e.time = tag.time
  BY <1>1, TriggerLater DEF TInv
<1>5. \A i \in SubIds : SubTime(i)' = SubTime(i)
  BY <1>1, <1>2, TimesKept
<1>6. \A i \in new : SubTime(i)' = tag.time
  BY <1>1, <1>2 DEF SubTime, TInv, Punctual
<1>7. Punctual'
  <2>1. \A i \in DOMAIN schQ' \cup present'.workstream_req : SubTime(i)' = tag.time
    BY <1>2, <1>3, <1>5, <1>6, SubRequestsKnown DEF TInv, Punctual
  <2> QED BY <1>1, <1>3, <1>4, <1>5, <2>1, SubRequestsKnown DEF TInv, Punctual, Actions
<1>8. Spaced'
  BY <1>1, <1>3, <1>4 DEF TInv, Spaced, Actions
<1>9. Closing'
  <2>1. stop # "done"
    BY <1>1, StillRunning, TriggerNames DEF TInv
  <2> QED BY <1>1, <2>1 DEF TInv, Closing
<1> QED BY <1>1, <1>4, <1>7, <1>8, <1>9 DEF TInv, Later

LEMMA TriggerTimes ==
  ASSUME IInv, IInv', TInv, dispatcher_storage_req_trigger, UNCHANGED <<clientVars, taskQ>>
  PROVE  TInv'
<1>1. PICK id \in DOMAIN schQ :
    /\ DOMAIN schQ' = DOMAIN schQ \ {id}
    /\ SubIds' = SubIds /\ \A i \in SubIds : Sub(i)' = Sub(i)
    /\ present'.workstream_req = {id}
    /\ \A t \in Triggers \ {"storage_req_trigger", "workstream_req"} :
         present'[t] = present[t]
    /\ UNCHANGED <<tag, stop, terminate, clientOut>>
    /\ \/ pending' = pending
       \/ pending' = Scheduled("storage_req_trigger", 0, 0)
  BY TriggerEffect
<1>2. \A t \in {"sch_ref", "fetch_page", "batch_request", "task_result", "batch_response"} :
        present'[t] = present[t]
  BY <1>1, TriggerNames
<1>3. /\ \A e \in pending' : After(e, tag)
      /\ FetchEvents' = FetchEvents /\ SchRefEvents' = SchRefEvents
      /\ \A e \in TriggerEvents' : e \in TriggerEvents \/ e.time = tag.time
  BY <1>1, TriggerLater DEF TInv
<1>4. \A i \in SubIds : SubTime(i)' = SubTime(i)
  BY <1>1, TimesKept
<1>5. Punctual'
  BY <1>1, <1>2, <1>3, <1>4, SubRequestsKnown DEF TInv, Punctual
<1>6. Spaced'
  BY <1>1, <1>2, <1>3 DEF TInv, Spaced
<1>7. Closing'
  <2>1. present.storage_req_trigger # {}
    BY TurnOrder, TriggerNames DEF dispatcher_storage_req_trigger
  <2>2. stop # "done"
    BY <2>1, StillRunning, TriggerNames DEF TInv
  <2> QED BY <1>1, <2>2 DEF TInv, Closing
<1> QED BY <1>1, <1>3, <1>5, <1>6, <1>7 DEF TInv, Later

LEMMA ResponseTimes ==
  ASSUME IInv, IInv', TInv, dispatcher_workstream_rsp, UNCHANGED <<clientVars, taskQ>>
  PROVE  TInv'
<1>1. PICK id \in present.task_result :
    /\ id \in SubIds
    /\ SubIds' = SubIds \ {id}
    /\ \A i \in SubIds' : Sub(i)' = Sub(i)
    /\ present'.task_result = {}
    /\ present'.batch_response \subseteq {Sub(id).parent}
    /\ \A t \in Triggers \ {"task_result", "workstream_response", "batch_response"} :
         present'[t] = present[t]
    /\ UNCHANGED <<tag, pending, stop, schQ, terminate, clientOut>>
  BY ResponseEffect, SubRequestsKnown
<1>2. /\ \A t \in Actions \cup {"batch_request", "workstream_req"} : present'[t] = present[t]
      /\ FetchEvents' = FetchEvents /\ TriggerEvents' = TriggerEvents
      /\ SchRefEvents' = SchRefEvents
  BY <1>1, TriggerNames DEF Actions, FetchEvents, TriggerEvents, SchRefEvents
<1>3. \A i \in SubIds' : SubTime(i)' = SubTime(i)
  BY <1>1, TimesKept
<1>4. \A r \in present'.batch_response : tag.time = clientOut[r].ts + ReadTime
  BY <1>1 DEF TInv, Punctual, SubTime
<1>5. /\ DOMAIN schQ \cup present'.workstream_req \subseteq SubIds'
      /\ \A e \in FetchEvents' : e.id \in SubIds'
      /\ present'.fetch_page \subseteq SubIds'
  BY <1>1 DEF IInv, DiskAccounting, SubIds
<1>6. Punctual'
  BY <1>1, <1>2, <1>3, <1>4, <1>5 DEF TInv, Punctual, Actions
<1>7. Spaced'
  BY <1>1, <1>2 DEF TInv, Spaced, Actions
<1>8. Closing'
  <2>1. stop # "done"
    BY <1>1, StillRunning, TriggerNames DEF TInv
  <2> QED BY <1>1, <2>1 DEF TInv, Closing
<1> QED BY <1>1, <1>6, <1>7, <1>8 DEF TInv, Later

LEMMA TaskTimes ==
  ASSUME IInv, IInv', TInv, worker_task, UNCHANGED <<clientVars, dispatcherVars>>
  PROVE  TInv'
<1>1. PICK id \in present.workstream_req :
    /\ id \in Ids
    /\ pending' = Scheduled("fetch_page", id, ReadTime)
    /\ present'.workstream_req = {}
    /\ \A t \in Triggers \ {"workstream_req"} : present'[t] = present[t]
    /\ UNCHANGED <<tag, stop, terminate, clientOut, schQ, diskQ>>
  BY TaskEffect
<1>2. PICK e : /\ AddsEvent(e, "fetch_page", id, pending') /\ e.time = tag.time + ReadTime
               /\ ReadTime = 0 => tag.micro < e.micro
  <2>1. TypeOK /\ "fetch_page" \in Actions /\ ReadTime \in Nat
    BY WorkerAssumption DEF IInv, Actions
  <2> QED BY <1>1, <2>1, ScheduledLater
<1>3. /\ FetchEvents' = FetchEvents \cup {e} /\ e.id = id /\ pending' = pending \cup {e}
      /\ TriggerEvents' = TriggerEvents /\ SchRefEvents' = SchRefEvents
  BY <1>2 DEF AddsEvent, FetchEvents, TriggerEvents, SchRefEvents
<1>4. After(e, tag)
  BY <1>2, WorkerAssumption, SubRequestsKnown DEF After
<1>5. SubIds' = SubIds /\ \A i \in SubIds : Sub(i)' = Sub(i)
  BY <1>1 DEF SubIds, Sub
<1>6. \A i \in SubIds : SubTime(i)' = SubTime(i)
  BY <1>1, <1>5, TimesKept
<1>7. \A t \in Actions \cup {"batch_request", "task_result", "batch_response"} :
        present'[t] = present[t]
  BY <1>1, TriggerNames DEF Actions
<1>8. Punctual'
  <2>1. id \in SubIds /\ SubTime(id) = tag.time
    BY SubRequestsKnown DEF TInv, Punctual
  <2>2. \A f \in FetchEvents' : f.time = SubTime(f.id)' + ReadTime
    BY <1>2, <1>3, <1>6, <2>1, SubRequestsKnown DEF TInv, Punctual
  <2>3. \A i \in DOMAIN schQ' \cup present'.workstream_req : SubTime(i)' = tag.time
    BY <1>1, <1>6, SubRequestsKnown DEF TInv, Punctual
  <2> QED BY <1>1, <1>3, <1>6, <1>7, <2>2, <2>3, SubRequestsKnown
          DEF TInv, Punctual, Actions
<1>9. Spaced'
  BY <1>1, <1>3, <1>7 DEF TInv, Spaced, Actions
<1>10. Closing'
  <2>1. stop # "done"
    BY <1>1, StillRunning, TriggerNames DEF TInv
  <2> QED BY <1>1, <2>1 DEF TInv, Closing
<1> QED BY <1>1, <1>3, <1>4, <1>8, <1>9, <1>10 DEF TInv, Later

LEMMA FetchPageTimes ==
  ASSUME IInv, IInv', TInv, worker_fetch_page, UNCHANGED <<clientVars, dispatcherVars>>
  PROVE  TInv'
<1>1. PICK id \in present.fetch_page :
    /\ present'.fetch_page = {} /\ present'.task_result = {id}
    /\ \A t \in Triggers \ {"fetch_page", "task_result"} : present'[t] = present[t]
    /\ UNCHANGED <<tag, pending, stop, terminate, clientOut, schQ, diskQ>>
  BY FetchPageEffect
<1>2. /\ \A t \in {"sch_ref", "batch_request", "workstream_req", "batch_response"} :
           present'[t] = present[t]
      /\ FetchEvents' = FetchEvents /\ TriggerEvents' = TriggerEvents
      /\ SchRefEvents' = SchRefEvents
  BY <1>1, TriggerNames DEF FetchEvents, TriggerEvents, SchRefEvents
<1>3. SubIds' = SubIds /\ \A i \in SubIds : Sub(i)' = Sub(i)
  BY <1>1 DEF SubIds, Sub
<1>4. \A i \in SubIds : SubTime(i)' = SubTime(i)
  BY <1>1, <1>3, TimesKept
<1>5. Punctual'
  BY <1>1, <1>2, <1>4, SubRequestsKnown DEF TInv, Punctual
<1>6. Spaced'
  BY <1>1, <1>2 DEF TInv, Spaced
<1>7. Closing'
  <2>1. stop # "done"
    BY <1>1, StillRunning, TriggerNames DEF TInv
  <2> QED BY <1>1, <2>1 DEF TInv, Closing
<1> QED BY <1>1, <1>5, <1>6, <1>7 DEF TInv, Later

LEMMA EnterTagTimes ==
  ASSUME IInv, IInv', TInv, AdvanceTag \/ AdvanceToStopTag,
         UNCHANGED <<clientVars, dispatcherVars, taskQ>>
  PROVE  TInv'
<1> DEFINE due(a) == {f \in pending : /\ f.action = a
                                      /\ f.time = tag'.time /\ f.micro = tag'.micro}
<1>1. /\ tag' \in [time : Nat, micro : Nat] /\ After(tag', tag)
      /\ \A e \in pending : NotAfter(tag', e)
      /\ pending' = {e \in pending : ~ (e.time = tag'.time /\ e.micro = tag'.micro)}
      /\ \A p \in Triggers : present[p] = {}
      /\ \A a \in Actions : present'[a] = {e.id : e \in due(a)}
      /\ \A p \in Triggers \ Actions : present'[p] = {}
      /\ (stop = "no" /\ stop' = "no") \/ (stop = "requested" /\ stop' = "final")
      /\ UNCHANGED <<terminate, clientOut, schQ, diskQ>>
  BY EnterTagEffect DEF TInv
<1>2. /\ tag.time \in Nat /\ tag.micro \in Nat /\ ReadTime \in Nat
      /\ \A e \in pending : e.time \in Nat /\ e.micro \in Nat
      /\ \A r \in DOMAIN clientOut : clientOut[r].ts \in Nat
      /\ tag'.time \in Nat /\ tag'.micro \in Nat /\ tag.time <= tag'.time
  BY <1>1, SubRequestsKnown, WorkerAssumption DEF After
<1>3. /\ present'.sch_ref = {e.id : e \in due("sch_ref")}
      /\ present'.fetch_page = {e.id : e \in due("fetch_page")}
      /\ present'.batch_request = {} /\ present'.workstream_req = {}
      /\ present'.task_result = {} /\ present'.batch_response = {}
  <2> HIDE DEF due
  <2> QED BY <1>1, TriggerNames DEF Actions
<1>4. Later'
  BY <1>1, <1>2 DEF Later, After, NotAfter
<1>5. SubIds' = SubIds /\ \A i \in SubIds : Sub(i)' = Sub(i)
  BY <1>1 DEF SubIds, Sub
<1>6. \A i \in SubIds : SubTime(i)' = SubTime(i)
  BY <1>1, <1>5, TimesKept
<1>7. \A e \in TriggerEvents : tag'.time = tag.time /\ e.time = tag.time
  <2> SUFFICES ASSUME NEW e \in TriggerEvents PROVE tag'.time = tag.time /\ e.time = tag.time
    OBVIOUS
  <2>1. e \in pending /\ e.time = tag.time
    BY DEF TInv, Punctual, TriggerEvents
  <2> QED BY <1>1, <1>2, <2>1 DEF NotAfter
<1>8. \A i \in DOMAIN schQ : SubTime(i) = tag'.time
  <2> SUFFICES ASSUME NEW i \in DOMAIN schQ PROVE SubTime(i) = tag'.time
    OBVIOUS
  <2>1. TriggerEvents # {}
    BY <1>1, TriggerNames DEF IInv, TriggerArmed, is_empty
  <2> QED BY <1>7, <2>1 DEF TInv, Punctual
<1>9. Punctual'
  <2>1. \A r \in DOMAIN clientOut' : clientOut'[r].ts <= tag'.time
    BY <1>1, <1>2 DEF TInv, Punctual
  <2>2. \A i \in DOMAIN schQ' \cup present'.workstream_req : SubTime(i)' = tag'.time
    BY <1>1, <1>3, <1>6, <1>8, SubRequestsKnown
  <2>3. \A e \in TriggerEvents' : e.time = tag'.time
    BY <1>1, <1>7 DEF TriggerEvents
  <2>4. \A e \in FetchEvents : e.id \in SubIds /\ e.time = SubTime(e.id)' + ReadTime
    BY <1>6, SubRequestsKnown DEF TInv, Punctual
  <2>5. \A e \in FetchEvents' : e.time = SubTime(e.id)' + ReadTime
    BY <1>1, <2>4 DEF FetchEvents
  <2>6. \A i \in present'.fetch_page \cup present'.task_result :
          tag'.time = SubTime(i)' + ReadTime
    BY <1>3, <2>4 DEF FetchEvents
  <2> QED BY <1>3, <2>1, <2>2, <2>3, <2>5, <2>6 DEF Punctual
<1>10. Spaced'
  <2>1. \A e \in SchRefEvents' : e \in SchRefEvents
    BY <1>1 DEF SchRefEvents
  <2>2. present'.sch_ref # {} => \E e \in SchRefEvents : e.time = tag'.time
    BY <1>3 DEF SchRefEvents
  <2> QED BY <1>1, <2>1, <2>2 DEF TInv, Spaced
<1>11. Closing'
  BY <1>1 DEF TInv, Closing
<1> QED BY <1>4, <1>9, <1>10, <1>11 DEF TInv

LEMMA QuietTimes ==
  ASSUME TInv, UNCHANGED <<tag, pending, present, terminate, clientOut, schQ, diskQ>>,
         stop' = stop \/ Shutdown
  PROVE  TInv'
<1>1. Later'
  BY DEF TInv, Later
<1>2. Punctual'
  BY DEF TInv, Punctual, SubTime, Sub, TriggerEvents, FetchEvents
<1>3. Spaced'
  BY DEF TInv, Spaced, SchRefEvents
<1>4. Closing'
  BY DEF TInv, Closing, Shutdown
<1> QED BY <1>1, <1>2, <1>3, <1>4 DEF TInv

LEMMA InitTInv == ASSUME Init PROVE TInv
<1> USE DEF Init, ClientInit, DispatcherInit, WorkerInit, Quiet, EmptyQueue
<1>1. \A t \in Triggers : present[t] = {}
  OBVIOUS
<1>2. Later /\ Closing
  BY DEF Later, After, Closing
<1>3. Punctual
  BY <1>1, TriggerNames DEF Punctual, TriggerEvents, FetchEvents
<1>4. Spaced
  BY <1>1 DEF Spaced
<1> QED BY <1>2, <1>3, <1>4 DEF TInv

LEMMA NextTInv ==
  ASSUME NoWrap, IInv, TInv, [Next]_vars
  PROVE  TInv'
<1>1. IInv'
  BY NextIInv
<1>2. CASE ClientStep
  BY <1>1, <1>2, SchRefTimes, InterimTimes, AnswerTimes DEF ClientStep
<1>3. CASE DispatcherStep
  BY <1>1, <1>3, RequestTimes, TriggerTimes, ResponseTimes DEF DispatcherStep
<1>4. CASE WorkerStep
  BY <1>1, <1>4, TaskTimes, FetchPageTimes DEF WorkerStep
<1>5. CASE RuntimeStep
  <2>1. CASE AdvanceTag \/ AdvanceToStopTag
    BY <1>1, <1>5, <2>1, EnterTagTimes DEF RuntimeStep
  <2>2. CASE Shutdown
    BY <1>5, <2>2, QuietTimes DEF RuntimeStep, Shutdown, clientVars, dispatcherVars
  <2> QED BY <1>5, <2>1, <2>2 DEF RuntimeStep
<1>6. CASE UNCHANGED vars
  BY <1>6, QuietTimes DEF vars, rtVars, clientVars, dispatcherVars
<1> QED BY <1>2, <1>3, <1>4, <1>5, <1>6 DEF Next, Ended

\* A request is where it can still be answered in time.
LEMMA InTime ==
  ASSUME IInv, TInv
  PROVE  AnswersInOneRead
<1> SUFFICES ASSUME NEW r \in DOMAIN clientOut
             PROVE  tag.time <= clientOut[r].ts + ReadTime
  BY DEF AnswersInOneRead
<1>1. /\ tag.time \in Nat /\ clientOut[r].ts \in Nat /\ ReadTime \in Nat
      /\ \A e \in pending : e.time \in Nat /\ e.micro \in Nat
  BY SubRequestsKnown, WorkerAssumption
<1>2. CASE r \in DOMAIN reqQ
  <2>1. PICK i \in SubIds : Sub(i).parent = r
    BY <1>2 DEF IInv, BlockAccounting
  <2>2. CASE i \in DOMAIN schQ \cup present.workstream_req
    BY <1>1, <2>1, <2>2 DEF TInv, Punctual, SubTime
  <2>3. CASE i \in present.fetch_page \cup present.task_result
    BY <1>1, <2>1, <2>3 DEF TInv, Punctual, SubTime
  <2>4. CASE \E e \in FetchEvents : e.id = i
    <3>1. PICK e \in FetchEvents : e.id = i
      BY <2>4
    <3>2. e.time = clientOut[r].ts + ReadTime
      BY <2>1, <3>1 DEF TInv, Punctual, SubTime
    <3>3. tag.time <= e.time /\ e \in pending
      BY <1>1 DEF TInv, Later, After, FetchEvents
    <3> QED BY <3>2, <3>3
  <2> QED BY <2>2, <2>3, <2>4 DEF IInv, DiskAccounting, SubIds
<1>3. CASE r \in present.batch_response
  BY <1>1, <1>3 DEF TInv, Punctual
<1>4. CASE \E q \in present.batch_request : q.id = r
  BY <1>1, <1>4 DEF TInv, Punctual
<1> QED BY <1>2, <1>3, <1>4 DEF IInv, ClientDispatcherAgree

-----------------------------------------------------------------------------
(* What is lost *)

\* With requests at least a read apart, one is left when the program is to stop.
OneLeft == stop # "no" => \A r, s \in DOMAIN clientOut : r = s

LEMMA LastAnswer ==
  ASSUME IInv, TInv, 0 < MinInterval, ReadTime <= MinInterval,
         NEW id \in present.batch_response,
         NEW r \in DOMAIN clientOut \ {id}, NEW s \in DOMAIN clientOut \ {id}
  PROVE  r = s
<1>1. /\ id \in DOMAIN clientOut
      /\ tag.time = clientOut[id].ts + ReadTime
  BY DEF IInv, ClientDispatcherAgree, TInv, Punctual
<1>2. /\ tag.time \in Nat /\ ReadTime \in Nat /\ MinInterval \in Nat
      /\ id \in Nat /\ r \in Nat /\ s \in Nat
      /\ clientOut[id].ts \in Nat /\ clientOut[r].ts \in Nat /\ clientOut[s].ts \in Nat
  BY <1>1, SubRequestsKnown, WorkerAssumption, ClientAssumption
<1>3. ASSUME NEW x \in DOMAIN clientOut, x # id
      PROVE  x \in Nat /\ clientOut[x].ts \in Nat /\ clientOut[x].ts = tag.time
  <2>1. x \in Nat /\ clientOut[x].ts \in Nat
    BY SubRequestsKnown
  <2>2. clientOut[x].ts <= tag.time /\ tag.time <= clientOut[x].ts + ReadTime
    BY InTime DEF AnswersInOneRead, TInv, Punctual
  <2>3. CASE x < id
    <3>1. clientOut[x].ts + MinInterval <= clientOut[id].ts
      BY <1>1, <2>3 DEF TInv, Spaced
    <3> QED BY <1>1, <1>2, <2>1, <2>2, <3>1
  <2>4. CASE id < x
    <3>1. clientOut[id].ts + MinInterval <= clientOut[x].ts
      BY <1>1, <2>4 DEF TInv, Spaced
    <3> QED BY <1>1, <1>2, <2>1, <2>2, <3>1
  <2> QED BY <1>2, <1>3, <2>1, <2>3, <2>4
<1>4. clientOut[r].ts = tag.time /\ clientOut[s].ts = tag.time
  BY <1>3
<1>5. ~ (r < s) /\ ~ (s < r)
  BY <1>2, <1>4 DEF TInv, Spaced
<1> QED BY <1>2, <1>5

LEMMA NextOneLeft ==
  ASSUME NoWrap, IInv, TInv, OneLeft, 0 < MinInterval, ReadTime <= MinInterval, [Next]_vars
  PROVE  OneLeft'
<1>1. CASE client_sch_ref /\ UNCHANGED <<dispatcherVars, taskQ>>
  <2>1. present.sch_ref # {} /\ stop' = stop
    BY <1>1, SchRefEffect
  <2>2. refCounter < Requests /\ refCounter \in Nat
    BY <2>1 DEF IInv, SchRefOnce, TypeOK, ClientTypeOK
  <2>3. ~terminate
    BY <2>2 DEF IInv, TypeOK, ClientTypeOK
  <2>4. stop = "no"
    BY <2>3 DEF TInv, Closing
  <2> QED BY <2>1, <2>4 DEF OneLeft
<1>2. CASE client_workstream_rsp /\ UNCHANGED <<dispatcherVars, taskQ>>
  <2>1. DOMAIN clientOut' = DOMAIN clientOut /\ stop' = stop
    BY <1>2, InterimEffect
  <2> QED BY <2>1 DEF OneLeft
<1>3. CASE client_batch_response /\ UNCHANGED <<dispatcherVars, taskQ>>
  <2>1. PICK id \in present.batch_response : DOMAIN clientOut' = DOMAIN clientOut \ {id}
    BY <1>3, AnswerEffect
  <2>2. \A r, s \in DOMAIN clientOut \ {id} : r = s
    BY LastAnswer
  <2> QED BY <2>1, <2>2 DEF OneLeft
<1>4. CASE clientOut' = clientOut /\ (stop = "no" => stop' = "no")
  BY <1>4 DEF OneLeft
<1>5. CASE DispatcherStep \/ WorkerStep \/ RuntimeStep \/ UNCHANGED vars
  <2>1. clientOut' = clientOut
    BY <1>5 DEF DispatcherStep, WorkerStep, RuntimeStep, vars, clientVars
  <2>2. stop = "no" => stop' = "no"
    BY <1>5 DEF DispatcherStep, WorkerStep, RuntimeStep, vars, rtVars,
                dispatcher_batch_request, dispatcher_storage_req_trigger,
                dispatcher_workstream_rsp, worker_task, worker_fetch_page,
                AdvanceTag, AdvanceToStopTag, Shutdown
  <2> QED BY <1>4, <2>1, <2>2
<1> QED BY <1>1, <1>2, <1>3, <1>5 DEF Next, ClientStep, Ended

-----------------------------------------------------------------------------
(* Order *)

\* Sub-requests are numbered in the order of their requests, and pass the queues
\* in the order of their numbers.
ByParent ==
  \A i, j \in SubIds : i < j => Sub(i).parent <= Sub(j).parent

InSequence ==
  /\ \A i \in DOMAIN diskQ, j \in DOMAIN schQ : i < j
  /\ \A i \in present.workstream_req, j \in DOMAIN diskQ : j <= i
  /\ \A i \in present.fetch_page \cup present.task_result, j \in DOMAIN diskQ : i <= j

\* Reads end in the order of their numbers.
ReadsInOrder == \A e, f \in FetchEvents : e.id < f.id => After(f, e)

\* The events of reads that end at one time fill the microsteps that are left of
\* it, up to the last event.
Piles ==
  \A f \in FetchEvents : \A k \in 0 .. f.micro - 1 :
    tag.time < f.time \/ (tag.time = f.time /\ tag.micro < k) =>
      \E e \in FetchEvents : e.time = f.time /\ e.micro = k

\* The request on the wire is the last one, the response that of the first one.
EndsOfQueue ==
  /\ \A q \in present.batch_request : \A r \in DOMAIN clientOut : r <= q.id
  /\ \A s \in present.batch_response : \A r \in DOMAIN clientOut : s <= r

OInv == ByParent /\ InSequence /\ ReadsInOrder /\ Piles /\ EndsOfQueue

LEMMA SchRefOrder ==
  ASSUME IInv, OInv, NoWrap, client_sch_ref, UNCHANGED <<dispatcherVars, taskQ>>
  PROVE  OInv'
<1>1. PICK len \in 1 .. MaxLen :
    /\ DOMAIN clientOut' = DOMAIN clientOut \cup {refCounter}
    /\ present'.batch_request = {[id |-> refCounter, mask |-> 0 .. len - 1]}
    /\ \A t \in Triggers \ {"sch_ref", "batch_request"} : present'[t] = present[t]
    /\ UNCHANGED <<tag, schQ, diskQ>>
    /\ \/ pending' = pending
       \/ \E d \in Intervals : pending' = Scheduled("sch_ref", 0, d)
  BY SchRefEffect
<1>2. /\ \A t \in {"workstream_req", "fetch_page", "task_result"} : present'[t] = present[t]
      /\ present'.batch_response = {}
  BY <1>1, TurnOrder, TriggerNames DEF client_sch_ref, IInv, PortsFollow
<1>3. FetchEvents' = FetchEvents
  BY <1>1 DEF FetchEvents, Scheduled
<1>4. \A r \in DOMAIN clientOut' : r <= refCounter
  BY <1>1, SubRequestsKnown DEF IInv, IdsFresh, TypeOK, ClientTypeOK
<1>5. SubIds' = SubIds /\ \A i \in SubIds : Sub(i)' = Sub(i)
  BY <1>1 DEF SubIds, Sub
<1>6. ByParent'
  BY <1>5 DEF OInv, ByParent
<1>7. InSequence' /\ ReadsInOrder' /\ Piles'
  BY <1>1, <1>2, <1>3 DEF OInv, InSequence, ReadsInOrder, Piles
<1>8. EndsOfQueue'
  BY <1>1, <1>2, <1>4 DEF EndsOfQueue
<1> QED BY <1>6, <1>7, <1>8 DEF OInv

LEMMA InterimOrder ==
  ASSUME IInv, OInv, client_workstream_rsp, UNCHANGED <<dispatcherVars, taskQ>>
  PROVE  OInv'
<1>1. /\ DOMAIN clientOut' = DOMAIN clientOut
      /\ \A t \in Triggers \ {"workstream_response"} : present'[t] = present[t]
      /\ UNCHANGED <<tag, pending, schQ, diskQ>>
  BY InterimEffect
<1>2. \A t \in {"workstream_req", "fetch_page", "task_result", "batch_request",
                "batch_response"} : present'[t] = present[t]
  BY <1>1, TriggerNames
<1>3. ByParent'
  BY <1>1 DEF OInv, ByParent, SubIds, Sub
<1>4. InSequence' /\ ReadsInOrder' /\ Piles' /\ EndsOfQueue'
  BY <1>1, <1>2 DEF OInv, InSequence, ReadsInOrder, Piles, EndsOfQueue, FetchEvents
<1> QED BY <1>3, <1>4 DEF OInv

LEMMA AnswerOrder ==
  ASSUME IInv, OInv, client_batch_response, UNCHANGED <<dispatcherVars, taskQ>>
  PROVE  OInv'
<1>1. /\ DOMAIN clientOut' \subseteq DOMAIN clientOut
      /\ present'.batch_response = {}
      /\ \A t \in Triggers \ {"batch_response"} : present'[t] = present[t]
      /\ UNCHANGED <<tag, pending, schQ, diskQ>>
  BY AnswerEffect
<1>2. \A t \in {"workstream_req", "fetch_page", "task_result", "batch_request"} :
        present'[t] = present[t]
  BY <1>1, TriggerNames
<1>3. ByParent'
  BY <1>1 DEF OInv, ByParent, SubIds, Sub
<1>4. InSequence' /\ ReadsInOrder' /\ Piles' /\ EndsOfQueue'
  BY <1>1, <1>2 DEF OInv, InSequence, ReadsInOrder, Piles, EndsOfQueue, FetchEvents
<1> QED BY <1>3, <1>4 DEF OInv

LEMMA RequestOrder ==
  ASSUME IInv, OInv, NoWrap, dispatcher_batch_request, UNCHANGED <<clientVars, taskQ>>
  PROVE  OInv'
<1>1. PICK q \in present.batch_request : \E new \in SUBSET Ids :
    /\ DOMAIN schQ' = DOMAIN schQ \cup new
    /\ SubIds' = SubIds \cup new
    /\ \A i \in new : subNextId <= i /\ Sub(i)'.parent = q.id
    /\ \A i \in SubIds : Sub(i)' = Sub(i) /\ i < subNextId
    /\ present'.batch_request = {}
    /\ \A t \in Triggers \ {"batch_request"} : present'[t] = present[t]
    /\ UNCHANGED <<tag, diskQ, clientOut>>
    /\ \/ pending' = pending
       \/ pending' = Scheduled("storage_req_trigger", 0, 0)
  BY RequestEffect
<1>2. PICK new \in SUBSET Ids :
    /\ DOMAIN schQ' = DOMAIN schQ \cup new
    /\ SubIds' = SubIds \cup new
    /\ \A i \in new : subNextId <= i /\ Sub(i)'.parent = q.id
    /\ \A i \in SubIds : Sub(i)' = Sub(i) /\ i < subNextId
  BY <1>1
<1>3. \A t \in {"workstream_req", "fetch_page", "task_result", "batch_response"} :
        present'[t] = present[t]
  BY <1>1, TriggerNames
<1>4. FetchEvents' = FetchEvents
  BY <1>1 DEF FetchEvents, Scheduled
<1>5. \A i \in SubIds, j \in new : i \in Nat /\ j \in Nat /\ i < j
  <2>1. subNextId \in Nat /\ \A j \in new : j \in Nat
    BY DEF IInv, TypeOK, DispatcherTypeOK, Ids
  <2> QED BY <1>2, <2>1, SubRequestsKnown
<1>6. ByParent'
  <2> SUFFICES ASSUME NEW i \in SubIds', NEW j \in SubIds', i < j
               PROVE  Sub(i)'.parent <= Sub(j)'.parent
    BY DEF ByParent
  <2>1. CASE i \in SubIds /\ j \in SubIds
    BY <1>2, <2>1 DEF OInv, ByParent
  <2>2. CASE i \in SubIds /\ j \in new
    <3>1. Sub(i).parent <= q.id
      BY <2>2, SubRequestsKnown DEF OInv, EndsOfQueue
    <3> QED BY <1>2, <2>2, <3>1
  <2>3. CASE i \in new /\ j \in SubIds
    BY <1>5, <2>3
  <2>4. CASE i \in new /\ j \in new
    <3>1. q.id \in Nat
      BY DEF IInv, TypeOK, PresentTypeOK, Ids
    <3> QED BY <1>2, <2>4, <3>1
  <2> QED BY <1>2, <2>1, <2>2, <2>3, <2>4
<1>7. InSequence'
  <2>1. \A i \in DOMAIN diskQ, j \in DOMAIN schQ' : i < j
    BY <1>2, <1>5 DEF OInv, InSequence, SubIds
  <2> QED BY <1>1, <1>3, <2>1 DEF OInv, InSequence
<1>8. ReadsInOrder' /\ Piles' /\ EndsOfQueue'
  BY <1>1, <1>3, <1>4 DEF OInv, ReadsInOrder, Piles, EndsOfQueue
<1> QED BY <1>6, <1>7, <1>8 DEF OInv

LEMMA TriggerOrder ==
  ASSUME IInv, OInv, dispatcher_storage_req_trigger, UNCHANGED <<clientVars, taskQ>>
  PROVE  OInv'
<1>1. PICK id \in DOMAIN schQ :
    /\ \A j \in DOMAIN schQ : id <= j
    /\ DOMAIN schQ' = DOMAIN schQ \ {id} /\ DOMAIN diskQ' = DOMAIN diskQ \cup {id}
    /\ SubIds' = SubIds /\ \A i \in SubIds : Sub(i)' = Sub(i)
    /\ present'.workstream_req = {id}
    /\ \A t \in Triggers \ {"storage_req_trigger", "workstream_req"} :
         present'[t] = present[t]
    /\ UNCHANGED <<tag, clientOut>>
    /\ \/ pending' = pending
       \/ pending' = Scheduled("storage_req_trigger", 0, 0)
  BY TriggerEffect
<1>2. \A t \in {"fetch_page", "task_result", "batch_request", "batch_response"} :
        present'[t] = present[t]
  BY <1>1, TriggerNames
<1>3. FetchEvents' = FetchEvents
  BY <1>1 DEF FetchEvents, Scheduled
<1>4. \A i \in SubIds : i \in Nat
  BY SubRequestsKnown
<1>5. ByParent'
  BY <1>1 DEF OInv, ByParent
<1>6. InSequence'
  <2>1. \A i \in DOMAIN diskQ : i < id /\ i \in Nat /\ id \in Nat
    BY <1>4 DEF OInv, InSequence, SubIds
  <2>2. \A i \in DOMAIN diskQ', j \in DOMAIN schQ' : i < j
    BY <1>1, <1>4 DEF OInv, InSequence, SubIds
  <2>3. \A i \in present'.workstream_req, j \in DOMAIN diskQ' : j <= i
    BY <1>1, <1>4, <2>1 DEF SubIds
  <2>4. \A i \in present.fetch_page \cup present.task_result : i \in DOMAIN diskQ
    BY DEF IInv, DiskAccounting
  <2>5. \A i \in present'.fetch_page \cup present'.task_result, j \in DOMAIN diskQ' : i <= j
    BY <1>1, <1>2, <2>1, <2>4 DEF OInv, InSequence
  <2> QED BY <2>2, <2>3, <2>5 DEF InSequence
<1>7. ReadsInOrder' /\ Piles' /\ EndsOfQueue'
  BY <1>1, <1>2, <1>3 DEF OInv, ReadsInOrder, Piles, EndsOfQueue
<1> QED BY <1>5, <1>6, <1>7 DEF OInv

LEMMA ResponseOrder ==
  ASSUME IInv, OInv, dispatcher_workstream_rsp, UNCHANGED <<clientVars, taskQ>>
  PROVE  OInv'
<1>1. PICK id \in present.task_result :
    /\ id \in DOMAIN diskQ
    /\ DOMAIN diskQ' = DOMAIN diskQ \ {id} /\ SubIds' = SubIds \ {id}
    /\ \A i \in SubIds' : Sub(i)' = Sub(i)
    /\ present'.task_result = {}
    /\ present'.batch_response \subseteq {Sub(id).parent}
    /\ \A t \in Triggers \ {"task_result", "workstream_response", "batch_response"} :
         present'[t] = present[t]
    /\ UNCHANGED <<tag, pending, schQ, clientOut>>
  BY ResponseEffect
<1>2. \A t \in {"workstream_req", "fetch_page", "batch_request"} : present'[t] = present[t]
  BY <1>1, TriggerNames
<1>3. ByParent'
  BY <1>1 DEF OInv, ByParent
<1>4. InSequence'
  BY <1>1, <1>2 DEF OInv, InSequence
<1>5. ReadsInOrder' /\ Piles'
  BY <1>1 DEF OInv, ReadsInOrder, Piles, FetchEvents
<1>6. \A r \in DOMAIN clientOut : Sub(id).parent <= r
  <2> SUFFICES ASSUME NEW r \in DOMAIN clientOut PROVE Sub(id).parent <= r
    OBVIOUS
  <2>1. present.batch_request = {} /\ present.batch_response = {}
    BY TurnOrder DEF dispatcher_workstream_rsp, IInv, PortsFollow
  <2>2. r \in DOMAIN reqQ
    BY <2>1 DEF IInv, ClientDispatcherAgree
  <2>3. PICK j \in SubIds : Sub(j).parent = r
    BY <2>2 DEF IInv, BlockAccounting
  <2>4. id \in SubIds /\ id \in Nat /\ j \in Nat /\ r \in Nat
    BY <1>1, SubRequestsKnown DEF SubIds
  <2>5. id <= j
    BY <1>1, <2>4 DEF OInv, InSequence, SubIds
  <2> QED BY <2>3, <2>4, <2>5 DEF OInv, ByParent
<1>7. EndsOfQueue'
  BY <1>1, <1>2, <1>6 DEF OInv, EndsOfQueue
<1> QED BY <1>3, <1>4, <1>5, <1>7 DEF OInv

LEMMA TaskOrder ==
  ASSUME IInv, TInv, OInv, worker_task, UNCHANGED <<clientVars, dispatcherVars>>
  PROVE  OInv'
<1>1. PICK id \in present.workstream_req :
    /\ id \in Ids /\ id \in DOMAIN diskQ
    /\ \A e \in FetchEvents : e.id # id
    /\ pending' = Scheduled("fetch_page", id, ReadTime)
    /\ present'.workstream_req = {}
    /\ \A t \in Triggers \ {"workstream_req"} : present'[t] = present[t]
    /\ UNCHANGED <<tag, clientOut, schQ, diskQ>>
  BY TaskEffect
<1>2. PICK e :
    /\ AddsEvent(e, "fetch_page", id, pending') /\ e.time = tag.time + ReadTime
    /\ ReadTime = 0 => tag.micro < e.micro
    /\ \A k \in 0 .. e.micro - 1 :
         ReadTime > 0 \/ tag.micro < k => \E f \in Piled("fetch_page", e.time) : f.micro = k
  <2>1. TypeOK /\ "fetch_page" \in Actions /\ ReadTime \in Nat
    BY WorkerAssumption DEF IInv, Actions
  <2>2. id \in Ids /\ pending' = Scheduled("fetch_page", id, ReadTime)
    BY <1>1
  <2>3. \E e :
          /\ AddsEvent(e, "fetch_page", id, Scheduled("fetch_page", id, ReadTime))
          /\ e.time = tag.time + ReadTime
          /\ ReadTime = 0 => tag.micro < e.micro
          /\ \A k \in 0 .. e.micro - 1 :
               ReadTime > 0 \/ tag.micro < k => \E f \in Piled("fetch_page", e.time) : f.micro = k
    BY <2>1, <2>2, ScheduledLater, Zenon
  <2> QED BY <2>2, <2>3, Zenon
<1>3. /\ FetchEvents' = FetchEvents \cup {e} /\ e.id = id
      /\ e.time \in Nat /\ e.micro \in Nat
      /\ \A f \in FetchEvents : f.time = e.time => f.micro # e.micro
  BY <1>2 DEF AddsEvent, FetchEvents
<1>4. \A k \in 0 .. e.micro - 1 :
        ReadTime > 0 \/ tag.micro < k => \E f \in FetchEvents : f.time = e.time /\ f.micro = k
  <2>1. Piled("fetch_page", e.time) = {f \in FetchEvents : f.time = e.time}
    BY DEF Piled, FetchEvents
  <2> SUFFICES ASSUME NEW k \in 0 .. e.micro - 1, ReadTime > 0 \/ tag.micro < k
               PROVE  \E f \in FetchEvents : f.time = e.time /\ f.micro = k
    OBVIOUS
  <2>2. PICK f \in Piled("fetch_page", e.time) : f.micro = k
    BY <1>2
  <2> QED BY <2>1, <2>2
<1>5. \A f \in FetchEvents :
        /\ f.time \in Nat /\ f.micro \in Nat /\ f.id \in Nat /\ f.id < id
        /\ f.time <= e.time
  <2> SUFFICES ASSUME NEW f \in FetchEvents
               PROVE  /\ f.time \in Nat /\ f.micro \in Nat /\ f.id \in Nat /\ f.id < id
                      /\ f.time <= e.time
    OBVIOUS
  <2>1. f.time \in Nat /\ f.micro \in Nat /\ f.id \in SubIds /\ f.id \in Nat
    BY SubRequestsKnown DEF FetchEvents
  <2>2. f.id \in DOMAIN diskQ
    BY DEF IInv, DiskAccounting
  <2>3. f.id < id
    BY <1>1, <2>1, <2>2 DEF OInv, InSequence, Ids
  <2>4. SubTime(f.id) <= tag.time /\ SubTime(f.id) \in Nat
    BY <2>1, SubRequestsKnown DEF TInv, Punctual, SubTime
  <2>5. f.time = SubTime(f.id) + ReadTime
    BY DEF TInv, Punctual
  <2> QED BY <1>2, <2>1, <2>3, <2>4, <2>5, SubRequestsKnown, WorkerAssumption
<1>6. /\ tag.time < e.time \/ (tag.time = e.time /\ tag.micro < e.micro)
      /\ ReadTime > 0 <=> tag.time < e.time
      /\ tag.time \in Nat /\ tag.micro \in Nat
  BY <1>2, SubRequestsKnown, WorkerAssumption
<1>7. \A f \in FetchEvents : f.time = e.time => f.micro < e.micro
  <2> SUFFICES ASSUME NEW f \in FetchEvents, f.time = e.time, ~ (f.micro < e.micro)
               PROVE  FALSE
    OBVIOUS
  <2>1. e.micro \in 0 .. f.micro - 1
    BY <1>3, <1>5
  <2>2. tag.time < f.time \/ (tag.time = f.time /\ tag.micro < e.micro)
    BY <1>6
  <2>3. PICK g \in FetchEvents : g.time = f.time /\ g.micro = e.micro
    BY <2>1, <2>2 DEF OInv, Piles
  <2> QED BY <1>3, <2>3
<1>8. \A f \in FetchEvents : After(e, f)
  BY <1>3, <1>5, <1>7 DEF After
<1>9. ReadsInOrder'
  <2> SUFFICES ASSUME NEW f \in FetchEvents \cup {e}, NEW g \in FetchEvents \cup {e},
                      f.id < g.id
               PROVE  After(g, f)
    BY <1>3 DEF ReadsInOrder
  <2>1. CASE f = e
    BY <1>1, <1>3, <1>5, <2>1 DEF Ids
  <2>2. CASE g = e
    BY <1>1, <1>3, <1>8, <2>1, <2>2
  <2>3. CASE f \in FetchEvents /\ g \in FetchEvents
    BY <2>3 DEF OInv, ReadsInOrder
  <2> QED BY <2>1, <2>2, <2>3
<1>10. Piles'
  <2>1. \A f \in FetchEvents : \A k \in 0 .. f.micro - 1 :
          tag.time < f.time \/ (tag.time = f.time /\ tag.micro < k) =>
            \E g \in FetchEvents : g.time = f.time /\ g.micro = k
    BY DEF OInv, Piles
  <2> QED BY <1>1, <1>3, <1>4, <1>6, <2>1 DEF Piles
<1>11. \A t \in {"fetch_page", "task_result", "batch_request", "batch_response"} :
         present'[t] = present[t]
  BY <1>1, TriggerNames
<1>12. ByParent'
  BY <1>1 DEF OInv, ByParent, SubIds, Sub
<1>13. InSequence' /\ EndsOfQueue'
  BY <1>1, <1>11 DEF OInv, InSequence, EndsOfQueue
<1> QED BY <1>9, <1>10, <1>12, <1>13 DEF OInv

LEMMA FetchPageOrder ==
  ASSUME IInv, OInv, worker_fetch_page, UNCHANGED <<clientVars, dispatcherVars>>
  PROVE  OInv'
<1>1. PICK id \in present.fetch_page :
    /\ present'.fetch_page = {} /\ present'.task_result = {id}
    /\ \A t \in Triggers \ {"fetch_page", "task_result"} : present'[t] = present[t]
    /\ UNCHANGED <<tag, pending, clientOut, schQ, diskQ>>
  BY FetchPageEffect
<1>2. \A t \in {"workstream_req", "batch_request", "batch_response"} :
        present'[t] = present[t]
  BY <1>1, TriggerNames
<1>3. ByParent'
  BY <1>1 DEF OInv, ByParent, SubIds, Sub
<1>4. InSequence' /\ ReadsInOrder' /\ Piles' /\ EndsOfQueue'
  BY <1>1, <1>2 DEF OInv, InSequence, ReadsInOrder, Piles, EndsOfQueue, FetchEvents
<1> QED BY <1>3, <1>4 DEF OInv

LEMMA EnterTagOrder ==
  ASSUME IInv, TInv, OInv, AdvanceTag \/ AdvanceToStopTag,
         UNCHANGED <<clientVars, dispatcherVars, taskQ>>
  PROVE  OInv'
<1> DEFINE due(a) == {f \in pending : /\ f.action = a
                                      /\ f.time = tag'.time /\ f.micro = tag'.micro}
<1>1. /\ tag' \in [time : Nat, micro : Nat] /\ After(tag', tag)
      /\ \A e \in pending : NotAfter(tag', e)
      /\ pending' = {e \in pending : ~ (e.time = tag'.time /\ e.micro = tag'.micro)}
      /\ \A p \in Triggers : present[p] = {}
      /\ \A a \in Actions : present'[a] = {e.id : e \in due(a)}
      /\ \A p \in Triggers \ Actions : present'[p] = {}
      /\ UNCHANGED <<clientOut, schQ, diskQ>>
  BY EnterTagEffect DEF TInv
<1>2. /\ tag.time \in Nat /\ tag.micro \in Nat
      /\ \A e \in FetchEvents : e.time \in Nat /\ e.micro \in Nat /\ e.id \in Nat
      /\ tag'.time \in Nat /\ tag'.micro \in Nat /\ tag.time <= tag'.time
  BY <1>1, SubRequestsKnown DEF After, FetchEvents
<1>3. /\ present'.fetch_page = {e.id : e \in due("fetch_page")}
      /\ present'.batch_request = {} /\ present'.workstream_req = {}
      /\ present'.task_result = {} /\ present'.batch_response = {}
  <2> HIDE DEF due
  <2> QED BY <1>1, TriggerNames DEF Actions
<1>4. FetchEvents' = {e \in FetchEvents : ~ (e.time = tag'.time /\ e.micro = tag'.micro)}
  BY <1>1 DEF FetchEvents
<1>5. ByParent'
  BY <1>1 DEF OInv, ByParent, SubIds, Sub
<1>6. ASSUME NEW i \in present'.fetch_page, NEW j \in DOMAIN diskQ
      PROVE  i <= j
  <2>1. PICK e \in FetchEvents : e.id = i /\ e.time = tag'.time /\ e.micro = tag'.micro
    BY <1>3, <1>6 DEF FetchEvents
  <2>2. PICK f \in FetchEvents : f.id = j
    BY <1>1, TriggerNames DEF IInv, DiskAccounting
  <2>3. NotAfter(tag', f)
    BY <1>1 DEF FetchEvents
  <2>4. CASE f.id < e.id
    BY <1>2, <2>1, <2>3, <2>4 DEF OInv, ReadsInOrder, After, NotAfter
  <2> QED BY <1>2, <2>1, <2>2, <2>4
<1>7. InSequence'
  BY <1>1, <1>3, <1>6 DEF OInv, InSequence
<1>8. ReadsInOrder'
  BY <1>4 DEF OInv, ReadsInOrder
<1>9. Piles'
  <2> SUFFICES ASSUME NEW f \in FetchEvents', NEW k \in 0 .. f.micro - 1,
                      tag'.time < f.time \/ (tag'.time = f.time /\ tag'.micro < k)
               PROVE  \E e \in FetchEvents' : e.time = f.time /\ e.micro = k
    BY DEF Piles
  <2>1. f \in FetchEvents /\ f.time \in Nat /\ f.micro \in Nat
    BY <1>2, <1>4
  <2>2. tag.time < f.time \/ (tag.time = f.time /\ tag.micro < k)
    BY <1>1, <1>2, <2>1 DEF After
  <2>3. PICK e \in FetchEvents : e.time = f.time /\ e.micro = k
    BY <2>1, <2>2 DEF OInv, Piles
  <2>4. ~ (e.time = tag'.time /\ e.micro = tag'.micro)
    BY <1>2, <2>1, <2>3
  <2> QED BY <1>4, <2>3, <2>4
<1>10. EndsOfQueue'
  BY <1>3 DEF EndsOfQueue
<1> QED BY <1>5, <1>7, <1>8, <1>9, <1>10 DEF OInv

LEMMA QuietOrder ==
  ASSUME OInv, UNCHANGED <<tag, pending, present, clientOut, schQ, diskQ>>
  PROVE  OInv'
<1>1. ByParent' /\ InSequence'
  BY DEF OInv, ByParent, InSequence, SubIds, Sub
<1>2. ReadsInOrder' /\ Piles' /\ EndsOfQueue'
  BY DEF OInv, ReadsInOrder, Piles, EndsOfQueue, FetchEvents
<1> QED BY <1>1, <1>2 DEF OInv

LEMMA InitOInv == ASSUME Init PROVE OInv
<1> USE DEF Init, ClientInit, DispatcherInit, WorkerInit, Quiet, EmptyQueue
<1>1. \A t \in Triggers : present[t] = {}
  OBVIOUS
<1>2. SubIds = {} /\ FetchEvents = {}
  BY DEF SubIds, FetchEvents
<1>3. ByParent /\ ReadsInOrder /\ Piles
  BY <1>2 DEF ByParent, ReadsInOrder, Piles
<1>4. InSequence /\ EndsOfQueue
  BY <1>1, TriggerNames DEF InSequence, EndsOfQueue
<1> QED BY <1>3, <1>4 DEF OInv

LEMMA NextOInv ==
  ASSUME NoWrap, IInv, TInv, OInv, [Next]_vars
  PROVE  OInv'
<1>1. CASE ClientStep
  BY <1>1, SchRefOrder, InterimOrder, AnswerOrder DEF ClientStep
<1>2. CASE DispatcherStep
  BY <1>2, RequestOrder, TriggerOrder, ResponseOrder DEF DispatcherStep
<1>3. CASE WorkerStep
  BY <1>3, TaskOrder, FetchPageOrder DEF WorkerStep
<1>4. CASE RuntimeStep
  <2>1. CASE AdvanceTag \/ AdvanceToStopTag
    BY <1>4, <2>1, EnterTagOrder DEF RuntimeStep
  <2>2. CASE Shutdown
    BY <1>4, <2>2, QuietOrder DEF RuntimeStep, Shutdown, clientVars, dispatcherVars
  <2> QED BY <1>4, <2>1, <2>2 DEF RuntimeStep
<1>5. CASE UNCHANGED vars
  BY <1>5, QuietOrder DEF vars, rtVars, clientVars, dispatcherVars
<1> QED BY <1>1, <1>2, <1>3, <1>4, <1>5 DEF Next, Ended

-----------------------------------------------------------------------------
(* The client's view *)

\* What a step may do to the order of the client's requests.
LEMMA StepAnswersInOrder ==
  ASSUME NoWrap, IInv, OInv, [Next]_vars
  PROVE  [\A r, s \in DOMAIN clientOut : r \notin DOMAIN clientOut' => r <= s]_vars
<1> SUFFICES ASSUME NEW r \in DOMAIN clientOut, NEW s \in DOMAIN clientOut,
                    r \notin DOMAIN clientOut'
             PROVE  r <= s
  OBVIOUS
<1>1. CASE client_sch_ref /\ UNCHANGED <<dispatcherVars, taskQ>>
  BY <1>1, SchRefEffect
<1>2. CASE client_workstream_rsp /\ UNCHANGED <<dispatcherVars, taskQ>>
  BY <1>2, InterimEffect
<1>3. CASE client_batch_response /\ UNCHANGED <<dispatcherVars, taskQ>>
  <2>1. r \in present.batch_response
    BY <1>3, AnswerEffect
  <2> QED BY <2>1 DEF OInv, EndsOfQueue
<1>4. CASE DispatcherStep \/ WorkerStep \/ RuntimeStep \/ UNCHANGED vars
  BY <1>4 DEF DispatcherStep, WorkerStep, RuntimeStep, vars, clientVars
<1> QED BY <1>1, <1>2, <1>3, <1>4 DEF Next, ClientStep, Ended

\* What the client sees of its queue, and of the end of the program.
Missing == [r \in DOMAIN clientOut |-> clientOut[r].mask]
Phase ==
  CASE stop = "no" -> "open"
    [] stop \in {"requested", "final"} -> "closing"
    [] OTHER -> "closed"

LEMMA PhaseValues ==
  /\ stop = "no" => Phase = "open"
  /\ stop \in {"requested", "final"} => Phase = "closing"
  /\ stop = "done" => Phase = "closed"
  BY DEF Phase

LEMMA PhaseKept ==
  ASSUME stop' = stop
  PROVE  Phase' = Phase
  BY DEF Phase

\* A step that leaves the client's requests and the end alone is silent.
LEMMA SilentStep ==
  ASSUME refCounter' = refCounter, clientOut' = clientOut, Phase' = Phase
  PROVE  UNCHANGED Service!vars
<1>1. Missing' = Missing
  BY DEF Missing
<1> QED BY <1>1 DEF Service!vars, Missing, Phase

LEMMA IssueStep ==
  ASSUME NoWrap, IInv, TInv, client_sch_ref, UNCHANGED <<dispatcherVars, taskQ>>
  PROVE  Service!Next
<1>1. PICK len \in 1 .. MaxLen :
    /\ present.sch_ref # {} /\ refCounter < Requests /\ refCounter' = refCounter + 1
    /\ refCounter \notin DOMAIN clientOut
    /\ DOMAIN clientOut' = DOMAIN clientOut \cup {refCounter}
    /\ clientOut'[refCounter] = [mask |-> 0 .. len - 1, ts |-> tag.time]
    /\ \A r \in DOMAIN clientOut : clientOut'[r] = clientOut[r]
    /\ stop' = stop
  BY SchRefEffect
<1>2. Phase # "closed" /\ Phase' = Phase
  <2>1. stop # "done"
    BY <1>1, StillRunning, TriggerNames DEF TInv
  <2>2. stop \in {"no", "requested", "final"}
    BY <2>1 DEF IInv, TypeOK, RuntimeTypeOK
  <2> QED BY <1>1, <2>2, PhaseValues, PhaseKept
<1>3. Missing' = [r \in DOMAIN Missing \cup {refCounter} |->
                    IF r = refCounter THEN 0 .. len - 1 ELSE Missing[r]]
  BY <1>1 DEF Missing
<1>4. Service!Issue(len)
  BY <1>1, <1>2, <1>3 DEF Service!Issue, Missing, Phase
<1> QED BY <1>4 DEF Service!Next

LEMMA DeliverStep ==
  ASSUME IInv, TInv, client_workstream_rsp, UNCHANGED <<dispatcherVars, taskQ>>
  PROVE  Service!Next
<1>1. PICK rsp \in present.workstream_response :
    /\ rsp.id \in DOMAIN clientOut /\ rsp.block \in clientOut[rsp.id].mask
    /\ DOMAIN clientOut' = DOMAIN clientOut
    /\ clientOut'[rsp.id].mask = clientOut[rsp.id].mask \ {rsp.block}
    /\ \A r \in DOMAIN clientOut \ {rsp.id} : clientOut'[r] = clientOut[r]
    /\ stop' = stop /\ refCounter' = refCounter
  BY InterimEffect
<1>2. Phase # "closed" /\ Phase' = Phase
  <2>1. stop # "done"
    BY <1>1, StillRunning, TriggerNames DEF TInv
  <2>2. stop \in {"no", "requested", "final"}
    BY <2>1 DEF IInv, TypeOK, RuntimeTypeOK
  <2> QED BY <1>1, <2>2, PhaseValues, PhaseKept
<1>3. rsp.block \in 0 .. MaxLen - 1
  BY <1>1 DEF IInv, TypeOK, PresentTypeOK, Blocks
<1>4. /\ rsp.id \in DOMAIN Missing /\ rsp.block \in Missing[rsp.id]
      /\ Missing' = [Missing EXCEPT ![rsp.id] = @ \ {rsp.block}]
  BY <1>1 DEF Missing
<1>5. Service!Deliver(rsp.id, rsp.block)
  BY <1>1, <1>2, <1>4 DEF Service!Deliver, Missing, Phase
<1>6. rsp.id \in DOMAIN [r \in DOMAIN clientOut |-> clientOut[r].mask]
  BY <1>1
<1> QED BY <1>3, <1>5, <1>6 DEF Service!Next

LEMMA AnswerStep ==
  ASSUME IInv, TInv, OInv, client_batch_response, UNCHANGED <<dispatcherVars, taskQ>>
  PROVE  Service!Next
<1>1. PICK id \in present.batch_response :
    /\ id \in DOMAIN clientOut /\ clientOut[id].mask = {}
    /\ DOMAIN clientOut' = DOMAIN clientOut \ {id}
    /\ \A r \in DOMAIN clientOut' : clientOut'[r] = clientOut[r]
    /\ stop' = IF terminate THEN StopRequested ELSE stop
    /\ refCounter' = refCounter
  BY AnswerEffect
<1>2. stop \in {"no", "requested", "final"}
  <2>1. stop # "done"
    BY <1>1, StillRunning, TriggerNames DEF TInv
  <2> QED BY <2>1 DEF IInv, TypeOK, RuntimeTypeOK
<1>3. Phase # "closed"
  BY <1>2, PhaseValues
<1>4. Phase' = IF refCounter = Requests THEN "closing" ELSE Phase
  <2>1. terminate <=> refCounter = Requests
    BY DEF IInv, TypeOK, ClientTypeOK
  <2>2. CASE terminate
    <3>1. stop' \in {"requested", "final"}
      BY <1>1, <1>2, <2>2 DEF StopRequested
    <3>2. Phase' = "closing"
      BY <3>1 DEF Phase
    <3> QED BY <2>1, <2>2, <3>2
  <2>3. CASE ~terminate
    BY <1>1, <2>1, <2>3, PhaseKept
  <2> QED BY <2>2, <2>3
<1>5. \A s \in DOMAIN clientOut : id <= s
  BY <1>1 DEF OInv, EndsOfQueue
<1>6. /\ DOMAIN Missing = DOMAIN clientOut /\ Missing[id] = {}
      /\ Missing' = [s \in DOMAIN Missing \ {id} |-> Missing[s]]
  BY <1>1 DEF Missing
<1>7. Service!Answer(id)
  BY <1>1, <1>3, <1>4, <1>5, <1>6 DEF Service!Answer, Missing, Phase
<1>8. id \in DOMAIN [r \in DOMAIN clientOut |-> clientOut[r].mask]
  BY <1>1
<1> QED BY <1>7, <1>8 DEF Service!Next

LEMMA RuntimeServiceStep ==
  ASSUME RuntimeStep
  PROVE  [Service!Next]_(Service!vars)
<1>1. refCounter' = refCounter /\ clientOut' = clientOut
  BY DEF RuntimeStep, clientVars
<1>2. CASE AdvanceTag
  <2>1. stop' = stop
    BY <1>2 DEF AdvanceTag
  <2> QED BY <1>1, <2>1, PhaseKept, SilentStep
<1>3. CASE AdvanceToStopTag
  <2>1. stop = "requested" /\ stop' = "final"
    BY <1>3 DEF AdvanceToStopTag
  <2>2. Phase = "closing" /\ Phase' = "closing"
    BY <2>1 DEF Phase
  <2> QED BY <1>1, <2>2, SilentStep
<1>4. CASE Shutdown
  <2>1. stop = "final" /\ stop' = "done"
    BY <1>4 DEF Shutdown
  <2>2. Phase = "closing" /\ Phase' = "closed"
    BY <2>1 DEF Phase
  <2>3. Missing' = Missing
    BY <1>1 DEF Missing
  <2>4. Service!Close
    BY <1>1, <2>2, <2>3 DEF Service!Close, Missing, Phase
  <2> QED BY <2>4 DEF Service!Next
<1> QED BY <1>2, <1>3, <1>4 DEF RuntimeStep

LEMMA NextService ==
  ASSUME NoWrap, IInv, TInv, OInv, [Next]_vars
  PROVE  [Service!Next]_(Service!vars)
<1>1. CASE ClientStep
  BY <1>1, IssueStep, DeliverStep, AnswerStep DEF ClientStep
<1>2. CASE DispatcherStep \/ WorkerStep \/ UNCHANGED vars
  <2>1. refCounter' = refCounter /\ clientOut' = clientOut
    BY <1>2 DEF DispatcherStep, WorkerStep, vars, clientVars
  <2>2. stop' = stop
    BY <1>2 DEF DispatcherStep, WorkerStep, vars, rtVars, dispatcher_batch_request,
                dispatcher_storage_req_trigger, dispatcher_workstream_rsp,
                worker_task, worker_fetch_page
  <2> QED BY <2>1, <2>2, PhaseKept, SilentStep
<1>3. CASE RuntimeStep
  BY <1>3, RuntimeServiceStep
<1> QED BY <1>1, <1>2, <1>3 DEF Next, Ended

LEMMA InitService == ASSUME Init PROVE Service!Init
<1>1. refCounter = 0 /\ stop = "no" /\ clientOut = [i \in {} |-> 0]
  BY DEF Init, ClientInit, EmptyQueue
<1>2. [r \in DOMAIN clientOut |-> clientOut[r].mask] = [r \in {} |-> {}]
  BY <1>1
<1> QED BY <1>1, <1>2 DEF Service!Init

-----------------------------------------------------------------------------
(* The way to the end *)

\* The function present is given by its values.
Presence == present = [t \in Triggers |-> present[t]]

LEMMA InitToCome == ASSUME Init PROVE StillToCome /\ Presence
<1>1. StillToCome
  <2>1. [action |-> "sch_ref", id |-> 0, time |-> 0, micro |-> 1] \in SchRefEvents
    BY DEF Init, SchRefEvents
  <2> QED BY <2>1 DEF Init, ClientInit, StillToCome
<1>2. Presence
  BY DEF Init, Quiet, Presence
<1> QED BY <1>1, <1>2

LEMMA NextPresence == ASSUME TypeOK, Presence, [Next]_vars PROVE Presence'
<1>1. DOMAIN present = Triggers
  BY DEF TypeOK, PresentTypeOK
<1>2. ASSUME NEW t, NEW x, present' = [present EXCEPT ![t] = x] PROVE Presence'
  BY <1>1, <1>2 DEF Presence
<1>3. ASSUME NEW t, NEW x, NEW u, NEW y, present' = [present EXCEPT ![t] = x, ![u] = y]
      PROVE  Presence'
  BY <1>1, <1>3 DEF Presence
<1>4. CASE ClientStep
  <2>1. CASE client_sch_ref
    BY <1>3, <2>1 DEF client_sch_ref, schedule_reference
  <2>2. CASE client_workstream_rsp \/ client_batch_response
    BY <1>2, <2>2 DEF client_workstream_rsp, client_batch_response
  <2> QED BY <1>4, <2>1, <2>2 DEF ClientStep
<1>5. CASE DispatcherStep
  <2>1. CASE dispatcher_batch_request
    BY <1>2, <2>1 DEF dispatcher_batch_request
  <2>2. CASE dispatcher_storage_req_trigger
    BY <1>2, <1>3, <2>2 DEF dispatcher_storage_req_trigger, schedule_disk_request
  <2>3. CASE dispatcher_workstream_rsp
    <3>1. PICK id \in present.task_result : process_disk_response(id)
      BY <2>3 DEF dispatcher_workstream_rsp
    <3>2. \/ present' = [present EXCEPT !.task_result = {}]
          \/ present' = present
          \/ \E sub, mask : SendResponses(sub, mask)
      BY <3>1 DEF process_disk_response
    <3>3. ASSUME NEW sub, NEW mask, SendResponses(sub, mask) PROVE Presence'
      BY <1>1, <3>3 DEF Presence, SendResponses
    <3>4. CASE present' = present
      BY <3>4 DEF Presence
    <3> QED BY <1>2, <3>2, <3>3, <3>4
  <2> QED BY <1>5, <2>1, <2>2, <2>3 DEF DispatcherStep
<1>6. CASE WorkerStep
  <2>1. CASE worker_task
    BY <1>2, <2>1 DEF worker_task
  <2>2. CASE worker_fetch_page
    BY <1>2, <1>3, <2>2 DEF worker_fetch_page, emulate_delay
  <2> QED BY <1>6, <2>1, <2>2 DEF WorkerStep
<1>7. CASE RuntimeStep
  <2>1. ASSUME NEW t, NEW m, EnterTag(t, m) PROVE Presence'
    BY <2>1 DEF EnterTag, Presence
  <2>2. CASE AdvanceTag \/ AdvanceToStopTag
    BY <2>1, <2>2 DEF AdvanceTag, AdvanceToStopTag
  <2>3. CASE Shutdown
    BY <2>3 DEF Shutdown, Presence
  <2> QED BY <1>7, <2>2, <2>3 DEF RuntimeStep
<1>8. CASE UNCHANGED vars
  BY <1>8 DEF vars, rtVars, Presence
<1> QED BY <1>4, <1>5, <1>6, <1>7, <1>8 DEF Next, Ended

\* Steps that leave the client and its events alone.
LEMMA KeepsToCome ==
  ASSUME StillToCome, UNCHANGED <<refCounter, terminate>>, stop = "no" \/ stop' # "no",
         DOMAIN clientOut' = DOMAIN clientOut, SchRefEvents \subseteq SchRefEvents',
         present'.sch_ref = present.sch_ref
  PROVE  StillToCome'
  BY DEF StillToCome

\* A scheduled event is one more event, of its action.
LEMMA ScheduledOneMore ==
  ASSUME TypeOK, NEW a \in Actions, NEW id \in Ids, NEW d \in Nat,
         pending' = Scheduled(a, id, d)
  PROVE  /\ pending \subseteq pending' /\ \E e \in pending' : e.action = a
         /\ Cardinality(pending) \in Nat /\ Cardinality(pending') = Cardinality(pending) + 1
<1>1. PICK e : AddsEvent(e, a, id, pending')
  BY ScheduledAddsOne
<1>2. IsFiniteSet(pending)
  BY DEF TypeOK, RuntimeTypeOK
<1>3. Cardinality(pending \cup {e}) = Cardinality(pending) + 1
  BY <1>1, <1>2, FS_AddElement DEF AddsEvent
<1>4. Cardinality(pending) \in Nat
  BY <1>2, FS_CardinalityType
<1> QED BY <1>1, <1>3, <1>4 DEF AddsEvent

LEMMA ScheduledIds == 0 \in Ids /\ 0 \in Nat /\ \A d \in Intervals : d \in Nat
  BY IdModAssumption, IntervalBounds DEF Ids

LEMMA NextToCome ==
  ASSUME NoWrap, IInv, TInv, StillToCome, [Next]_vars
  PROVE  StillToCome'
<1>0. TypeOK
  BY DEF IInv
<1>1. CASE client_sch_ref /\ UNCHANGED <<dispatcherVars, taskQ>>
  <2>1. /\ refCounter < Requests /\ DOMAIN clientOut' = DOMAIN clientOut \cup {refCounter}
        /\ \/ terminate' = TRUE
           \/ \E d \in Intervals :
                pending' = Scheduled("sch_ref", 0, d) /\ terminate' = terminate
    BY <1>1, SchRefEffect
  <2>2. CASE terminate' = TRUE
    <3>1. IInv'
      BY <1>1, NextIInv DEF Next, ClientStep
    <3>2. refCounter' = Requests /\ Requests \in Nat
      BY <2>2, <3>1, ClientAssumption DEF IInv, TypeOK, ClientTypeOK, Requests
    <3> QED BY <2>1, <3>2 DEF StillToCome
  <2>3. CASE \E d \in Intervals :
               pending' = Scheduled("sch_ref", 0, d) /\ terminate' = terminate
    <3>1. SchRefEvents' # {}
      <4>1. "sch_ref" \in Actions
        BY DEF Actions
      <4>2. \E e \in pending' : e.action = "sch_ref"
        BY <1>0, <2>3, <4>1, ScheduledOneMore, ScheduledIds
      <4> QED BY <4>2 DEF SchRefEvents
    <3>2. ~terminate'
      BY <2>1, <2>3 DEF IInv, TypeOK, ClientTypeOK
    <3> QED BY <3>1, <3>2 DEF StillToCome
  <2> QED BY <2>1, <2>2, <2>3
<1>2. CASE client_workstream_rsp /\ UNCHANGED <<dispatcherVars, taskQ>>
  <2>1. /\ DOMAIN clientOut' = DOMAIN clientOut /\ present'.sch_ref = present.sch_ref
        /\ UNCHANGED <<pending, stop, refCounter, terminate>>
    BY <1>2, InterimEffect, TriggerNames
  <2> QED BY <2>1 DEF StillToCome, SchRefEvents
<1>3. CASE client_batch_response /\ UNCHANGED <<dispatcherVars, taskQ>>
  <2>1. /\ stop' = IF terminate THEN StopRequested ELSE stop
        /\ present'.sch_ref = present.sch_ref
        /\ UNCHANGED <<pending, refCounter, terminate>>
    BY <1>3, AnswerEffect, TriggerNames
  <2>2. terminate' => stop' # "no"
    BY <2>1 DEF StopRequested
  <2>3. SchRefEvents' = SchRefEvents
    BY <2>1 DEF SchRefEvents
  <2> QED BY <2>1, <2>2, <2>3 DEF StillToCome
<1>4. CASE DispatcherStep
  <2>1. UNCHANGED <<refCounter, terminate, clientOut, stop>>
    BY <1>4 DEF DispatcherStep, clientVars, dispatcher_batch_request,
                dispatcher_storage_req_trigger, dispatcher_workstream_rsp
  <2>2. present'.sch_ref = present.sch_ref
    <3>1. "sch_ref" \in Triggers
      BY TriggerNames
    <3> QED BY <1>4, <3>1, RequestEffect, TriggerEffect, ResponseEffect DEF DispatcherStep
  <2>3. pending' = pending \/ pending' = Scheduled("storage_req_trigger", 0, 0)
    BY <1>4, RequestEffect, TriggerEffect, ResponseEffect DEF DispatcherStep
  <2>4. SchRefEvents \subseteq SchRefEvents'
    BY <2>3 DEF SchRefEvents, Scheduled
  <2> QED BY <2>1, <2>2, <2>4 DEF StillToCome
<1>5. CASE WorkerStep
  <2>1. UNCHANGED <<refCounter, terminate, clientOut, stop>>
    BY <1>5 DEF WorkerStep, clientVars, worker_task, worker_fetch_page
  <2>2. present'.sch_ref = present.sch_ref
    <3>1. "sch_ref" \in Triggers
      BY TriggerNames
    <3> QED BY <1>5, <3>1, TaskEffect, FetchPageEffect DEF WorkerStep
  <2>3. pending' = pending \/ \E id \in Ids : pending' = Scheduled("fetch_page", id, ReadTime)
    BY <1>5, TaskEffect, FetchPageEffect DEF WorkerStep
  <2>4. SchRefEvents \subseteq SchRefEvents'
    BY <2>3 DEF SchRefEvents, Scheduled
  <2> QED BY <2>1, <2>2, <2>4 DEF StillToCome
<1>6. CASE (AdvanceTag \/ AdvanceToStopTag) /\ UNCHANGED <<clientVars, dispatcherVars, taskQ>>
  <2>1. /\ pending' = {e \in pending : ~ (e.time = tag'.time /\ e.micro = tag'.micro)}
        /\ \A p \in Triggers : present[p] = {}
        /\ \A a \in Actions : present'[a] =
             {e.id : e \in {f \in pending : /\ f.action = a
                                            /\ f.time = tag'.time /\ f.micro = tag'.micro}}
        /\ (stop = "no" /\ stop' = "no") \/ (stop = "requested" /\ stop' = "final")
        /\ UNCHANGED <<refCounter, terminate, clientOut>>
    BY <1>6, EnterTagEffect DEF TInv
  <2>2. SchRefEvents # {} => SchRefEvents' # {} \/ present'.sch_ref # {}
    <3>1. "sch_ref" \in Actions
      BY DEF Actions
    <3>2. SUFFICES ASSUME NEW e \in SchRefEvents, SchRefEvents' = {}
                   PROVE  e.id \in present'.sch_ref
      OBVIOUS
    <3>3. e \in pending /\ e.action = "sch_ref" /\ e \notin pending'
      BY <3>2 DEF SchRefEvents
    <3>4. e.time = tag'.time /\ e.micro = tag'.micro
      BY <2>1, <3>3
    <3> QED BY <2>1, <3>1, <3>3, <3>4
  <2>3. present.sch_ref = {}
    BY <2>1, TriggerNames
  <2> QED BY <2>1, <2>2, <2>3 DEF StillToCome
<1>7. CASE UNCHANGED <<refCounter, terminate, clientOut, pending, present>>
           /\ (stop = "no" \/ stop' # "no")
  BY <1>7 DEF StillToCome, SchRefEvents
<1>8. CASE Shutdown /\ UNCHANGED <<clientVars, dispatcherVars, taskQ>>
  BY <1>7, <1>8 DEF Shutdown, clientVars
<1>9. CASE UNCHANGED vars
  BY <1>7, <1>9 DEF vars, rtVars, clientVars
<1> QED BY <1>1, <1>2, <1>3, <1>4, <1>5, <1>6, <1>8, <1>9
        DEF Next, ClientStep, RuntimeStep, Ended

\* Some event comes before all others.
LEMMA FirstEvent ==
  ASSUME TypeOK, pending # {}
  PROVE  \E e \in pending : \A f \in pending : NotAfter(e, f)
<1>1. \A e \in pending : e.time \in Nat /\ e.micro \in Nat
  BY DEF TypeOK, RuntimeTypeOK
<1> DEFINE T == {e.time : e \in pending}
<1>2. T \in SUBSET Nat /\ T # {}
  BY <1>1
<1>3. PICK t \in T : \A j \in T : t <= j
  <2> HIDE DEF T
  <2> QED BY <1>2, LeastNatural
<1> DEFINE M == {e.micro : e \in {f \in pending : f.time = t}}
<1>4. M \in SUBSET Nat /\ M # {}
  BY <1>1, <1>3
<1>5. PICK m \in M : \A j \in M : m <= j
  <2> HIDE DEF M
  <2> QED BY <1>4, LeastNatural
<1>6. PICK e \in pending : e.time = t /\ e.micro = m
  BY <1>5
<1>7. ASSUME NEW f \in pending PROVE NotAfter(e, f)
  <2>1. t <= f.time /\ (f.time = t => m <= f.micro)
    BY <1>3, <1>5
  <2> QED BY <1>1, <1>6, <2>1 DEF NotAfter
<1> QED BY <1>7

\* If anything is present, some reaction is the first that is triggered.
LEMMA SomeTurn ==
  ASSUME IInv, Presence, present # Quiet
  PROVE  \E t \in Triggers : Turn(t)
<1>1. PICK u \in Triggers : present[u] # {}
  BY DEF Presence, Quiet
<1> DEFINE S == {Level[t] : t \in {x \in Triggers : present[x] # {}}}
<1>2. S \in SUBSET Nat /\ S # {}
  <2>1. \A t \in Triggers : Level[t] \in Nat
    BY TriggerNames DEF Level
  <2> QED BY <1>1, <2>1
<1>3. PICK l \in S : \A j \in S : l <= j
  <2> HIDE DEF S
  <2> QED BY <1>2, LeastNatural
<1>4. PICK t \in Triggers : present[t] # {} /\ Level[t] = l
  BY <1>3
<1>5. ASSUME NEW v \in Triggers, Level[v] < Level[t] PROVE present[v] = {}
  <2>1. SUFFICES ASSUME present[v] # {} PROVE FALSE
    OBVIOUS
  <2>2. Level[v] \in S
    BY <2>1
  <2>3. Level[v] \in Nat /\ l \in Nat /\ l <= Level[v]
    BY <1>2, <1>3, <2>2
  <2> QED BY <1>4, <1>5, <2>3
<1>6. Turn(t)
  BY <1>4, <1>5 DEF Turn, IInv, NoCrash
<1> QED BY <1>6

\* Between two tags something is due until a stop was requested.
LEMMA SomeEvent ==
  ASSUME IInv, StillToCome, present = Quiet, stop = "no"
  PROVE  pending # {}
<1>1. \A t \in Triggers : present[t] = {}
  BY DEF Quiet
<1>2. CASE refCounter < Requests
  BY <1>1, <1>2, TriggerNames DEF StillToCome, SchRefEvents
<1>3. CASE ~ (refCounter < Requests)
  <2>1. terminate
    BY <1>3, ClientAssumption DEF IInv, TypeOK, ClientTypeOK, Requests
  <2>2. PICK r \in DOMAIN clientOut : TRUE
    BY <2>1 DEF StillToCome
  <2>3. r \in DOMAIN reqQ
    BY <1>1, TriggerNames DEF IInv, ClientDispatcherAgree
  <2>4. PICK i \in SubIds : TRUE
    BY <2>3 DEF IInv, BlockAccounting
  <2>5. CASE i \in DOMAIN schQ
    <3>1. ~is_empty(schQ) /\ present.storage_req_trigger = {}
      BY <1>1, <2>5, TriggerNames DEF is_empty
    <3>2. TriggerEvents # {}
      BY <3>1 DEF IInv, TriggerArmed
    <3> QED BY <3>2 DEF TriggerEvents
  <2>6. CASE i \in DOMAIN diskQ
    <3>1. i \in taskQ /\ present.fetch_page = {}
      BY <1>1, <2>6, TriggerNames DEF IInv, DiskAccounting
    <3>2. FetchEvents # {}
      BY <3>1 DEF IInv, DiskAccounting
    <3> QED BY <3>2 DEF FetchEvents
  <2> QED BY <2>4, <2>5, <2>6 DEF SubIds
<1> QED BY <1>2, <1>3

LEMMA CanGoOn == ASSUME IInv, StillToCome, Presence PROVE NeverStuck
<1>1. CASE present # Quiet
  BY <1>1, SomeTurn DEF NeverStuck
<1>2. CASE present = Quiet
  BY <1>2, SomeEvent, FirstEvent DEF NeverStuck, IInv, NoCrash
<1> QED BY <1>1, <1>2

-----------------------------------------------------------------------------
(* How many steps are left *)

\* The parts of StepsLeft.
LEMMA RequestPart ==
  /\ MaxLen \in Nat /\ RequestSteps \in Nat /\ RequestSteps = 15 * MaxLen + 8
  /\ Requests \in Nat
  BY ClientAssumption DEF RequestSteps, BlockSteps, EventSteps, Requests

LEMMA IssuePart ==
  ASSUME IInv
  PROVE  /\ IssueSteps \in Nat
         /\ refCounter' = refCounter => IssueSteps' = IssueSteps
         /\ refCounter' = refCounter + 1 =>
              IssueSteps' = IssueSteps - (RequestSteps + 7)
<1> DEFINE k == RequestSteps + 7
<1>1. /\ k \in Nat /\ Requests \in Nat /\ refCounter \in Nat /\ Requests - refCounter \in Nat
  BY RequestPart DEF IInv, TypeOK, ClientTypeOK
<1>2. \A r \in Nat : k * r \in Nat /\ k * (r - 1) = k * r - k
  BY <1>1
<1>3. IssueSteps = k * (Requests - refCounter) /\ IssueSteps' = k * (Requests - refCounter')
  BY DEF IssueSteps, EventSteps
<1> HIDE DEF k
<1>4. ASSUME refCounter' = refCounter + 1 PROVE IssueSteps' = IssueSteps - k
  <2>1. Requests - refCounter' = (Requests - refCounter) - 1
    BY <1>1, <1>4
  <2>2. k * ((Requests - refCounter) - 1) = k * (Requests - refCounter) - k
    BY <1>1, <1>2
  <2> QED BY <1>3, <2>1, <2>2
<1>5. k * (Requests - refCounter) \in Nat
  BY <1>1, <1>2
<1> QED BY <1>1, <1>3, <1>4, <1>5 DEF k

LEMMA QueuePart ==
  ASSUME IInv
  PROVE  /\ IsFiniteSet(DOMAIN schQ) /\ Cardinality(DOMAIN schQ) \in Nat
         /\ IsFiniteSet(pending) /\ Cardinality(pending) \in Nat
         /\ QueueSteps = 15 * Cardinality(DOMAIN schQ) + 7 * Cardinality(pending)
         /\ QueueSteps' = 15 * Cardinality(DOMAIN schQ') + 7 * Cardinality(pending')
<1>1. IsFiniteSet(DOMAIN schQ) /\ IsFiniteSet(pending)
  <2>1. IsFiniteSet(Ids)
    BY IdModAssumption, FS_Interval DEF Ids
  <2> QED BY <2>1, FS_Subset DEF IInv, TypeOK, DispatcherTypeOK, RuntimeTypeOK
<1>2. Cardinality(DOMAIN schQ) \in Nat /\ Cardinality(pending) \in Nat
  BY <1>1, FS_CardinalityType
<1> QED BY <1>1, <1>2 DEF QueueSteps, BlockSteps, EventSteps

LEMMA StopPart ==
  ASSUME IInv
  PROVE  /\ StopSteps \in Nat
         /\ stop = "no" => StopSteps = 3
         /\ stop = "requested" => StopSteps = 2
         /\ stop = "final" => StopSteps = 1
         /\ stop' = stop => StopSteps' = StopSteps
         /\ stop' = "requested" => StopSteps' = 2
         /\ stop' = "final" => StopSteps' = 1
         /\ stop' = "done" => StopSteps' = 0
  BY DEF StopSteps, IInv, TypeOK, RuntimeTypeOK

LEMMA PortPart == ASSUME NEW p PROVE PortSteps(p) \in Nat
  BY RequestPart DEF PortSteps, Leads, EventSteps

LEMMA StepsLeftIs == ASSUME IInv PROVE StepsLeft \in Nat
<1>1. QueueSteps \in Nat
  BY QueuePart
<1> QED BY <1>1, IssuePart, PortPart, StopPart DEF StepsLeft

\* A step that leaves most of the parts alone.
LEMMA Nearer ==
  ASSUME IInv, NEW s \in Nat, NEW e \in Nat,
         UNCHANGED <<refCounter, stop>>,
         Cardinality(DOMAIN schQ') = Cardinality(DOMAIN schQ) - s,
         Cardinality(pending') \in Nat,
         Cardinality(pending') <= Cardinality(pending) + e,
         PortSteps(present') + 7 * e < PortSteps(present) + 15 * s
  PROVE  StepsLeft' < StepsLeft
<1>1. IssueSteps \in Nat /\ IssueSteps' = IssueSteps
  BY IssuePart
<1>2. StopSteps \in Nat /\ StopSteps' = StopSteps
  BY StopPart
<1>3. PortSteps(present) \in Nat /\ PortSteps(present') \in Nat
  BY PortPart
<1>4. /\ Cardinality(DOMAIN schQ) \in Nat /\ Cardinality(pending) \in Nat
      /\ QueueSteps = 15 * Cardinality(DOMAIN schQ) + 7 * Cardinality(pending)
      /\ QueueSteps' = 15 * Cardinality(DOMAIN schQ') + 7 * Cardinality(pending')
  BY QueuePart
<1>5. /\ StepsLeft = IssueSteps + QueueSteps + PortSteps(present) + StopSteps
      /\ StepsLeft' = IssueSteps' + QueueSteps' + PortSteps(present') + StopSteps'
  BY DEF StepsLeft
<1> QED BY <1>1, <1>2, <1>3, <1>4, <1>5

\* The event queue after lf_schedule, or without it.
LEMMA AtMostOneMore ==
  ASSUME IInv, NEW a \in Actions, NEW id \in Ids, NEW d \in Nat,
         pending' = pending \/ pending' = Scheduled(a, id, d)
  PROVE  /\ Cardinality(pending') \in Nat
         /\ Cardinality(pending') <= Cardinality(pending) + 1
<1>1. TypeOK /\ Cardinality(pending) \in Nat
  BY QueuePart DEF IInv
<1> QED BY <1>1, ScheduledOneMore

\* The queues count as before if they stay as they are.
LEMMA QueuesKept ==
  ASSUME IInv, schQ' = schQ, pending' = pending
  PROVE  QueueSteps' = QueueSteps /\ QueueSteps \in Nat
<1>1. QueueSteps \in Nat
  BY QueuePart
<1>2. QueueSteps' = QueueSteps
  BY DEF QueueSteps
<1> QED BY <1>1, <1>2

\* A step that changes the ports only.
LEMMA PortsNearer ==
  ASSUME IInv, UNCHANGED <<refCounter, stop, pending, schQ>>,
         PortSteps(present') < PortSteps(present)
  PROVE  StepsLeft' < StepsLeft
<1>1. IssueSteps' = IssueSteps /\ IssueSteps \in Nat /\ StopSteps' = StopSteps /\ StopSteps \in Nat
  BY IssuePart, StopPart
<1>2. QueueSteps' = QueueSteps /\ QueueSteps \in Nat
  BY QueuesKept
<1> QED BY <1>1, <1>2, PortPart DEF StepsLeft

\* reaction (sch_ref): one request less to issue, one on the wire.
LEMMA SchRefNears ==
  ASSUME NoWrap, IInv, client_sch_ref, UNCHANGED <<dispatcherVars, taskQ>>
  PROVE  StepsLeft' < StepsLeft
<1>1. /\ present.sch_ref # {} /\ refCounter' = refCounter + 1
      /\ present'.sch_ref = {}
      /\ \A t \in Triggers \ {"sch_ref", "batch_request"} : present'[t] = present[t]
      /\ UNCHANGED <<stop, schQ>>
      /\ pending' = pending \/ \E d \in Intervals : pending' = Scheduled("sch_ref", 0, d)
  BY SchRefEffect
<1>2. RequestSteps \in Nat /\ IssueSteps \in Nat /\ IssueSteps' = IssueSteps - (RequestSteps + 7)
  BY <1>1, IssuePart, RequestPart
<1>3. QueueSteps \in Nat /\ QueueSteps' \in Nat /\ QueueSteps' <= QueueSteps + 7
  <2>1. "sch_ref" \in Actions
    BY DEF Actions
  <2>2. Cardinality(pending') \in Nat /\ Cardinality(pending') <= Cardinality(pending) + 1
    <3>1. CASE pending' = pending
      BY <3>1, QueuePart
    <3>2. CASE \E d \in Intervals : pending' = Scheduled("sch_ref", 0, d)
      BY <2>1, <3>2, AtMostOneMore, ScheduledIds
    <3> QED BY <1>1, <3>1, <3>2
  <2> QED BY <1>1, <2>2, QueuePart
<1>4. /\ PortSteps(present) \in Nat /\ PortSteps(present') \in Nat
      /\ PortSteps(present') <= PortSteps(present) + RequestSteps - 1
  BY <1>1, <1>2, PortPart, TriggerNames DEF PortSteps, Leads, EventSteps
<1>5. StopSteps \in Nat /\ StopSteps' = StopSteps
  BY <1>1, StopPart
<1> QED BY <1>2, <1>3, <1>4, <1>5 DEF StepsLeft

\* reaction (workstream_rsp) of the client.
LEMMA InterimNears ==
  ASSUME IInv, client_workstream_rsp, UNCHANGED <<dispatcherVars, taskQ>>
  PROVE  StepsLeft' < StepsLeft
<1>1. /\ present.workstream_response # {} /\ present'.workstream_response = {}
      /\ \A t \in Triggers \ {"workstream_response"} : present'[t] = present[t]
      /\ UNCHANGED <<pending, stop, refCounter, schQ>>
  BY InterimEffect
<1>2. PortSteps(present') < PortSteps(present)
  BY <1>1, RequestPart, TriggerNames DEF PortSteps, Leads, EventSteps
<1> QED BY <1>1, <1>2, PortsNearer

\* reaction (batch_response) of the client.
LEMMA AnswerNears ==
  ASSUME IInv, client_batch_response, UNCHANGED <<dispatcherVars, taskQ>>
  PROVE  StepsLeft' < StepsLeft
<1>1. /\ present.batch_response # {} /\ present'.batch_response = {}
      /\ \A t \in Triggers \ {"batch_response"} : present'[t] = present[t]
      /\ UNCHANGED <<pending, refCounter, schQ>>
      /\ stop' = IF terminate THEN StopRequested ELSE stop
  BY AnswerEffect
<1>2. PortSteps(present') < PortSteps(present)
  BY <1>1, RequestPart, TriggerNames DEF PortSteps, Leads, EventSteps
<1>3. stop' = stop \/ (stop = "no" /\ stop' = "requested")
  BY <1>1 DEF StopRequested
<1>4. StopSteps \in Nat /\ StopSteps' \in Nat /\ StopSteps' <= StopSteps
  BY <1>3, StopPart
<1>5. IssueSteps' = IssueSteps /\ IssueSteps \in Nat
  BY <1>1, IssuePart
<1>6. QueueSteps' = QueueSteps /\ QueueSteps \in Nat
  BY <1>1, QueuesKept
<1> QED BY <1>2, <1>4, <1>5, <1>6, PortPart DEF StepsLeft

\* A request on the wire is split into as many sub-requests as it has blocks.
LEMMA NewSubRequests ==
  ASSUME IInv, NoWrap, dispatcher_batch_request
  PROVE  /\ Cardinality(DOMAIN schQ') \in Nat
         /\ Cardinality(DOMAIN schQ') <= Cardinality(DOMAIN schQ) + MaxLen
<1>1. PICK q \in present.batch_request : process_batch_request(q)
  BY DEF dispatcher_batch_request
<1>2. PICK n \in 1 .. MaxLen : q.mask = 0 .. n - 1
  BY <1>1 DEF IInv, RequestMask
<1>3. /\ \A b \in q.mask : b \in Nat /\ SubId(q.mask, b) = subNextId + b
      /\ subNextId \in Nat
  BY <1>1, <1>2, SubRequestIds
<1> DEFINE new == {SubId(q.mask, b) : b \in q.mask}
<1>4. DOMAIN schQ' = DOMAIN schQ \cup new
  BY <1>1 DEF process_batch_request, WithSubRequests
<1>5. new \subseteq subNextId .. subNextId + n - 1 /\ n \in Nat /\ n <= MaxLen
  BY <1>2, <1>3, RequestPart
<1>6. /\ IsFiniteSet(subNextId .. subNextId + n - 1)
      /\ Cardinality(subNextId .. subNextId + n - 1) = n
  BY <1>3, <1>5, <1>2, FS_Interval
<1> HIDE DEF new
<1>7. IsFiniteSet(new) /\ Cardinality(new) \in Nat /\ Cardinality(new) <= n
  BY <1>5, <1>6, FS_Subset, FS_CardinalityType
<1>8. IsFiniteSet(DOMAIN schQ) /\ Cardinality(DOMAIN schQ) \in Nat
  BY QueuePart
<1>9. /\ IsFiniteSet(DOMAIN schQ \cup new)
      /\ Cardinality(DOMAIN schQ \cup new) =
           Cardinality(DOMAIN schQ) + Cardinality(new) - Cardinality(DOMAIN schQ \cap new)
  BY <1>7, <1>8, FS_Union
<1>10. Cardinality(DOMAIN schQ \cap new) \in Nat /\ Cardinality(DOMAIN schQ \cup new) \in Nat
  BY <1>7, <1>8, <1>9, FS_Subset, FS_CardinalityType
<1> QED BY <1>4, <1>5, <1>7, <1>8, <1>9, <1>10, RequestPart

\* reaction (batch_request) of the dispatcher.
LEMMA RequestNears ==
  ASSUME NoWrap, IInv, dispatcher_batch_request, UNCHANGED <<clientVars, taskQ>>
  PROVE  StepsLeft' < StepsLeft
<1>1. /\ present.batch_request # {} /\ present'.batch_request = {}
      /\ \A t \in Triggers \ {"batch_request"} : present'[t] = present[t]
      /\ UNCHANGED <<stop, refCounter>>
      /\ pending' = pending \/ pending' = Scheduled("storage_req_trigger", 0, 0)
  BY RequestEffect
<1>2. /\ PortSteps(present) \in Nat /\ PortSteps(present') \in Nat
      /\ PortSteps(present') = PortSteps(present) - RequestSteps
  BY <1>1, RequestPart, PortPart, TriggerNames DEF PortSteps, Leads, EventSteps
<1>3. Cardinality(pending') \in Nat /\ Cardinality(pending') <= Cardinality(pending) + 1
  <2>1. "storage_req_trigger" \in Actions
    BY DEF Actions
  <2> QED BY <1>1, <2>1, AtMostOneMore, ScheduledIds
<1>4. QueueSteps' \in Nat /\ QueueSteps \in Nat /\ QueueSteps' <= QueueSteps + 15 * MaxLen + 7
  BY <1>3, NewSubRequests, QueuePart, RequestPart
<1>5. IssueSteps' = IssueSteps /\ IssueSteps \in Nat /\ StopSteps' = StopSteps /\ StopSteps \in Nat
  BY <1>1, IssuePart, StopPart
<1> QED BY <1>2, <1>4, <1>5, RequestPart DEF StepsLeft

\* reaction (storage_req_trigger) of the dispatcher.
LEMMA TriggerNears ==
  ASSUME IInv, dispatcher_storage_req_trigger, UNCHANGED <<clientVars, taskQ>>
  PROVE  StepsLeft' < StepsLeft
<1>1. PICK id \in DOMAIN schQ :
      /\ DOMAIN schQ' = DOMAIN schQ \ {id}
      /\ present'.storage_req_trigger = {} /\ present'.workstream_req = {id}
      /\ \A t \in Triggers \ {"storage_req_trigger", "workstream_req"} :
           present'[t] = present[t]
      /\ UNCHANGED <<stop, refCounter>>
      /\ pending' = pending \/ pending' = Scheduled("storage_req_trigger", 0, 0)
  BY TriggerEffect
<1>2. present.storage_req_trigger # {}
  BY TurnOrder, TriggerNames DEF dispatcher_storage_req_trigger
<1>3. PortSteps(present') <= PortSteps(present) + 7
  BY <1>1, <1>2, RequestPart, TriggerNames DEF PortSteps, Leads, EventSteps
<1>4. Cardinality(pending') \in Nat /\ Cardinality(pending') <= Cardinality(pending) + 1
  <2>1. "storage_req_trigger" \in Actions
    BY DEF Actions
  <2> QED BY <1>1, <2>1, AtMostOneMore, ScheduledIds
<1>5. Cardinality(DOMAIN schQ') = Cardinality(DOMAIN schQ) - 1
  BY <1>1, QueuePart, FS_RemoveElement
<1>6. PortSteps(present') + 7 * 1 < PortSteps(present) + 15 * 1
  BY <1>3, PortPart
<1> QED BY <1>1, <1>4, <1>5, <1>6, Nearer

\* reaction (workstream_rsp) of the dispatcher.
LEMMA ResponseNears ==
  ASSUME IInv, dispatcher_workstream_rsp, UNCHANGED <<clientVars, taskQ>>
  PROVE  StepsLeft' < StepsLeft
<1>1. /\ present.task_result # {} /\ present'.task_result = {}
      /\ \A t \in Triggers \ {"task_result", "workstream_response", "batch_response"} :
           present'[t] = present[t]
      /\ UNCHANGED <<pending, stop, refCounter, schQ>>
  BY ResponseEffect
<1>2. PortSteps(present') < PortSteps(present)
  BY <1>1, RequestPart, TriggerNames DEF PortSteps, Leads, EventSteps
<1> QED BY <1>1, <1>2, PortsNearer

\* reaction (task) of the worker.
LEMMA TaskNears ==
  ASSUME IInv, worker_task, UNCHANGED <<clientVars, dispatcherVars>>
  PROVE  StepsLeft' < StepsLeft
<1>1. PICK id \in Ids :
      /\ present.workstream_req # {} /\ present'.workstream_req = {}
      /\ \A t \in Triggers \ {"workstream_req"} : present'[t] = present[t]
      /\ UNCHANGED <<stop, refCounter, schQ>>
      /\ pending' = Scheduled("fetch_page", id, ReadTime)
  BY TaskEffect
<1>2. PortSteps(present') = PortSteps(present) - 8
  BY <1>1, RequestPart, TriggerNames DEF PortSteps, Leads, EventSteps
<1>3. Cardinality(pending') \in Nat /\ Cardinality(pending') <= Cardinality(pending) + 1
  <2>1. "fetch_page" \in Actions /\ ReadTime \in Nat
    BY WorkerAssumption DEF Actions
  <2> QED BY <1>1, <2>1, AtMostOneMore
<1>4. PortSteps(present') + 7 * 1 < PortSteps(present) + 15 * 0
  BY <1>2, PortPart
<1>5. Cardinality(DOMAIN schQ') = Cardinality(DOMAIN schQ) - 0
  BY <1>1, QueuePart
<1> QED BY <1>1, <1>3, <1>4, <1>5, Nearer

\* reaction (fetch_page) of the worker.
LEMMA FetchPageNears ==
  ASSUME IInv, worker_fetch_page, UNCHANGED <<clientVars, dispatcherVars>>
  PROVE  StepsLeft' < StepsLeft
<1>1. /\ present.fetch_page # {} /\ present'.fetch_page = {}
      /\ \A t \in Triggers \ {"fetch_page", "task_result"} : present'[t] = present[t]
      /\ UNCHANGED <<pending, stop, refCounter, schQ>>
  BY FetchPageEffect
<1>2. PortSteps(present') < PortSteps(present)
  BY <1>1, RequestPart, TriggerNames DEF PortSteps, Leads, EventSteps
<1> QED BY <1>1, <1>2, PortsNearer

\* The next tag takes an event from the event queue, or is the stop tag.
LEMMA EnterTagNears ==
  ASSUME IInv, TInv, AdvanceTag \/ AdvanceToStopTag,
         UNCHANGED <<clientVars, dispatcherVars, taskQ>>
  PROVE  StepsLeft' < StepsLeft
<1>1. /\ pending' = {e \in pending : ~ (e.time = tag'.time /\ e.micro = tag'.micro)}
      /\ \A p \in Triggers : present[p] = {}
      /\ \A a \in Actions : present'[a] =
           {e.id : e \in {f \in pending : /\ f.action = a
                                          /\ f.time = tag'.time /\ f.micro = tag'.micro}}
      /\ \A p \in Triggers \ Actions : present'[p] = {}
      /\ (stop = "no" /\ stop' = "no") \/ (stop = "requested" /\ stop' = "final")
      /\ UNCHANGED <<refCounter, schQ>>
  BY EnterTagEffect DEF TInv
<1>2. PortSteps(present) = 0 /\ PortSteps(present') \in Nat /\ PortSteps(present') <= 6
  <2>1. /\ present'.batch_request = {} /\ present'.workstream_req = {}
        /\ present'.task_result = {} /\ present'.workstream_response = {}
        /\ present'.batch_response = {}
    BY <1>1, TriggerNames DEF Actions
  <2>2. /\ present.sch_ref = {} /\ present.batch_request = {}
        /\ present.storage_req_trigger = {} /\ present.workstream_req = {}
        /\ present.fetch_page = {} /\ present.task_result = {}
        /\ present.workstream_response = {} /\ present.batch_response = {}
    BY <1>1, TriggerNames
  <2>3. PortSteps(present) = 0
    BY <2>2 DEF PortSteps, Leads
  <2>4. PortSteps(present') <= 6
    BY <2>1 DEF PortSteps, Leads
  <2> QED BY <2>3, <2>4, PortPart
<1>3. IsFiniteSet(pending) /\ Cardinality(pending) \in Nat
  BY QueuePart
<1>4. /\ IssueSteps' = IssueSteps /\ IssueSteps \in Nat
      /\ StopSteps \in Nat /\ StopSteps' \in Nat /\ StopSteps' <= StopSteps
      /\ stop = "requested" => StopSteps' < StopSteps
  BY <1>1, IssuePart, StopPart
<1>7. /\ StepsLeft = IssueSteps + QueueSteps + PortSteps(present) + StopSteps
      /\ StepsLeft' = IssueSteps' + QueueSteps' + PortSteps(present') + StopSteps'
  BY DEF StepsLeft
<1>5. CASE pending' = pending
  <2>1. \A a \in Actions : present'[a] = {}
    BY <1>1, <1>5
  <2>2. PortSteps(present') = 0
    <3>1. \A p \in Triggers : present'[p] = {}
      BY <1>1, <2>1
    <3>2. /\ present'.sch_ref = {} /\ present'.batch_request = {}
          /\ present'.storage_req_trigger = {} /\ present'.workstream_req = {}
          /\ present'.fetch_page = {} /\ present'.task_result = {}
          /\ present'.workstream_response = {} /\ present'.batch_response = {}
      BY <3>1, TriggerNames
    <3> QED BY <3>2 DEF PortSteps, Leads
  <2>3. QueueSteps' = QueueSteps /\ QueueSteps \in Nat
    BY <1>1, <1>5, QueuesKept
  <2>4. stop = "requested"
    <3>1. SUFFICES ASSUME AdvanceTag PROVE FALSE
      BY DEF AdvanceToStopTag
    <3>2. PICK e \in pending : EnterTag(e.time, e.micro)
      BY <3>1 DEF AdvanceTag
    <3>3. e \notin pending'
      BY <3>2 DEF EnterTag, At
    <3> QED BY <1>5, <3>2, <3>3
  <2>5. StopSteps' < StopSteps
    BY <1>4, <2>4
  <2>6. PICK i \in Nat, q \in Nat, s \in Nat, s1 \in Nat :
          i = IssueSteps /\ q = QueueSteps /\ s = StopSteps /\ s1 = StopSteps'
    BY <1>4, <2>3
  <2>7. StepsLeft = i + q + 0 + s
    BY <1>2, <1>7, <2>6
  <2>8. StepsLeft' = i + q + 0 + s1
    BY <1>4, <1>7, <2>2, <2>3, <2>6
  <2>9. s1 < s
    BY <2>5, <2>6
  <2>10. i + q + 0 + s1 < i + q + 0 + s
    BY <2>9
  <2> QED BY <2>7, <2>8, <2>10
<1>6. CASE pending' # pending
  <2>1. PICK e \in pending : e \notin pending'
    BY <1>1, <1>6
  <2>2. pending' \subseteq pending \ {e}
    BY <1>1, <2>1
  <2>3. IsFiniteSet(pending \ {e}) /\ Cardinality(pending \ {e}) = Cardinality(pending) - 1
    BY <1>3, <2>1, FS_RemoveElement
  <2>4. Cardinality(pending') \in Nat /\ Cardinality(pending') <= Cardinality(pending) - 1
    BY <2>2, <2>3, FS_Subset, FS_CardinalityType
  <2>5. QueueSteps \in Nat /\ QueueSteps' \in Nat /\ QueueSteps' <= QueueSteps - 7
    BY <1>1, <1>3, <2>4, QueuePart
  <2> QED BY <1>2, <1>4, <1>7, <2>5
<1> QED BY <1>5, <1>6

LEMMA NextNears ==
  ASSUME NoWrap, IInv, TInv, Next
  PROVE  StepsLeft' < StepsLeft \/ UNCHANGED vars
<1>1. CASE ClientStep
  BY <1>1, SchRefNears, InterimNears, AnswerNears DEF ClientStep
<1>2. CASE DispatcherStep
  BY <1>2, RequestNears, TriggerNears, ResponseNears DEF DispatcherStep
<1>3. CASE WorkerStep
  BY <1>3, TaskNears, FetchPageNears DEF WorkerStep
<1>4. CASE RuntimeStep
  <2>1. CASE AdvanceTag \/ AdvanceToStopTag
    BY <1>4, <2>1, EnterTagNears DEF RuntimeStep
  <2>2. CASE Shutdown
    <3>1. /\ UNCHANGED <<refCounter, schQ, pending, present>>
          /\ stop = "final" /\ stop' = "done"
      BY <1>4, <2>2 DEF RuntimeStep, Shutdown, clientVars, dispatcherVars
    <3>2. IssueSteps' = IssueSteps /\ IssueSteps \in Nat
      BY <3>1, IssuePart
    <3>3. QueueSteps' = QueueSteps /\ QueueSteps \in Nat
      BY <3>1, QueuesKept
    <3>4. StopSteps = 1 /\ StopSteps' = 0
      BY <3>1, StopPart
    <3> QED BY <3>1, <3>2, <3>3, <3>4, PortPart DEF StepsLeft
  <2> QED BY <1>4, <2>1, <2>2 DEF RuntimeStep
<1> QED BY <1>1, <1>2, <1>3, <1>4 DEF Next, Ended

-----------------------------------------------------------------------------
(* Theorems *)

\* The strengthened invariant holds in every reachable state, for any number of
\* requests, any length, interval and read time, unless the ids run out.
THEOREM Inductive == ASSUME NoWrap PROVE Spec => []IInv
<1>1. Init => IInv
  BY InitIInv
<1>2. IInv /\ [Next]_vars => IInv'
  BY NextIInv
<1> QED BY <1>1, <1>2, PTL DEF Spec

\* The queues of translation.h hold well-formed entries, and no port or action
\* ever carries two values.
THEOREM TypeCorrect == ASSUME NoWrap PROVE Spec => []TypeOK
<1>1. IInv => TypeOK
  BY DEF IInv
<1> QED BY <1>1, Inductive, PTL

\* process_disk_response and client_interim_response never dereference NULL,
\* although nothing in them tests for it.
THEOREM NeverCrashes == ASSUME NoWrap PROVE Spec => []NoCrash
<1>1. IInv => NoCrash
  BY DEF IInv
<1> QED BY <1>1, Inductive, PTL

\* The request bitmask and the three queues of the dispatcher account for the
\* same blocks.
THEOREM BlocksAccountedFor == ASSUME NoWrap PROVE Spec => []BlockAccounting
<1>1. IInv => BlockAccounting
  BY DEF IInv
<1> QED BY <1>1, Inductive, PTL

\* Every sub-request that was sent to the worker is in one place there.
THEOREM ReadsAccountedFor == ASSUME NoWrap PROVE Spec => []DiskAccounting
<1>1. IInv => DiskAccounting
  BY DEF IInv
<1> QED BY <1>1, Inductive, PTL

\* The scheduler's wake-up is neither lost nor doubled.
THEOREM SchedulerArmed == ASSUME NoWrap PROVE Spec => []TriggerArmed
<1>1. IInv => TriggerArmed
  BY DEF IInv
<1> QED BY <1>1, Inductive, PTL

\* The client and the dispatcher agree on every request that is under way.
THEOREM Agreement == ASSUME NoWrap PROVE Spec => []ClientDispatcherAgree
<1>1. IInv => ClientDispatcherAgree
  BY DEF IInv
<1> QED BY <1>1, Inductive, PTL

\* client_response never retires a request that still misses a block.
THEOREM CompleteAnswers == ASSUME NoWrap PROVE Spec => AnswersComplete
<1>1. IInv /\ [Next]_vars =>
        [\A r \in DOMAIN clientOut :
           r \notin DOMAIN clientOut' => clientOut[r].mask = {}]_vars
  BY StepAnswersComplete
<1> QED BY <1>1, Inductive, PTL DEF Spec, AnswersComplete

\* The invariant about time goes with the one about the queues: it is what the
\* three theorems after it rest on.
THEOREM TimesRight == ASSUME NoWrap PROVE Spec => [](IInv /\ TInv)
<1>1. Init => IInv /\ TInv
  BY InitIInv, InitTInv
<1>2. (IInv /\ TInv) /\ [Next]_vars => (IInv /\ TInv)'
  BY NextIInv, NextTInv
<1> QED BY <1>1, <1>2, PTL DEF Spec

\* However many requests and blocks are under way, none waits for longer than one
\* read: the scheduler drains its queue in microsteps, at the time of the request.
THEOREM AnsweredInTime == ASSUME NoWrap PROVE Spec => []AnswersInOneRead
<1>1. IInv /\ TInv => AnswersInOneRead
  BY InTime
<1> QED BY <1>1, TimesRight, PTL

\* A client that waits for at least a read between its requests loses its last one at
\* most when client_batch_response stops the program.
THEOREM LastOneLost ==
  ASSUME NoWrap, 0 < MinInterval, ReadTime <= MinInterval
  PROVE  Spec => []LosesAtMostOne
<1>1. Init => OneLeft
  BY DEF Init, OneLeft
<1>2. (IInv /\ TInv) /\ OneLeft /\ [Next]_vars => OneLeft'
  BY NextOneLeft
<1>3. OneLeft => LosesAtMostOne
  BY DEF OneLeft, LosesAtMostOne
<1> QED BY <1>1, <1>2, <1>3, TimesRight, PTL DEF Spec

\* The sub-requests and their reads keep the order in which requests were issued.
THEOREM OrderRight == ASSUME NoWrap PROVE Spec => []OInv
<1>1. Init => OInv
  BY InitOInv
<1>2. (IInv /\ TInv) /\ OInv /\ [Next]_vars => OInv'
  BY NextOInv
<1> QED BY <1>1, <1>2, TimesRight, PTL DEF Spec

\* Requests are answered in the order of issue, although nothing compares them,
\* for every length, interval and read time.
THEOREM OrderKept == ASSUME NoWrap PROVE Spec => AnswersInOrder
<1>1. (IInv /\ TInv) /\ OInv /\ [Next]_vars =>
        [\A r, s \in DOMAIN clientOut : r \notin DOMAIN clientOut' => r <= s]_vars
  BY StepAnswersInOrder
<1> QED BY <1>1, TimesRight, OrderRight, PTL DEF Spec, AnswersInOrder

\* To the client, dispatcher, worker, queues and tags are the service of
\* ReqRspService: every step issues a request, delivers a missing block, answers the
\* first request, closes the service, or is silent.
THEOREM Refinement ==
  ASSUME NoWrap
  PROVE  Spec => Service!Init /\ [][Service!Next]_(Service!vars)
<1>1. Init => Service!Init
  BY InitService
<1>2. (IInv /\ TInv) /\ OInv /\ [Next]_vars => [Service!Next]_(Service!vars)
  BY NextService
<1> QED BY <1>1, <1>2, TimesRight, OrderRight, PTL DEF Spec

\* Until it ends, the program has a reaction to run or a tag to go to: no
\* handler swallows the last thing that it waits for.
THEOREM GoesOn == ASSUME NoWrap PROVE Spec => []NeverStuck
<1> DEFINE G == IInv /\ TInv /\ StillToCome /\ Presence
<1>1. Init => G
  BY InitIInv, InitTInv, InitToCome
<1>2. G /\ [Next]_vars => G'
  <2>1. SUFFICES ASSUME G, [Next]_vars PROVE G'
    OBVIOUS
  <2>2. IInv' /\ TInv' /\ StillToCome'
    BY <2>1, NextIInv, NextTInv, NextToCome
  <2>3. Presence'
    BY <2>1, NextPresence DEF IInv
  <2> QED BY <2>2, <2>3
<1>3. G => NeverStuck
  BY CanGoOn
<1> HIDE DEF G
<1> QED BY <1>1, <1>2, <1>3, PTL DEF Spec

\* Every step brings the end nearer: the number of steps left is a natural
\* number, (RequestSteps + EventSteps) * Requests + 10 at first, and every step
\* lowers it.
THEOREM ComesToAnEnd == ASSUME NoWrap PROVE Spec => [](StepsLeft \in Nat) /\ NearsEnd
<1>1. IInv => StepsLeft \in Nat
  BY StepsLeftIs
<1>2. IInv /\ TInv /\ [Next]_vars => [StepsLeft' < StepsLeft]_vars
  BY NextNears
<1> QED BY <1>1, <1>2, TimesRight, PTL DEF Spec, NearsEnd
====
