---- MODULE CxtMgr_proofs ----
(***************************************************************************)
(* Proofs that the manager of CxtMgr matches every answer with its request *)
(* whatever the number of slots, the period and the delays, and that it    *)
(* serves every call when the service is fast enough for its slots.        *)
(***************************************************************************)
EXTENDS CxtMgr, FiniteSetTheorems, TLAPS

-----------------------------------------------------------------------------
(* Numbers and microsteps *)

\* Every nonempty set of naturals has a least element.
LEMMA LeastNatural ==
  ASSUME NEW S \in SUBSET Nat, S # {}
  PROVE  \E m \in S : \A j \in S : m <= j
<1>1. PICK m \in S : \A j \in S : ~ (<<j, m>> \in OpToRel(<, Nat))
  BY NatLessThanWellFounded, WFMin, Zenon
<1>2. \A j \in S : ~ (j < m)
  BY <1>1 DEF OpToRel
<1> QED BY <1>2

\* A finite set of events leaves one of the first microsteps free, and the first
\* one that is free is found.
LEMMA FreeMicroIsFree ==
  ASSUME NEW P, IsFiniteSet(P), NEW m \in Nat, \A e \in P : e.micro \in Nat
  PROVE  /\ FreeMicro(P, m) \in Nat /\ m <= FreeMicro(P, m)
         /\ \A e \in P : e.micro # FreeMicro(P, m)
         /\ \A j \in m .. FreeMicro(P, m) - 1 : \E e \in P : e.micro = j
<1> DEFINE n == Cardinality(P)
           F == {k \in m .. m + n : \A e \in P : e.micro # k}
<1>1. n \in Nat
  BY FS_CardinalityType
<1> HIDE DEF n
<1>2. ASSUME F = {} PROVE FALSE
  <2> DEFINE g == [k \in m .. m + n |-> CHOOSE e \in P : e.micro = k]
  <2>1. \A k \in m .. m + n : g[k] \in P /\ g[k].micro = k
    BY <1>2
  <2>2. g \in [m .. m + n -> P]
    BY <2>1
  <2>3. IsFiniteSet(m .. m + n) /\ Cardinality(m .. m + n) = n + 1
    BY <1>1, FS_Interval
  <2> HIDE DEF g
  <2>4. Cardinality(P) < Cardinality(m .. m + n)
    BY <1>1, <2>3 DEF n
  <2>5. PICK x, y \in m .. m + n : x # y /\ g[x] = g[y]
    BY <2>2, <2>3, <2>4, FS_PigeonHole
  <2> QED BY <2>1, <2>5
<1>3. F \subseteq Nat
  BY <1>1
<1>4. PICK k \in F : \A j \in F : k <= j
  BY <1>2, <1>3, LeastNatural
<1>5. /\ k \in m .. m + n
      /\ \A e \in P : e.micro # k
      /\ \A j \in m .. k - 1 : \E e \in P : e.micro = j
  BY <1>1, <1>4
<1>6. /\ FreeMicro(P, m) \in m .. m + n
      /\ \A e \in P : e.micro # FreeMicro(P, m)
      /\ \A j \in m .. FreeMicro(P, m) - 1 : \E e \in P : e.micro = j
  BY <1>5 DEF FreeMicro, n
<1> QED BY <1>1, <1>6

-----------------------------------------------------------------------------
(* Facts about the timer and the ports *)

LEMMA TriggerNames ==
  Triggers = {"t", "request", "in", "pending", "out", "response"}
  BY DEF Triggers, Level

\* What the order of the reactions says when one of them runs.
LEMMA TurnOrder ==
  /\ \A t \in Triggers : Turn(t) => present[t] # {}
  /\ Turn("request") => present.t = {}
  /\ Turn("in") => present.t = {} /\ present.request = {}
  /\ Turn("pending") => present.t = {} /\ present.request = {} /\ present.in = {}
  /\ Turn("out") =>
       /\ present.t = {} /\ present.request = {}
       /\ present.in = {} /\ present.pending = {}
  /\ Turn("response") =>
       /\ present.t = {} /\ present.request = {}
       /\ present.in = {} /\ present.pending = {} /\ present.out = {}
  BY DEF Turn, Triggers, Level

\* Multiples of the period are in the order of their factors.
LEMMA MultiplesGrow ==
  ASSUME NEW a \in Nat, NEW b \in Nat, a < b
  PROVE  a * Period + Period <= b * Period
<1>1. b = (a + 1) + (b - a - 1) /\ b - a - 1 \in Nat
  OBVIOUS
<1>2. \A k \in Nat : ((a + 1) + k) * Period = a * Period + Period + k * Period
  BY CxtMgrAssumption
<1>3. \A k \in Nat : k * Period \in Nat
  BY CxtMgrAssumption
<1>4. a * Period \in Nat
  BY <1>3
<1> QED BY <1>1, <1>2, <1>3, <1>4, CxtMgrAssumption

\* Firings have different tags.
LEMMA FiringTags ==
  ASSUME NEW a \in Nat
  PROVE  /\ FiringTag(a) \in Tag /\ FiringTag(a) # NEVER_TAG
         /\ \A b \in Nat : FiringTag(a) = FiringTag(b) => a = b
<1>1. \A k \in Nat : k * Period \in Nat
  BY CxtMgrAssumption
<1>2. FiringTag(a) \in Tag /\ FiringTag(a) # NEVER_TAG
  BY <1>1 DEF FiringTag, Tag, NEVER_TAG
<1>3. ASSUME NEW b \in Nat, FiringTag(a) = FiringTag(b) PROVE a = b
  <2>1. a * Period = b * Period
    BY <1>3 DEF FiringTag
  <2>2. ~(a < b)
    BY <1>1, <2>1, MultiplesGrow, CxtMgrAssumption
  <2>3. ~(b < a)
    BY <1>1, <1>3, <2>1, MultiplesGrow, CxtMgrAssumption
  <2> QED BY <1>3, <2>2, <2>3
<1> QED BY <1>2, <1>3

\* A slot in use holds a request that was issued.
LEMMA UsedIssued ==
  ASSUME IInv, NEW i \in Used
  PROVE  slots[i].request \in Issued /\ slots[i].request \in Nat
<1>1. slots[i].request \in Nat /\ i \in SlotIds
  BY DEF IInv, TypeOK, Used
<1>2. PICK n \in Issued : slots[i].tag = FiringTag(n)
  <2>1. slots[i].tag \in EventTags \cup PortTags
    BY DEF IInv, SlotsMatch
  <2>2. CASE \E e \in events : slots[i].tag = e.call.tag
    BY <2>2 DEF IInv, TypeOK, Tagged, Call
  <2>3. CASE \E s \in present.in \cup present.pending : slots[i].tag = s.tag
    BY <2>3 DEF IInv, TypeOK, Tagged, Call
  <2>4. CASE \E r \in present.out : slots[i].tag = r.tag
    BY <2>4 DEF IInv, TypeOK, Tagged, Response
  <2> QED BY <2>1, <2>2, <2>3, <2>4 DEF EventTags, PortTags
<1>3. slots[i].tag = FiringTag(slots[i].request)
  BY DEF IInv, Tagged
<1>4. n \in Nat
  BY DEF Issued, IInv, TypeOK
<1> QED BY <1>1, <1>2, <1>3, <1>4, FiringTags

-----------------------------------------------------------------------------
(* The invariant is inductive *)

LEMMA InitIInv == ASSUME Init PROVE IInv
<1> USE DEF Init, Quiet
<1>1. Used = {}
  BY DEF Used, Free
<1>2. EventTags = {} /\ PortTags = {}
  BY TriggerNames DEF EventTags, PortTags
<1>3. /\ DOMAIN present = Triggers
      /\ present.t = {0} /\ present.request = {} /\ present.in = {}
      /\ present.pending = {} /\ present.out = {} /\ present.response = {}
  BY TriggerNames
<1>4. slots \in [SlotIds -> [request : Nat, tag : Tag \cup {NEVER_TAG}]]
  <2> DEFINE unused == [request |-> 0, tag |-> NEVER_TAG]
  <2>1. unused \in [request : Nat, tag : Tag \cup {NEVER_TAG}]
    OBVIOUS
  <2> HIDE DEF unused
  <2>2. slots = [i \in SlotIds |-> unused]
    BY DEF unused
  <2> QED BY <2>1, <2>2
<1>5. IsFiniteSet(events)
  BY FS_EmptySet
<1>6. \A p \in Triggers : \A v, w \in present[p] : v = w
  OBVIOUS
<1>7. TypeOK
  BY <1>3, <1>4, <1>5, <1>6 DEF TypeOK, Tag
<1>8. SlotsMatch /\ AnswersInTime
  BY <1>1, <1>2 DEF SlotsMatch, AnswersInTime
<1>9. PortsFollow /\ Deadlines
  BY <1>3 DEF PortsFollow, Deadlines
<1>10. Clock
  <2>1. counter * Period = 0
    BY CxtMgrAssumption
  <2>2. tag = FiringTag(counter)
    BY <2>1 DEF FiringTag
  <2> QED BY <1>3, <2>2 DEF Clock
<1>11. Tagged /\ Fresh
  <2>1. events = {}
    OBVIOUS
  <2> QED BY <1>1, <1>3, <2>1, Zenon DEF Tagged, Fresh
<1> QED BY <1>7, <1>8, <1>9, <1>10, <1>11 DEF IInv

LEMMA ClientTStep == ASSUME IInv, client_t PROVE IInv'
<1>1. /\ present.t # {} /\ present.in = {} /\ present.request = {}
      /\ present.out = {} /\ present.response = {}
  BY TurnOrder, TriggerNames DEF client_t, IInv, PortsFollow
<1>2. /\ present'.t = {} /\ present'.request = {counter} /\ present'.in = {}
      /\ present'.pending = present.pending
      /\ present'.out = {} /\ present'.response = {}
      /\ DOMAIN present' = Triggers
  BY <1>1, TriggerNames DEF client_t, IInv, TypeOK
<1>3. counter' = counter + 1 /\ counter \in Nat
  BY DEF client_t, Incremented, IInv, TypeOK
<1>4. UNCHANGED <<tag, events, done, slots, printed>>
  BY DEF client_t
<1>5. UNCHANGED <<Free, Used, EventTags, PortTags>>
  BY <1>1, <1>2, <1>4 DEF Free, Used, EventTags, PortTags
<1>6. Issued \subseteq Issued' /\ counter \in Issued' /\ counter \notin Issued
  BY <1>3 DEF Issued
<1>7. Call \subseteq Call' /\ Response \subseteq Response'
  BY <1>6 DEF Call, Response
<1>8. TypeOK'
  <2>1. events' \subseteq [time : Nat, micro : Nat, call : Call']
    BY <1>4, <1>7 DEF IInv, TypeOK
  <2>2. \A p \in Triggers : \A v, w \in present'[p] : v = w
    BY <1>2, TriggerNames DEF IInv, TypeOK
  <2>3. present'.pending \subseteq Call' /\ printed' \subseteq Response'
    BY <1>2, <1>4, <1>7 DEF IInv, TypeOK
  <2> QED BY <1>2, <1>3, <1>4, <1>6, <2>1, <2>2, <2>3 DEF IInv, TypeOK, Tag
<1>9. SlotsMatch' /\ AnswersInTime'
  BY <1>4, <1>5 DEF IInv, SlotsMatch, AnswersInTime
<1>10. PortsFollow'
  BY <1>2 DEF PortsFollow
<1>11. Clock'
  <2>1. tag = FiringTag(counter) /\ counter + 1 - 1 = counter
    BY <1>1, <1>3 DEF IInv, Clock
  <2>2. tag.time < (counter + 1) * Period
    <3>1. tag.time = counter * Period
      BY <2>1 DEF FiringTag
    <3> QED BY <1>3, <3>1, MultiplesGrow, CxtMgrAssumption
  <2> QED BY <1>2, <1>3, <1>4, <2>1, <2>2 DEF Clock, FiringTag
<1>12. Tagged'
  BY <1>2, <1>4, <1>5 DEF IInv, Tagged, FiringTag
<1>13. Fresh'
  BY <1>2, <1>4, <1>5, <1>6, UsedIssued DEF Fresh
<1>14. Deadlines'
  BY <1>4 DEF IInv, Deadlines
<1> QED BY <1>8, <1>9, <1>10, <1>11, <1>12, <1>13, <1>14 DEF IInv

\* What the manager does with a request: n goes to a free slot i, if any.
LEMMA RequestFacts ==
  ASSUME IInv, manager_request
  PROVE  \E n \in Issued :
           /\ n = counter - 1 /\ n \in Nat /\ tag = FiringTag(n)
           /\ present.request = {n}
           /\ \/ /\ Free # {}
                 /\ \E i \in Free :
                      slots' = [slots EXCEPT ![i] = [request |-> n, tag |-> tag]]
                 /\ present' = [present EXCEPT !.request = {},
                                               !.in = {[request |-> n, tag |-> tag]}]
              \/ /\ Free = {}
                 /\ slots' = slots
                 /\ present' = [present EXCEPT !.request = {}]
<1>1. PICK n \in present.request :
        LET i == FirstFree(Free)
            s == [request |-> n, tag |-> tag]
        IN  IF Free # {}
            THEN /\ slots' = [slots EXCEPT ![i] = s]
                 /\ present' = [present EXCEPT !.request = {}, !.in = {s}]
            ELSE /\ present' = [present EXCEPT !.request = {}]
                 /\ UNCHANGED slots
  BY DEF manager_request
<1>2. n \in Issued /\ present.request = {n}
  BY TriggerNames DEF IInv, TypeOK
<1>3. n = counter - 1 /\ tag = FiringTag(n) /\ n \in Nat
  BY <1>2 DEF IInv, Clock, TypeOK, Issued
<1>4. Free # {} => FirstFree(Free) \in Free
  <2>1. Free \subseteq Nat
    BY CxtMgrAssumption DEF Free, SlotIds
  <2> QED BY <2>1, LeastNatural DEF FirstFree
<1> HIDE DEF Free
<1> QED BY <1>1, <1>2, <1>3, <1>4

LEMMA ManagerRequestStep == ASSUME IInv, manager_request PROVE IInv'
<1>1. PICK n \in Issued :
        /\ n = counter - 1 /\ n \in Nat /\ tag = FiringTag(n)
        /\ present.request = {n}
        /\ \/ /\ Free # {}
              /\ \E i \in Free :
                   slots' = [slots EXCEPT ![i] = [request |-> n, tag |-> tag]]
              /\ present' = [present EXCEPT !.request = {},
                                            !.in = {[request |-> n, tag |-> tag]}]
           \/ /\ Free = {}
              /\ slots' = slots
              /\ present' = [present EXCEPT !.request = {}]
  BY RequestFacts
<1> DEFINE s == [request |-> n, tag |-> tag]
<1>2. UNCHANGED <<tag, events, done, counter, printed>>
  BY DEF manager_request
<1>3. UNCHANGED <<Issued, Call, Response, EventTags>>
  BY <1>2 DEF Issued, Call, Response, EventTags
<1>4. /\ present.t = {} /\ present.in = {}
      /\ present.out = {} /\ present.response = {}
  BY <1>1, TurnOrder, TriggerNames DEF manager_request, IInv, PortsFollow
<1>5. CASE Free = {}
  <2>1. /\ present'.t = {} /\ present'.request = {} /\ present'.in = {}
        /\ present'.pending = present.pending
        /\ present'.out = {} /\ present'.response = {}
        /\ DOMAIN present' = Triggers /\ slots' = slots
    BY <1>1, <1>4, <1>5, TriggerNames DEF IInv, TypeOK
  <2>2. UNCHANGED <<Free, Used, PortTags>>
    BY <1>4, <2>1 DEF Free, Used, PortTags
  <2>3. TypeOK'
    <3>1. \A p \in Triggers : \A v, w \in present'[p] : v = w
      BY <2>1, TriggerNames DEF IInv, TypeOK
    <3> QED BY <1>2, <1>3, <2>1, <3>1 DEF IInv, TypeOK
  <2>4. SlotsMatch' /\ AnswersInTime'
    BY <1>2, <1>3, <2>1, <2>2 DEF IInv, SlotsMatch, AnswersInTime
  <2>5. PortsFollow' /\ Clock'
    BY <1>2, <1>4, <2>1 DEF IInv, PortsFollow, Clock
  <2>6. Tagged' /\ Fresh'
    BY <1>2, <1>4, <2>1, <2>2 DEF IInv, Tagged, Fresh, FiringTag
  <2>7. Deadlines'
    BY <1>2 DEF IInv, Deadlines
  <2> QED BY <2>3, <2>4, <2>5, <2>6, <2>7 DEF IInv
<1>6. CASE Free # {}
  <2>1. PICK i \in Free : slots' = [slots EXCEPT ![i] = s]
    BY <1>1, <1>6
  <2>2. /\ present'.t = {} /\ present'.request = {} /\ present'.in = {s}
        /\ present'.pending = present.pending
        /\ present'.out = {} /\ present'.response = {}
        /\ DOMAIN present' = Triggers
    BY <1>1, <1>4, <1>6, TriggerNames DEF IInv, TypeOK
  <2>3. s \in Call /\ s \in [request : Nat, tag : Tag \cup {NEVER_TAG}] /\ tag \in Tag
    BY <1>1 DEF IInv, TypeOK, Call
  <2>4. i \in SlotIds /\ i \notin Used
    BY DEF Free, Used
  <2>5. slots' \in [SlotIds -> [request : Nat, tag : Tag \cup {NEVER_TAG}]]
    BY <2>1, <2>3, <2>4 DEF IInv, TypeOK
  <2>6. /\ slots'[i] = s
        /\ \A j \in SlotIds : j # i => slots'[j] = slots[j]
    BY <2>1, <2>4 DEF IInv, TypeOK
  <2>7. tag # NEVER_TAG
    BY <1>1, FiringTags
  <2>8. Used' = Used \cup {i}
    BY <2>4, <2>6, <2>7 DEF Used, Free
  <2>9. PortTags' = PortTags \cup {tag}
    <3>1. s.tag = tag
      OBVIOUS
    <3>2. PortTags = {p.tag : p \in present.pending}
      BY <1>4 DEF PortTags
    <3>3. PortTags' = {p.tag : p \in {s} \cup present.pending}
      BY <2>2, Zenon DEF PortTags
    <3> HIDE DEF s
    <3> QED BY <3>1, <3>2, <3>3
  <2>10. \A j \in Used : slots[j].request # n /\ slots[j].tag # tag
    <3> SUFFICES ASSUME NEW j \in Used PROVE slots[j].request # n /\ slots[j].tag # tag
      OBVIOUS
    <3>1. slots[j].request # n
      BY <1>1 DEF IInv, Fresh
    <3>2. slots[j].tag = FiringTag(slots[j].request) /\ slots[j].request \in Nat
      BY UsedIssued DEF IInv, Tagged
    <3> QED BY <1>1, <3>1, <3>2, FiringTags
  <2>11. {slots'[j].tag : j \in Used'} = {slots[j].tag : j \in Used} \cup {tag}
    BY <2>4, <2>6, <2>8 DEF Used
  <2>12. tag \notin EventTags /\ tag \notin PortTags
    BY <2>10 DEF IInv, SlotsMatch
  <2>13. TypeOK'
    <3>1. \A p \in Triggers : \A v, w \in present'[p] : v = w
      BY <2>2, TriggerNames DEF IInv, TypeOK
    <3> HIDE DEF s
    <3> QED BY <1>2, <1>3, <2>2, <2>3, <2>5, <3>1 DEF IInv, TypeOK
  <2>14. SlotsMatch'
    <3>1. \A j, k \in Used' : slots'[j].tag = slots'[k].tag => j = k
      BY <2>4, <2>6, <2>8, <2>10 DEF IInv, SlotsMatch, Used
    <3>2. \A e, f \in events' : e.call.tag = f.call.tag => e = f
      BY <1>2 DEF IInv, SlotsMatch
    <3>3. (EventTags \cap PortTags)' = {}
      BY <1>3, <2>9, <2>12 DEF IInv, SlotsMatch
    <3>4. {slots'[j].tag : j \in Used'} = EventTags' \cup PortTags'
      BY <1>3, <2>9, <2>11 DEF IInv, SlotsMatch
    <3> QED BY <3>1, <3>2, <3>3, <3>4 DEF SlotsMatch
  <2>15. AnswersInTime'
    <3>1. tag.time \in Nat
      BY <2>3 DEF Tag
    <3> QED BY <1>2, <2>6, <2>8, <3>1, CxtMgrAssumption DEF IInv, AnswersInTime, Used
  <2>16. PortsFollow' /\ Clock'
    BY <1>1, <1>2, <1>4, <2>2 DEF IInv, PortsFollow, Clock, FiringTag
  <2>17. Tagged'
    <3>1. \A j \in Used' : slots'[j].tag = FiringTag(slots'[j].request)
      BY <1>1, <2>6, <2>8 DEF IInv, Tagged, Used
    <3>2. \A p \in present'.in \cup present'.pending : p.tag = FiringTag(p.request)
      BY <1>1, <2>2 DEF IInv, Tagged
    <3> QED BY <1>2, <2>2, <3>1, <3>2 DEF IInv, Tagged, FiringTag
  <2>18. Fresh'
    <3>1. \A p \in present.pending : p.request # n
      <4> SUFFICES ASSUME NEW p \in present.pending PROVE p.request # n
        OBVIOUS
      <4>1. p.tag = FiringTag(p.request) /\ p.tag \in PortTags
        BY DEF IInv, Tagged, PortTags
      <4> QED BY <1>1, <2>12, <4>1
    <3> QED BY <1>1, <1>2, <2>2, <3>1 DEF Fresh
  <2>19. Deadlines'
    BY <1>2 DEF IInv, Deadlines
  <2> QED BY <2>13, <2>14, <2>15, <2>16, <2>17, <2>18, <2>19 DEF IInv
<1> QED BY <1>5, <1>6

\* The new event e of the service, for the request s.
AddsEvent(e, s) ==
  /\ e \in [time : Nat, micro : Nat, call : {s}]
  /\ \E d \in MinDelay .. MaxDelay : e.time = tag.time + d
  /\ \A f \in events : f.time = e.time => f.micro # e.micro
  /\ events' = events \cup {e}

LEMMA ServiceInFacts ==
  ASSUME IInv, service_in
  PROVE  \E s \in present.in : \E e : AddsEvent(e, s)
<1>1. PICK s \in present.in, d \in MinDelay .. MaxDelay :
        events' = events \cup
          {[time |-> tag.time + d,
            micro |-> FreeMicro({e \in events : e.time = tag.time + d}, 0), call |-> s]}
  BY DEF service_in
<1> DEFINE P == {e \in events : e.time = tag.time + d}
           e == [time |-> tag.time + d, micro |-> FreeMicro(P, 0), call |-> s]
<1>2. IsFiniteSet(P) /\ \A f \in P : f.micro \in Nat
  BY FS_Subset DEF IInv, TypeOK
<1>3. FreeMicro(P, 0) \in Nat /\ \A f \in P : f.micro # FreeMicro(P, 0)
  <2> HIDE DEF P
  <2> QED BY <1>2, FreeMicroIsFree
<1>4. tag.time + d \in Nat
  BY CxtMgrAssumption DEF IInv, TypeOK, Tag
<1>5. e \in [time : Nat, micro : Nat, call : {s}] /\ e.time = tag.time + d
  BY <1>3, <1>4
<1>6. \A f \in events : f.time = e.time => f.micro # e.micro
  BY <1>3
<1>7. AddsEvent(e, s)
  BY <1>1, <1>5, <1>6 DEF AddsEvent
<1> QED BY <1>7

LEMMA ServiceInStep == ASSUME IInv, service_in PROVE IInv'
<1>0. PICK s \in present.in : \E e : AddsEvent(e, s)
  BY ServiceInFacts
<1>1. PICK e : AddsEvent(e, s)
  BY <1>0
<1>2. /\ e.time \in Nat /\ e.micro \in Nat /\ e.call = s
      /\ events' = events \cup {e}
      /\ \A f \in events : f.time = e.time => f.micro # e.micro
  BY <1>1 DEF AddsEvent
<1>3. UNCHANGED <<tag, done, counter, slots, printed>>
  BY DEF service_in
<1>4. UNCHANGED <<Issued, Call, Response, Free, Used>>
  BY <1>3 DEF Issued, Call, Response, Free, Used
<1>5. /\ present.t = {} /\ present.request = {} /\ present.in = {s}
      /\ present.out = {} /\ present.response = {}
  BY TurnOrder, TriggerNames DEF service_in, IInv, PortsFollow, TypeOK
<1>6. /\ present'.t = {} /\ present'.request = {} /\ present'.in = {}
      /\ present'.pending = present.pending
      /\ present'.out = {} /\ present'.response = {}
      /\ DOMAIN present' = Triggers
  BY <1>5, TriggerNames DEF service_in, IInv, TypeOK
<1>7. s \in Call /\ s.tag \in Tag /\ s.request \in Nat
  BY DEF IInv, TypeOK, Call, Issued
<1>8. s.tag = tag
  BY <1>5 DEF IInv, Clock, Tagged, Fresh
<1>9. e.time > tag.time /\ e.time <= tag.time + MaxDelay /\ tag.time \in Nat
  BY <1>1, <1>2, CxtMgrAssumption DEF AddsEvent, IInv, TypeOK, Tag
<1>10. EventTags' = EventTags \cup {s.tag}
  BY <1>2 DEF EventTags
<1>11. PortTags = PortTags' \cup {s.tag}
  <2>1. PortTags = {p.tag : p \in {s} \cup present.pending}
    BY <1>5, Zenon DEF PortTags
  <2>2. PortTags' = {p.tag : p \in present.pending}
    BY <1>6 DEF PortTags
  <2> QED BY <2>1, <2>2
<1>12. s.tag \notin EventTags /\ s.tag \notin PortTags'
  <2>1. s.tag \notin EventTags
    BY <1>11 DEF IInv, SlotsMatch
  <2>2. ASSUME NEW p \in present.pending PROVE p.tag # s.tag
    <3>1. p.request # s.request /\ p.request \in Nat
      BY DEF IInv, Fresh, TypeOK, Call, Issued
    <3>2. p.tag = FiringTag(p.request) /\ s.tag = FiringTag(s.request)
      BY DEF IInv, Tagged
    <3> QED BY <1>7, <3>1, <3>2, FiringTags
  <2>3. PortTags' = {p.tag : p \in present.pending}
    BY <1>6 DEF PortTags
  <2> QED BY <2>1, <2>2, <2>3
<1>13. TypeOK'
  <2>1. e \in [time : Nat, micro : Nat, call : Call]
    BY <1>1, <1>7 DEF AddsEvent
  <2>2. IsFiniteSet(events')
    BY <1>2, FS_AddElement DEF IInv, TypeOK
  <2>3. \A p \in Triggers : \A v, w \in present'[p] : v = w
    BY <1>6, TriggerNames DEF IInv, TypeOK
  <2> QED BY <1>2, <1>3, <1>4, <1>6, <2>1, <2>2, <2>3 DEF IInv, TypeOK
<1>14. SlotsMatch'
  <2>1. {slots'[i].tag : i \in Used'} = EventTags' \cup PortTags'
    BY <1>3, <1>4, <1>10, <1>11 DEF IInv, SlotsMatch
  <2>2. \A i, j \in Used' : slots'[i].tag = slots'[j].tag => i = j
    BY <1>3, <1>4 DEF IInv, SlotsMatch
  <2>3. (EventTags \cap PortTags)' = {}
    BY <1>10, <1>11, <1>12 DEF IInv, SlotsMatch
  <2>4. \A f \in events : f.call.tag # s.tag
    BY <1>12 DEF EventTags
  <2>5. \A f, g \in events' : f.call.tag = g.call.tag => f = g
    BY <1>2, <2>4 DEF IInv, SlotsMatch
  <2> QED BY <2>1, <2>2, <2>3, <2>5 DEF SlotsMatch
<1>15. AnswersInTime'
  BY <1>3, <1>4 DEF IInv, AnswersInTime
<1>16. PortsFollow' /\ Clock'
  BY <1>3, <1>5, <1>6 DEF IInv, PortsFollow, Clock
<1>17. Tagged'
  <2>1. \A f \in events' : f.call.tag = FiringTag(f.call.request)
    BY <1>2 DEF IInv, Tagged
  <2> QED BY <1>3, <1>4, <1>6, <2>1 DEF IInv, Tagged, FiringTag
<1>18. Fresh'
  BY <1>3, <1>4, <1>6 DEF Fresh
<1>19. Deadlines'
  <2>1. /\ NotAfter(tag, e) /\ ~NotAfter(e, tag)
        /\ e.time <= e.call.tag.time + MaxDelay
    BY <1>2, <1>8, <1>9 DEF NotAfter
  <2>2. \A f, g \in events' : f.time = g.time /\ f.micro = g.micro => f = g
    BY <1>2 DEF IInv, Deadlines
  <2> QED BY <1>2, <1>3, <2>1, <2>2 DEF IInv, Deadlines
<1> QED BY <1>13, <1>14, <1>15, <1>16, <1>17, <1>18, <1>19 DEF IInv

LEMMA ServicePendingStep == ASSUME IInv, service_pending PROVE IInv'
<1>1. PICK s \in present.pending :
        present' = [present EXCEPT !.pending = {},
          !.out = {[response |-> [context |-> s.request, data |-> Sum(s.request)],
                    tag |-> s.tag]}]
  BY DEF service_pending
<1> DEFINE r == [response |-> [context |-> s.request, data |-> Sum(s.request)],
                 tag |-> s.tag]
<1>2. UNCHANGED <<tag, events, done, counter, slots, printed>>
  BY DEF service_pending
<1>3. UNCHANGED <<Issued, Call, Response, Free, Used, EventTags>>
  BY <1>2 DEF Issued, Call, Response, Free, Used, EventTags
<1>4. /\ present.t = {} /\ present.request = {} /\ present.in = {}
      /\ present.pending = {s}
      /\ present.out = {} /\ present.response = {}
  BY TurnOrder, TriggerNames DEF service_pending, IInv, PortsFollow, TypeOK
<1>5. /\ present'.t = {} /\ present'.request = {} /\ present'.in = {}
      /\ present'.pending = {} /\ present'.out = {r} /\ present'.response = {}
      /\ DOMAIN present' = Triggers
  BY <1>1, <1>4, TriggerNames DEF IInv, TypeOK
<1>6. s \in Call /\ s.request \in Issued /\ s.tag \in Tag /\ s.request \in Nat
  BY DEF IInv, TypeOK, Call, Issued
<1>7. /\ r.response.context = s.request /\ r.response.data = Sum(s.request)
      /\ r.tag = s.tag
      /\ r \in [response : Response, tag : Tag]
  BY <1>6 DEF Response, Sum
<1> HIDE DEF r
<1>8. UNCHANGED PortTags
  <2>1. PortTags = {p.tag : p \in {s}} /\ PortTags' = {p.tag : p \in {r}}
    BY <1>4, <1>5, Zenon DEF PortTags
  <2> QED BY <1>7, <2>1
<1>9. TypeOK'
  <2>1. \A p \in Triggers : \A v, w \in present'[p] : v = w
    BY <1>5, TriggerNames
  <2> QED BY <1>2, <1>3, <1>5, <1>7, <2>1 DEF IInv, TypeOK
<1>10. SlotsMatch' /\ AnswersInTime'
  BY <1>2, <1>3, <1>8 DEF IInv, SlotsMatch, AnswersInTime
<1>11. PortsFollow' /\ Clock'
  BY <1>2, <1>4, <1>5 DEF IInv, PortsFollow, Clock
<1>12. Tagged'
  BY <1>2, <1>3, <1>5, <1>7 DEF IInv, Tagged, FiringTag, Sum
<1>13. Fresh' /\ Deadlines'
  BY <1>2, <1>3, <1>5 DEF IInv, Fresh, Deadlines
<1> QED BY <1>9, <1>10, <1>11, <1>12, <1>13 DEF IInv

\* The response r finds the one slot i of its request.
LEMMA OutFacts ==
  ASSUME IInv, manager_out
  PROVE  \E r \in present.out : \E i \in Used :
           /\ slots[i].tag = r.tag /\ slots[i].request = r.response.context
           /\ slots' = [slots EXCEPT ![i] = Reset(@)]
           /\ present' = [present EXCEPT !.out = {}, !.response = {r.response}]
<1>1. PICK r \in present.out :
        LET M == Matching(r.tag)
            i == CHOOSE k \in M : \A j \in M : k <= j
        IN  IF M # {}
            THEN /\ slots' = [slots EXCEPT ![i] = Reset(@)]
                 /\ present' = [present EXCEPT !.out = {}, !.response = {r.response}]
            ELSE /\ present' = [present EXCEPT !.out = {}]
                 /\ UNCHANGED slots
  BY DEF manager_out
<1>2. r.tag = FiringTag(r.response.context) /\ r.response.context \in Nat
  BY DEF IInv, Tagged, TypeOK, Response, Issued
<1>3. PICK i \in Used : slots[i].tag = r.tag
  <2>1. r.tag \in PortTags
    BY DEF PortTags
  <2> QED BY <2>1 DEF IInv, SlotsMatch
<1>4. slots[i].request = r.response.context
  BY <1>2, <1>3, UsedIssued, FiringTags DEF IInv, Tagged
<1>5. Matching(r.tag) = {i}
  <2>1. \A j \in SlotIds : slots[j].tag = r.tag => j \in Used
    BY <1>2, FiringTags DEF Used, Free
  <2> QED BY <1>3, <2>1 DEF Matching, IInv, SlotsMatch, Used
<1>6. (CHOOSE k \in Matching(r.tag) : \A j \in Matching(r.tag) : k <= j) = i
  <2>1. i \in Nat
    BY CxtMgrAssumption DEF Used, SlotIds
  <2>2. \E k \in Matching(r.tag) : \A j \in Matching(r.tag) : k <= j
    BY <1>5, <2>1
  <2>3. (CHOOSE k \in Matching(r.tag) : \A j \in Matching(r.tag) : k <= j) \in Matching(r.tag)
    BY <2>2, Zenon
  <2> QED BY <1>5, <2>3
<1>7. /\ slots' = [slots EXCEPT ![i] = Reset(@)]
      /\ present' = [present EXCEPT !.out = {}, !.response = {r.response}]
  BY <1>1, <1>5, <1>6
<1> QED BY <1>3, <1>4, <1>7

LEMMA ManagerOutStep == ASSUME IInv, manager_out PROVE IInv'
<1>1. PICK r \in present.out, i \in Used :
        /\ slots[i].tag = r.tag /\ slots[i].request = r.response.context
        /\ slots' = [slots EXCEPT ![i] = Reset(@)]
        /\ present' = [present EXCEPT !.out = {}, !.response = {r.response}]
  BY OutFacts
<1>2. UNCHANGED <<tag, events, done, counter, printed>>
  BY DEF manager_out
<1>3. UNCHANGED <<Issued, Call, Response, EventTags>>
  BY <1>2 DEF Issued, Call, Response, EventTags
<1>4. /\ present.t = {} /\ present.request = {} /\ present.in = {}
      /\ present.pending = {} /\ present.out = {r} /\ present.response = {}
  BY TurnOrder, TriggerNames DEF manager_out, IInv, PortsFollow, TypeOK
<1>5. /\ present'.t = {} /\ present'.request = {} /\ present'.in = {}
      /\ present'.pending = {} /\ present'.out = {}
      /\ present'.response = {r.response} /\ DOMAIN present' = Triggers
  BY <1>1, <1>4, TriggerNames DEF IInv, TypeOK
<1>6. r.response \in Response /\ r.response.data = Sum(r.response.context)
  BY DEF IInv, TypeOK, Tagged
<1>7. PortTags = {r.tag} /\ PortTags' = {}
  BY <1>4, <1>5 DEF PortTags
<1>8. i \in SlotIds
  BY DEF Used
<1>9. /\ slots'[i].tag = NEVER_TAG /\ slots'[i].request = slots[i].request
      /\ \A j \in SlotIds : j # i => slots'[j] = slots[j]
      /\ slots' \in [SlotIds -> [request : Nat, tag : Tag \cup {NEVER_TAG}]]
  <2> DEFINE R == [request : Nat, tag : Tag \cup {NEVER_TAG}]
             s == Reset(slots[i])
  <2>1. slots \in [SlotIds -> R] /\ slots[i] \in R
    BY <1>8 DEF IInv, TypeOK
  <2>2. s \in R /\ s.tag = NEVER_TAG /\ s.request = slots[i].request
    BY <2>1 DEF Reset
  <2>3. slots' = [slots EXCEPT ![i] = s]
    BY <1>1
  <2> HIDE DEF R, s
  <2>4. slots'[i] = s /\ slots' \in [SlotIds -> R]
    BY <1>8, <2>1, <2>2, <2>3
  <2>5. \A j \in SlotIds : j # i => slots'[j] = slots[j]
    BY <2>1, <2>3
  <2> QED BY <2>2, <2>4, <2>5 DEF R
<1>10. Used' = Used \ {i}
  BY <1>8, <1>9 DEF Used, Free
<1>11. \A j \in Used' : j \in Used /\ slots'[j] = slots[j]
  BY <1>9, <1>10 DEF Used
<1>12. TypeOK'
  <2>1. \A p \in Triggers : \A v, w \in present'[p] : v = w
    BY <1>5, TriggerNames
  <2> QED BY <1>2, <1>3, <1>5, <1>6, <1>9, <2>1 DEF IInv, TypeOK
<1>13. SlotsMatch'
  <2>1. r.tag \notin EventTags
    BY <1>7 DEF IInv, SlotsMatch
  <2>2. \A j \in Used : j # i => slots[j].tag # r.tag
    BY <1>1 DEF IInv, SlotsMatch
  <2>3. {slots'[j].tag : j \in Used'} = {slots[j].tag : j \in Used} \ {r.tag}
    BY <1>1, <1>10, <1>11, <2>2
  <2>4. {slots'[j].tag : j \in Used'} = EventTags' \cup PortTags'
    BY <1>3, <1>7, <2>1, <2>3 DEF IInv, SlotsMatch
  <2>5. \A j, k \in Used' : slots'[j].tag = slots'[k].tag => j = k
    BY <1>11 DEF IInv, SlotsMatch
  <2>6. (EventTags \cap PortTags)' = {}
    BY <1>7
  <2>7. \A e, f \in events' : e.call.tag = f.call.tag => e = f
    BY <1>2 DEF IInv, SlotsMatch
  <2> QED BY <2>4, <2>5, <2>6, <2>7 DEF SlotsMatch
<1>14. AnswersInTime'
  BY <1>2, <1>11 DEF IInv, AnswersInTime
<1>15. PortsFollow' /\ Clock'
  BY <1>2, <1>4, <1>5 DEF IInv, PortsFollow, Clock
<1>16. Tagged'
  BY <1>2, <1>5, <1>6, <1>11 DEF IInv, Tagged, FiringTag, Sum
<1>17. Fresh'
  <2>1. \A j \in Used : j # i => slots[j].request # r.response.context
    <3> SUFFICES ASSUME NEW j \in Used, j # i, slots[j].request = slots[i].request
                 PROVE  FALSE
      BY <1>1
    <3>1. slots[j].tag = slots[i].tag
      BY DEF IInv, Tagged
    <3> QED BY <3>1 DEF IInv, SlotsMatch
  <2> QED BY <1>5, <1>10, <1>11, <2>1 DEF Fresh
<1>18. Deadlines'
  BY <1>2 DEF IInv, Deadlines
<1> QED BY <1>12, <1>13, <1>14, <1>15, <1>16, <1>17, <1>18 DEF IInv

LEMMA ClientResponseStep == ASSUME IInv, client_response PROVE IInv'
<1>1. UNCHANGED <<tag, events, done, counter, slots>> /\ printed' = present.response
  BY DEF client_response
<1>2. UNCHANGED <<Issued, Call, Response, Free, Used, EventTags>>
  BY <1>1 DEF Issued, Call, Response, Free, Used, EventTags
<1>3. /\ present.t = {} /\ present.request = {} /\ present.in = {}
      /\ present.pending = {} /\ present.out = {}
  BY TurnOrder DEF client_response
<1>4. /\ present'.t = {} /\ present'.request = {} /\ present'.in = {}
      /\ present'.pending = {} /\ present'.out = {} /\ present'.response = {}
      /\ DOMAIN present' = Triggers
  BY <1>3, TriggerNames DEF client_response, IInv, TypeOK
<1>5. UNCHANGED PortTags
  BY <1>3, <1>4 DEF PortTags
<1>6. TypeOK'
  <2>1. \A p \in Triggers : \A v, w \in present'[p] : v = w
    BY <1>4, TriggerNames
  <2> QED BY <1>1, <1>2, <1>4, <2>1 DEF IInv, TypeOK
<1>7. SlotsMatch' /\ AnswersInTime'
  BY <1>1, <1>2, <1>5 DEF IInv, SlotsMatch, AnswersInTime
<1>8. PortsFollow' /\ Clock'
  BY <1>1, <1>3, <1>4 DEF IInv, PortsFollow, Clock
<1>9. Tagged' /\ Fresh' /\ Deadlines'
  BY <1>1, <1>2, <1>4 DEF IInv, Tagged, Fresh, Deadlines, FiringTag
<1> QED BY <1>6, <1>7, <1>8, <1>9 DEF IInv

LEMMA AdvanceTagStep == ASSUME IInv, AdvanceTag PROVE IInv'
<1>1. PICK t \in {NextFiring} \cup {[time |-> e.time, micro |-> e.micro] : e \in events} :
        /\ NotAfter(t, NextFiring) /\ \A e \in events : NotAfter(t, e)
        /\ tag' = t
        /\ events' = events \ At(t)
        /\ present' = [Quiet EXCEPT !.t = IF t = NextFiring THEN {0} ELSE {},
                                    !.pending = {e.call : e \in At(t)}]
  BY DEF AdvanceTag
<1>2. UNCHANGED <<done, counter, slots, printed>>
  BY DEF AdvanceTag
<1>3. UNCHANGED <<Issued, Call, Response, Free, Used>>
  BY <1>2 DEF Issued, Call, Response, Free, Used
<1>4. /\ present.t = {} /\ present.request = {} /\ present.in = {}
      /\ present.pending = {} /\ present.out = {} /\ present.response = {}
  BY TriggerNames DEF AdvanceTag, Quiet
<1>5. /\ present'.t = IF t = NextFiring THEN {0} ELSE {}
      /\ present'.request = {} /\ present'.in = {}
      /\ present'.pending = {e.call : e \in At(t)}
      /\ present'.out = {} /\ present'.response = {} /\ DOMAIN present' = Triggers
  BY <1>1, TriggerNames DEF Quiet
<1>6. NextFiring = FiringTag(counter) /\ NextFiring \in Tag /\ counter \in Nat
  BY FiringTags DEF NextFiring, FiringTag, IInv, TypeOK
<1>7. t \in Tag
  BY <1>6 DEF IInv, TypeOK, Tag
<1>8. At(t) \subseteq events /\ \A e \in At(t) : e.time = t.time /\ e.micro = t.micro
  BY DEF At
<1>9. \A e, f \in At(t) : e = f
  BY <1>8 DEF IInv, Deadlines
<1>10. events' \subseteq events
  BY <1>1
<1>11. EventTags = EventTags' \cup PortTags' /\ PortTags = {}
  <2>1. PortTags' = {e.call.tag : e \in At(t)}
    <3>1. PortTags' = {s.tag : s \in {e.call : e \in At(t)}}
      BY <1>5 DEF PortTags
    <3> QED BY <3>1
  <2>2. EventTags' = {e.call.tag : e \in events \ At(t)}
    BY <1>1 DEF EventTags
  <2>3. PortTags = {}
    BY <1>4 DEF PortTags
  <2> QED BY <1>8, <2>1, <2>2, <2>3 DEF EventTags
<1>12. \A e \in At(t), f \in events' : e.call.tag # f.call.tag
  BY <1>1, <1>8, <1>10 DEF IInv, SlotsMatch
<1>13. TypeOK'
  <2>1. IsFiniteSet(events')
    BY <1>10, FS_Subset DEF IInv, TypeOK
  <2>2. present'.pending \subseteq Call /\ \A v, w \in present'.pending : v = w
    BY <1>5, <1>8, <1>9 DEF IInv, TypeOK
  <2>3. present'.t \subseteq {0}
    BY <1>5
  <2>4. \A p \in Triggers : \A v, w \in present'[p] : v = w
    BY <1>5, <2>2, <2>3, TriggerNames
  <2> QED BY <1>1, <1>2, <1>3, <1>5, <1>7, <1>10, <2>1, <2>2, <2>3, <2>4 DEF IInv, TypeOK
<1>14. SlotsMatch'
  <2>1. {slots'[i].tag : i \in Used'} = EventTags' \cup PortTags'
    BY <1>2, <1>3, <1>11 DEF IInv, SlotsMatch
  <2>2. (EventTags \cap PortTags)' = {}
    <3>1. \A x \in PortTags' : \E e \in At(t) : x = e.call.tag
      BY <1>5 DEF PortTags
    <3>2. \A x \in EventTags' : \E f \in events' : x = f.call.tag
      BY DEF EventTags
    <3> QED BY <1>12, <3>1, <3>2
  <2>3. \A i, j \in Used' : slots'[i].tag = slots'[j].tag => i = j
    BY <1>2, <1>3 DEF IInv, SlotsMatch
  <2>4. \A e, f \in events' : e.call.tag = f.call.tag => e = f
    BY <1>10 DEF IInv, SlotsMatch
  <2> QED BY <2>1, <2>2, <2>3, <2>4 DEF SlotsMatch
<1>15. AnswersInTime'
  <2> SUFFICES ASSUME NEW i \in Used PROVE tag'.time <= slots[i].tag.time + MaxDelay
    BY <1>2, <1>3 DEF AnswersInTime
  <2>1. PICK e \in events : slots[i].tag = e.call.tag
    BY <1>11 DEF IInv, SlotsMatch, EventTags
  <2>2. e.time <= e.call.tag.time + MaxDelay /\ NotAfter(t, e)
    BY <1>1 DEF IInv, Deadlines
  <2>3. e.time \in Nat /\ e.call.tag.time \in Nat /\ t.time \in Nat
    BY <1>7 DEF IInv, TypeOK, Call, Tag
  <2> QED BY <1>1, <2>1, <2>2, <2>3, CxtMgrAssumption DEF NotAfter
<1>16. PortsFollow'
  BY <1>5 DEF PortsFollow
<1>17. Clock'
  <2>1. CASE t = NextFiring
    BY <1>1, <1>2, <1>5, <1>6, <2>1 DEF Clock, FiringTag
  <2>2. CASE t # NextFiring
    <3>1. t.time < NextFiring.time
      <4>1. t.time \in Nat /\ t.micro \in Nat
        BY <1>7 DEF Tag
      <4>2. NextFiring.time \in Nat /\ NextFiring.micro = 0
        BY <1>6 DEF Tag, FiringTag
      <4>3. t.time = NextFiring.time /\ t.micro = NextFiring.micro => t = NextFiring
        BY <1>6, <1>7 DEF Tag
      <4> QED BY <1>1, <2>2, <4>1, <4>2, <4>3 DEF NotAfter
    <3>2. t.time < counter * Period
      BY <3>1 DEF NextFiring
    <3> QED BY <1>1, <1>2, <1>5, <2>2, <3>2 DEF Clock
  <2> QED BY <2>1, <2>2
<1>18. Tagged'
  BY <1>2, <1>3, <1>5, <1>8, <1>10 DEF IInv, Tagged, FiringTag, Sum
<1>19. Fresh'
  BY <1>5 DEF Fresh
<1>20. Deadlines'
  <2> SUFFICES ASSUME NEW e \in events' PROVE NotAfter(t, e) /\ ~NotAfter(e, t)
    BY <1>1, <1>10 DEF IInv, Deadlines
  <2>1. NotAfter(t, e)
    BY <1>1, <1>10
  <2>2. /\ e.time \in Nat /\ e.micro \in Nat /\ t.time \in Nat /\ t.micro \in Nat
    BY <1>7, <1>10 DEF IInv, TypeOK, Tag
  <2>3. ~(e.time = t.time /\ e.micro = t.micro)
    BY <1>1 DEF At
  <2> QED BY <2>1, <2>2, <2>3 DEF NotAfter
<1> QED BY <1>13, <1>14, <1>15, <1>16, <1>17, <1>18, <1>19, <1>20 DEF IInv

\* Steps that change nothing, or only that the program is done.
LEMMA StutterStep ==
  ASSUME IInv, done' \in BOOLEAN,
         UNCHANGED <<tag, events, present, counter, slots, printed>>
  PROVE  IInv'
<1>1. UNCHANGED <<Issued, Call, Response, Free, Used, EventTags, PortTags>>
  BY DEF Issued, Call, Response, Free, Used, EventTags, PortTags
<1>2. TypeOK'
  BY <1>1 DEF IInv, TypeOK
<1>3. SlotsMatch' /\ AnswersInTime' /\ PortsFollow' /\ Clock'
  BY <1>1 DEF IInv, SlotsMatch, AnswersInTime, PortsFollow, Clock
<1>4. Tagged' /\ Fresh' /\ Deadlines'
  BY <1>1 DEF IInv, Tagged, Fresh, Deadlines, FiringTag
<1> QED BY <1>2, <1>3, <1>4 DEF IInv

LEMMA NextStep == ASSUME IInv, [Next]_vars PROVE IInv'
<1>1. CASE client_t \/ client_response
  BY <1>1, ClientTStep, ClientResponseStep
<1>2. CASE manager_request \/ manager_out
  BY <1>2, ManagerRequestStep, ManagerOutStep
<1>3. CASE service_in \/ service_pending
  BY <1>3, ServiceInStep, ServicePendingStep
<1>4. CASE AdvanceTag
  BY <1>4, AdvanceTagStep
<1>5. CASE ReachTimeout
  BY <1>5, StutterStep DEF ReachTimeout
<1>6. CASE UNCHANGED vars
  BY <1>6, StutterStep DEF vars, IInv, TypeOK
<1> QED BY <1>1, <1>2, <1>3, <1>4, <1>5, <1>6 DEF Next, Ended

\* With a fast service the pending requests cannot fill all the slots: their
\* distances to the newest request are different and less than Slots.
LEMMA FreeSlot == ASSUME IInv, FastEnough, Turn("request") PROVE Free # {}
<1> SUFFICES ASSUME Free = {} PROVE FALSE
  OBVIOUS
<1>1. Used = 1 .. Slots
  BY DEF Used, SlotIds
<1>2. PICK n \in Issued :
        n = counter - 1 /\ n \in Nat /\ tag = FiringTag(n) /\ n \in present.request
  <2>1. PICK n \in present.request : TRUE
    BY TurnOrder, TriggerNames
  <2> QED BY <2>1 DEF IInv, TypeOK, Clock, Issued
<1> DEFINE g == [i \in 1 .. Slots |-> n - slots[i].request]
<1>3. ASSUME NEW i \in Used PROVE g[i] \in 1 .. Slots - 1
  <2> DEFINE r == slots[i].request
  <2>1. r \in Issued /\ r \in Nat /\ r # n
    BY <1>2, UsedIssued DEF IInv, Fresh
  <2>2. r < n
    BY <1>2, <2>1 DEF Issued, IInv, TypeOK
  <2>3. n * Period <= r * Period + MaxDelay
    <3>1. tag.time = n * Period
      BY <1>2 DEF FiringTag
    <3>2. slots[i].tag.time = r * Period
      <4>1. slots[i].tag = FiringTag(r)
        BY DEF IInv, Tagged
      <4> HIDE DEF r
      <4> QED BY <4>1 DEF FiringTag
    <3> QED BY <3>1, <3>2 DEF IInv, AnswersInTime
  <2>4. n - r < Slots
    <3> SUFFICES ASSUME n - r >= Slots PROVE FALSE
      BY <1>2, <2>1, CxtMgrAssumption
    <3>1. n = r + Slots + (n - r - Slots) /\ n - r - Slots \in Nat
      BY <1>2, <2>1, CxtMgrAssumption
    <3>2. \A k \in Nat : (r + Slots + k) * Period = r * Period + Slots * Period + k * Period
      BY <2>1, CxtMgrAssumption
    <3>3. \A k \in Nat : k * Period \in Nat
      BY CxtMgrAssumption
    <3>4. r * Period \in Nat /\ Slots * Period \in Nat
      BY <2>1, <3>3, CxtMgrAssumption
    <3>5. n * Period = r * Period + Slots * Period + (n - r - Slots) * Period
      BY <3>1, <3>2
    <3>6. (n - r - Slots) * Period \in Nat
      BY <3>1, <3>3
    <3> HIDE DEF r
    <3> QED BY <2>3, <3>4, <3>5, <3>6, CxtMgrAssumption DEF FastEnough
  <2> QED BY <1>1, <1>2, <2>1, <2>2, <2>4, CxtMgrAssumption
<1>4. g \in [1 .. Slots -> 1 .. Slots - 1]
  BY <1>1, <1>3
<1>5. /\ IsFiniteSet(1 .. Slots) /\ Cardinality(1 .. Slots) = Slots
      /\ IsFiniteSet(1 .. Slots - 1) /\ Cardinality(1 .. Slots - 1) = Slots - 1
  BY FS_Interval, CxtMgrAssumption
<1> HIDE DEF g
<1>6. PICK i, j \in 1 .. Slots : i # j /\ g[i] = g[j]
  <2>1. Cardinality(1 .. Slots - 1) < Cardinality(1 .. Slots)
    BY <1>5, CxtMgrAssumption
  <2> QED BY <1>4, <1>5, <2>1, FS_PigeonHole
<1>7. slots[i].request = slots[j].request
  <2>1. slots[i].request \in Nat /\ slots[j].request \in Nat
    BY <1>1, UsedIssued
  <2> QED BY <1>2, <1>6, <2>1 DEF g
<1> QED BY <1>1, <1>6, <1>7 DEF IInv, Tagged, SlotsMatch

-----------------------------------------------------------------------------
(* Theorems *)

\* The inductive invariant of the manager holds for all numbers of slots,
\* periods and delays, also when requests are dropped.
THEOREM Inductive == Spec => []IInv
<1>1. Init => IInv
  BY InitIInv
<1>2. IInv /\ [Next]_vars => IInv'
  BY NextStep
<1> QED BY <1>1, <1>2, PTL DEF Spec

\* Values keep their types and their contexts are of requests that were issued.
THEOREM TypeCorrect == Spec => []TypeOK
<1>1. IInv => TypeOK
  BY DEF IInv
<1> QED BY <1>1, Inductive, PTL

\* Every answer finds the slot of its own request, whatever the order in which
\* the service answers.
THEOREM Matched == Spec => []SlotsMatch
<1>1. IInv => SlotsMatch
  BY DEF IInv
<1> QED BY <1>1, Inductive, PTL

\* No request is pending for longer than the service's longest delay.
THEOREM Timely == Spec => []AnswersInTime
<1>1. IInv => AnswersInTime
  BY DEF IInv
<1> QED BY <1>1, Inductive, PTL

\* A service that answers within Slots periods never meets a full manager: with
\* ten slots, 100 ms and 499 ms at most, no request is ever dropped.
THEOREM NoneDropped == ASSUME FastEnough PROVE Spec => []NeverFull
<1>1. IInv => NeverFull
  BY FreeSlot DEF NeverFull
<1> QED BY <1>1, Inductive, PTL

\* The initial states are initial states of the service of calls.
LEMMA InitCalls == ASSUME Init PROVE Calls!Init
<1>1. Used = {}
  BY DEF Init, Used, Free
<1>2. present.request = {} /\ present.response = {}
  BY TriggerNames DEF Init, Quiet
<1> QED BY <1>1, <1>2 DEF Init, OpenCalls, Calls!Init

\* Every step issues a call, answers one or leaves all as they are.
LEMMA StepCalls ==
  ASSUME IInv, FastEnough, [Next]_vars
  PROVE  \/ /\ counter' = counter + 1 /\ printed' = printed
            /\ OpenCalls' = OpenCalls \cup {counter}
         \/ /\ counter' = counter
            /\ \E n \in OpenCalls :
                 /\ OpenCalls' = OpenCalls \ {n}
                 /\ printed' = {[context |-> n, data |-> Sum(n)]}
         \/ UNCHANGED <<counter, printed, OpenCalls>>
<1>1. CASE client_t
  <2>1. present.request = {} /\ present.response = {}
    BY <1>1, TurnOrder, TriggerNames DEF client_t, IInv, PortsFollow
  <2>2. present'.request = {counter} /\ present'.response = {}
    BY <1>1, <2>1, TriggerNames DEF client_t, IInv, TypeOK
  <2>3. counter' = counter + 1 /\ printed' = printed /\ UNCHANGED <<slots, Used>>
    BY <1>1 DEF client_t, Incremented, Used, Free
  <2> QED BY <2>1, <2>2, <2>3 DEF OpenCalls
<1>2. CASE manager_request
  <2>1. PICK n \in Issued, i \in Free :
          /\ present.request = {n}
          /\ slots' = [slots EXCEPT ![i] = [request |-> n, tag |-> tag]]
          /\ present' = [present EXCEPT !.request = {},
                                        !.in = {[request |-> n, tag |-> tag]}]
          /\ tag = FiringTag(n) /\ n \in Nat
    BY <1>2, RequestFacts, FreeSlot DEF manager_request
  <2>2. present'.request = {} /\ present'.response = present.response
    BY <2>1, TriggerNames DEF IInv, TypeOK
  <2>3. i \in SlotIds /\ i \notin Used
    BY DEF Free, Used
  <2>4. /\ slots'[i].request = n /\ slots'[i].tag = tag
        /\ \A j \in SlotIds : j # i => slots'[j] = slots[j]
    BY <2>1, <2>3 DEF IInv, TypeOK
  <2>5. tag # NEVER_TAG
    BY <2>1, FiringTags
  <2>6. Used' = Used \cup {i}
    BY <2>3, <2>4, <2>5 DEF Used, Free
  <2>7. {slots'[j].request : j \in Used'} = {slots[j].request : j \in Used} \cup {n}
    BY <2>3, <2>4, <2>6 DEF Used
  <2>8. OpenCalls' = OpenCalls
    BY <2>1, <2>2, <2>7 DEF OpenCalls
  <2> QED BY <1>2, <2>8 DEF manager_request
<1>3. CASE service_in \/ service_pending
  <2>1. /\ present'.request = present.request /\ present'.response = present.response
        /\ UNCHANGED <<slots, counter, printed>>
    BY <1>3, TriggerNames DEF service_in, service_pending, IInv, TypeOK
  <2>2. UNCHANGED Used
    BY <2>1 DEF Used, Free
  <2> QED BY <2>1, <2>2 DEF OpenCalls
<1>4. CASE manager_out
  <2>1. PICK r \in present.out, i \in Used :
          /\ slots[i].tag = r.tag /\ slots[i].request = r.response.context
          /\ slots' = [slots EXCEPT ![i] = Reset(@)]
          /\ present' = [present EXCEPT !.out = {}, !.response = {r.response}]
    BY <1>4, OutFacts
  <2>2. present.request = {} /\ present.response = {}
    BY <1>4, TurnOrder, TriggerNames DEF manager_out, IInv, PortsFollow
  <2>3. present'.request = {} /\ present'.response = {r.response}
    BY <2>1, <2>2, TriggerNames DEF IInv, TypeOK
  <2>4. i \in SlotIds /\ slots[i] \in [request : Nat, tag : Tag \cup {NEVER_TAG}]
    BY DEF Used, IInv, TypeOK
  <2>5. Reset(slots[i]).tag = NEVER_TAG
    BY <2>4 DEF Reset
  <2>6. /\ slots'[i].tag = NEVER_TAG
        /\ \A j \in SlotIds : j # i => slots'[j] = slots[j]
    BY <2>1, <2>4, <2>5 DEF IInv, TypeOK
  <2>7. Used' = Used \ {i}
    BY <2>4, <2>6 DEF Used, Free
  <2>8. {slots[j].request : j \in Used} =
          {slots'[j].request : j \in Used'} \cup {r.response.context}
    BY <2>1, <2>6, <2>7 DEF Used
  <2>9. OpenCalls' = OpenCalls
    BY <2>2, <2>3, <2>8 DEF OpenCalls
  <2> QED BY <1>4, <2>9 DEF manager_out
<1>5. CASE client_response
  <2>1. PICK r \in present.response : present.response = {r}
    BY <1>5, TurnOrder, TriggerNames DEF client_response, IInv, TypeOK
  <2>2. present.request = {} /\ present'.request = {} /\ present'.response = {}
    BY <1>5, TurnOrder, TriggerNames DEF client_response, IInv, TypeOK
  <2>3. UNCHANGED <<counter, slots, Used>> /\ printed' = {r}
    BY <1>5, <2>1 DEF client_response, Used, Free
  <2>4. r = [context |-> r.context, data |-> Sum(r.context)]
    BY DEF IInv, TypeOK, Response, Tagged
  <2>5. \A i \in Used : slots[i].request # r.context
    BY DEF IInv, Fresh
  <2>6. OpenCalls = {slots[i].request : i \in Used} \cup {r.context}
    BY <2>1, <2>2 DEF OpenCalls
  <2>7. OpenCalls' = {slots[i].request : i \in Used}
    BY <2>2, <2>3 DEF OpenCalls
  <2>8. r.context \in OpenCalls /\ OpenCalls' = OpenCalls \ {r.context}
    BY <2>5, <2>6, <2>7
  <2> QED BY <2>3, <2>4, <2>8
<1>6. CASE AdvanceTag
  <2>1. /\ present.request = {} /\ present.response = {}
        /\ present'.request = {} /\ present'.response = {}
        /\ UNCHANGED <<slots, counter, printed>>
    BY <1>6, TriggerNames DEF AdvanceTag, Quiet
  <2>2. UNCHANGED Used
    BY <2>1 DEF Used, Free
  <2> QED BY <2>1, <2>2 DEF OpenCalls
<1>7. CASE ReachTimeout \/ UNCHANGED vars
  <2>1. UNCHANGED <<present, slots, counter, printed>>
    BY <1>7 DEF ReachTimeout, vars
  <2>2. UNCHANGED Used
    BY <2>1 DEF Used, Free
  <2> QED BY <2>1, <2>2 DEF OpenCalls
<1> QED BY <1>1, <1>2, <1>3, <1>4, <1>5, <1>6, <1>7 DEF Next, Ended

\* With a fast service the manager implements the service of calls: every
\* answer is that of an open call, with its own context and sum, and no call is
\* answered twice or forgotten.
THEOREM Refinement == ASSUME FastEnough PROVE Spec => ImplementsCalls
<1>1. Init => Calls!Init
  BY InitCalls
<1>2. IInv /\ [Next]_vars => [Calls!Next]_(Calls!vars)
  BY StepCalls DEF Calls!Next, Calls!Issue, Calls!Answer, Calls!vars
<1> QED BY <1>1, <1>2, Inductive, PTL DEF Spec, ImplementsCalls, Calls!Spec
====
