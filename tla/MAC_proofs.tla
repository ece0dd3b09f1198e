---- MODULE MAC_proofs ----
(***************************************************************************)
(* Proofs that the MACService and its context managers never mix up calls: *)
(* for any number of calls, any period and all delays.                     *)
(***************************************************************************)
EXTENDS MAC, WellFoundedInduction, TLAPS

-----------------------------------------------------------------------------
(* Numbers *)

\* Every nonempty set of naturals has a least element.
LEMMA LeastNatural ==
  ASSUME NEW S \in SUBSET Nat, S # {}
  PROVE  \E m \in S : \A j \in S : m <= j
<1>1. PICK m \in S : \A j \in S : ~ (<<j, m>> \in OpToRel(<, Nat))
  BY NatLessThanWellFounded, WFMin, Zenon
<1>2. \A j \in S : ~ (j < m)
  BY <1>1 DEF OpToRel
<1> QED BY <1>2

-----------------------------------------------------------------------------
(* What the triggers carry *)

\* What trigger number i in Order carries.
At(i) == present[Order[i]]

Ports == {2, 3, 4, 5, 7, 8, 9, 10, 12, 13, 14, 15}

\* The manager that a message at trigger i is about, its context, and the call.
Cm(i) ==
  CASE i \in {2, 3, 14, 15} -> "mac_cm"
    [] i \in {4, 5, 6, 7, 8} -> "mul_cm"
    [] OTHER -> "add_cm"

Asks == {2, 4, 9}      \* messages with a request and its context
Tells == {8, 13, 15}   \* messages with a response and its context

Context(i, v) ==
  IF i \in Asks \cup Tells THEN v.context ELSE context_buffer[Cm(i)][v.uid]

Message(i, v) ==
  CASE i \in Asks -> v.request
    [] i \in Tells -> v.response
    [] OTHER -> v

CallData(i, v) == IF Cm(i) = "mac_cm" THEN Context(i, v) ELSE Context(i, v).data

Call(i, v) == CallData(i, v).factor1

\* What a message at trigger i carries for call n.
Wanted(i, n) ==
  CASE i \in {2, 3} -> MACData(n)
    [] i \in {4, 5, 6} -> <<n, n + 1>>
    [] i \in {7, 8} -> n * (n + 1)
    [] i \in {9, 10, 11} -> <<n * (n + 1), n + 2>>
    [] OTHER -> n * (n + 1) + (n + 2)

Latest(i, n) ==
  n * Period + (IF i < 6 THEN 0 ELSE IF i < 11 THEN MaxDelay ELSE 2 * MaxDelay)

\* A message that is where it belongs: its context is known, as is that of the
\* call it was sent for.
Good(i, v) ==
  /\ Message(i, v).uid \in Nat \ {0}
  /\ i \notin Asks \cup Tells => v.uid \in DOMAIN context_buffer[Cm(i)]
  /\ Call(i, v) \in Nat /\ Call(i, v) < counter
  /\ CallData(i, v) = MACData(Call(i, v))
  /\ Message(i, v).data = Wanted(i, Call(i, v))
  /\ Cm(i) # "mac_cm" =>
       /\ Context(i, v).uid \in Nat \ {0}
       /\ Context(i, v).uid \in DOMAIN context_buffer["mac_cm"]
       /\ context_buffer["mac_cm"][Context(i, v).uid] = Context(i, v).data

TypeOf(i) == IF i = 2 THEN "mac" ELSE "pair"

\* A request that its manager has not seen has an id that is not in the buffer.
Fresh ==
  \A i \in Asks : \A v \in At(i) :
    /\ v.request.uid < uid_counter[TypeOf(i)]
    /\ v.request.uid \notin DOMAIN context_buffer[Cm(i)]

Buffers ==
  /\ uid_counter \in [{"mac", "pair"} -> Nat \ {0}]
  /\ DOMAIN context_buffer = Managers
  /\ DOMAIN context_buffer["mac_cm"] \subseteq 1 .. uid_counter["mac"] - 1
  /\ \A cm \in {"mul_cm", "add_cm"} :
       DOMAIN context_buffer[cm] \subseteq 1 .. uid_counter["pair"] - 1

Base ==
  /\ time \in Nat /\ counter \in 0 .. Calls
  /\ DOMAIN present = Triggers
  /\ \A v \in At(1) : v = 0 /\ time = counter * Period /\ counter < Calls
  /\ \A i \in 1 .. 15 : \A v, w \in At(i) : v = w
  /\ \A e, f \in events : e.action = f.action /\ e.time = f.time => e = f

\* A port carries a value only when all that comes before it is handled.
Ordered == \A i \in Ports : At(i) # {} => \A j \in 1 .. i - 1 : At(j) = {}

OnPorts ==
  \A i \in 2 .. 15 : \A v \in At(i) : Good(i, v) /\ time <= Latest(i, Call(i, v))

InEvents ==
  \A e \in events :
    /\ e.action \in {Order[6], Order[11]}
    /\ e.time \in Nat /\ time <= e.time
    /\ \A i \in {6, 11} : e.action = Order[i] =>
         Good(i, e.value) /\ e.time <= Latest(i, Call(i, e.value))

EventCall(e) == IF e.action = Order[6] THEN Call(6, e.value) ELSE Call(11, e.value)

\* A call is in one message.
Unique ==
  /\ \A i, j \in 2 .. 15 : \A v \in At(i), w \in At(j) : Call(i, v) = Call(j, w) => i = j
  /\ \A e \in events : \A i \in 2 .. 15 : \A v \in At(i) : Call(i, v) # EventCall(e)
  /\ \A e, f \in events : EventCall(e) = EventCall(f) => e = f

IInv == Base /\ Buffers /\ Fresh /\ Ordered /\ OnPorts /\ InEvents /\ Unique

-----------------------------------------------------------------------------
(* Triggers *)

LEMMA Names ==
  /\ DOMAIN Order = 1 .. 15
  /\ Order[1] = Timer
  /\ Order[2] = <<"mac_cm", "request_in">>
  /\ Order[3] = <<"mac", "request">>
  /\ Order[4] = <<"mul_cm", "request_in">>
  /\ Order[5] = <<"multiplier", "request">>
  /\ Order[6] = <<"multiplier", "request_queue">>
  /\ Order[7] = <<"mul_cm", "response_in">>
  /\ Order[8] = <<"mul_cm", "response_out">>
  /\ Order[9] = <<"add_cm", "request_in">>
  /\ Order[10] = <<"adder", "request">>
  /\ Order[11] = <<"adder", "request_queue">>
  /\ Order[12] = <<"add_cm", "response_in">>
  /\ Order[13] = <<"add_cm", "response_out">>
  /\ Order[14] = <<"mac_cm", "response_in">>
  /\ Order[15] = <<"mac_cm", "response_out">>
  BY DEF Order, Timer

LEMMA TriggersAre ==
  /\ \A i \in 1 .. 15 : Order[i] \in Triggers
  /\ \A p \in Triggers : \E i \in 1 .. 15 : p = Order[i]
  BY Names DEF Triggers

LEMMA Distinct == \A i, j \in 1 .. 15 : Order[i] = Order[j] => i = j
<1> SUFFICES ASSUME NEW i \in 1 .. 15, NEW j \in 1 .. 15, Order[i] = Order[j] PROVE i = j
  OBVIOUS
<1>1. Order[i][1] = Order[j][1] /\ Order[i][2] = Order[j][2]
  OBVIOUS
<1>2. \A k \in 1 .. 15 : k \in {1, 2, 3, 4, 5, 6, 7, 8, 9, 10, 11, 12, 13, 14, 15}
  OBVIOUS
<1>3. CASE Order[i][2] \in {"t", "request_in", "response_in", "response_out"}
  BY <1>1, <1>2, <1>3, Names DEF Timer
<1>4. CASE Order[i][2] \in {"request", "request_queue"}
  BY <1>1, <1>2, <1>4, Names DEF Timer
<1> QED BY <1>2, <1>3, <1>4, Names DEF Timer

LEMMA InOrder ==
  ASSUME NEW i \in 1 .. 15, Turn(Order[i])
  PROVE  At(i) # {} /\ \A j \in 1 .. i - 1 : At(j) = {}
<1>1. \A j \in 1 .. i - 1 : j \in DOMAIN Order /\ j < i
  BY Names
<1>2. i \in DOMAIN Order
  BY Names
<1> QED BY <1>1, <1>2 DEF Turn, At

LEMMA SetsOne ==
  ASSUME DOMAIN present = Triggers, NEW i \in 1 .. 15, NEW j \in 1 .. 15, i # j, NEW w,
         Sets(Order[i], Order[j], w)
  PROVE  /\ DOMAIN present' = Triggers
         /\ At(i)' = {} /\ At(j)' = {w}
         /\ \A k \in 1 .. 15 : k # i /\ k # j => At(k)' = At(k)
<1>1. \A k \in 1 .. 15 : Order[k] \in DOMAIN present
  BY TriggersAre
<1>2. Order[i] # Order[j]
  BY Distinct
<1>3. \A k \in 1 .. 15 : k # i /\ k # j => Order[k] # Order[i] /\ Order[k] # Order[j]
  BY Distinct
<1> QED BY <1>1, <1>2, <1>3 DEF Sets, At

LEMMA SetsNone ==
  ASSUME DOMAIN present = Triggers, NEW i \in 1 .. 15, SetsNothing(Order[i])
  PROVE  /\ DOMAIN present' = Triggers
         /\ At(i)' = {}
         /\ \A k \in 1 .. 15 : k # i => At(k)' = At(k)
<1>1. \A k \in 1 .. 15 : Order[k] \in DOMAIN present
  BY TriggersAre
<1>2. \A k \in 1 .. 15 : k # i => Order[k] # Order[i]
  BY Distinct
<1> QED BY <1>1, <1>2 DEF SetsNothing, At

\* The properties' view of messages, by trigger, and the one used here.
LEMMA SameView ==
  ASSUME NEW i \in 2 .. 15, NEW v
  PROVE  /\ CallAt(Order[i], v) = Call(i, v)
         /\ DataAt(Order[i], v) = CallData(i, v)
         /\ Payload(Order[i], v) = Message(i, v)
         /\ ManagerOf[Order[i][1]] = Cm(i)
         /\ Order[i][2] \in {"request_in", "response_out"} <=> i \in Asks \cup Tells
<1>1. i \in {2, 3, 4, 5, 6, 7, 8, 9, 10, 11, 12, 13, 14, 15}
  OBVIOUS
<1>2. ManagerOf[Order[i][1]] = Cm(i)
  BY <1>1, Names DEF ManagerOf, Cm
<1>3. Order[i][2] \in {"request_in", "response_out"} <=> i \in Asks \cup Tells
  BY <1>1, Names DEF Asks, Tells
<1>4. ContextAt(Order[i], v) = Context(i, v)
  BY <1>2, <1>3 DEF ContextAt, Context
<1>5. DataAt(Order[i], v) = CallData(i, v)
  BY <1>2, <1>4 DEF DataAt, CallData
<1>6. CallAt(Order[i], v) = Call(i, v)
  BY <1>5 DEF CallAt, Call
<1>7. Payload(Order[i], v) = Message(i, v)
  BY <1>1, Names DEF Payload, Message, Asks, Tells
<1> QED BY <1>2, <1>3, <1>5, <1>6, <1>7

LEMMA SameViewAfter ==
  ASSUME NEW i \in 2 .. 15, NEW v
  PROVE  CallAt(Order[i], v)' = Call(i, v)'
<1>1. ManagerOf[Order[i][1]] = Cm(i)
  BY SameView
<1>2. Order[i][2] \in {"request_in", "response_out"} <=> i \in Asks \cup Tells
  BY SameView
<1>3. ContextAt(Order[i], v)' = Context(i, v)'
  BY <1>1, <1>2 DEF ContextAt, Context
<1>4. DataAt(Order[i], v)' = CallData(i, v)'
  BY <1>1, <1>3 DEF DataAt, CallData
<1> QED BY <1>4 DEF CallAt, Call

LEMMA WantedIs ==
  ASSUME NEW i \in 2 .. 15, NEW n \in Nat
  PROVE  Expected(Order[i], MACData(n)) = Wanted(i, n)
<1>1. i \in {2, 3, 4, 5, 6, 7, 8, 9, 10, 11, 12, 13, 14, 15}
  OBVIOUS
<1>2. /\ MACData(n).factor1 = n /\ MACData(n).factor2 = n + 1 /\ MACData(n).summand = n + 2
  BY DEF MACData
<1>3. Product(MACData(n)) = n * (n + 1)
  BY <1>2 DEF Product
<1> DEFINE m == n * (n + 1)
           d == MACData(n)
<1> HIDE DEF m, d
<1>4. Product(d) = m /\ d.factor1 = n /\ d.factor2 = n + 1 /\ d.summand = n + 2
  BY <1>2, <1>3 DEF m, d
<1>5. CASE i \in {2, 3}
  BY <1>5, Names DEF Expected, Wanted, d
<1>6. CASE i \in {4, 5, 6}
  <2>1. Expected(Order[i], d) = <<d.factor1, d.factor2>>
    BY <1>6, Names DEF Expected
  <2> QED BY <1>4, <1>6, <2>1 DEF Wanted, d
<1>7. CASE i \in {7, 8}
  <2>1. Expected(Order[i], d) = Product(d)
    BY <1>7, Names DEF Expected
  <2> QED BY <1>4, <1>7, <2>1 DEF Wanted, d, m
<1>8. CASE i \in {9, 10, 11}
  <2>1. Expected(Order[i], d) = <<Product(d), d.summand>>
    BY <1>8, Names DEF Expected
  <2> QED BY <1>4, <1>8, <2>1 DEF Wanted, d, m
<1>9. CASE i \in {12, 13, 14, 15}
  <2>1. Expected(Order[i], d) = Product(d) + d.summand
    BY <1>9, Names DEF Expected
  <2> QED BY <1>4, <1>9, <2>1 DEF Wanted, d, m
<1> QED BY <1>1, <1>5, <1>6, <1>7, <1>8, <1>9

-----------------------------------------------------------------------------
(* Messages that stay and messages that are handed on *)

\* The buffers only grow.
Grows ==
  /\ \A cm \in Managers :
       /\ DOMAIN context_buffer[cm] \subseteq DOMAIN context_buffer'[cm]
       /\ \A u \in DOMAIN context_buffer[cm] : context_buffer'[cm][u] = context_buffer[cm][u]
  /\ counter <= counter'

LEMMA CmType == \A i \in 2 .. 15 : Cm(i) \in Managers
  BY DEF Cm, Managers

LEMMA Kept ==
  ASSUME Grows, counter \in Nat, counter' \in Nat, NEW i \in 2 .. 15, NEW v, Good(i, v)
  PROVE  Good(i, v)' /\ Call(i, v)' = Call(i, v)
<1>1. Context(i, v)' = Context(i, v)
  BY CmType DEF Good, Context, Grows
<1>2. CallData(i, v)' = CallData(i, v)
  BY <1>1 DEF CallData
<1>3. Call(i, v)' = Call(i, v)
  BY <1>2 DEF Call
<1>4. Call(i, v) < counter'
  BY DEF Good, Grows
<1>5. i \notin Asks \cup Tells => v.uid \in DOMAIN context_buffer'[Cm(i)]
  BY CmType DEF Good, Grows
<1>6. Cm(i) # "mac_cm" =>
       /\ Context(i, v).uid \in DOMAIN context_buffer'["mac_cm"]
       /\ context_buffer'["mac_cm"][Context(i, v).uid] = Context(i, v).data
  BY DEF Good, Grows, Managers
<1> QED BY <1>1, <1>2, <1>3, <1>4, <1>5, <1>6 DEF Good

\* The calls of the events are kept with them.
LEMMA KeptEvent ==
  ASSUME Grows, counter \in Nat, counter' \in Nat, InEvents, NEW e \in events
  PROVE  /\ \A i \in {6, 11} : e.action = Order[i] =>
              Good(i, e.value)' /\ Call(i, e.value)' = Call(i, e.value)
         /\ EventCall(e)' = EventCall(e)
<1>1. \A i \in {6, 11} : e.action = Order[i] =>
              Good(i, e.value)' /\ Call(i, e.value)' = Call(i, e.value)
  BY Kept DEF InEvents
<1> QED BY <1>1 DEF EventCall, InEvents

LEMMA OpenIs ==
  ASSUME InEvents
  PROVE  \A n : n \in OpenCalls <=>
           \/ \E i \in 2 .. 15 : \E v \in At(i) : Call(i, v) = n
           \/ \E e \in events : EventCall(e) = n
<1>1. \A e \in events : CallAt(e.action, e.value) = EventCall(e)
  BY SameView DEF InEvents, EventCall
<1>2. \A n : (\E p \in Triggers \ {Timer} : \E v \in present[p] : CallAt(p, v) = n)
             <=> \E i \in 2 .. 15 : \E v \in At(i) : Call(i, v) = n
  <2>1. \A i \in 2 .. 15 : Order[i] \in Triggers \ {Timer}
    BY TriggersAre, Distinct, Names
  <2>2. \A p \in Triggers \ {Timer} : \E i \in 2 .. 15 : p = Order[i]
    BY TriggersAre, Names
  <2>3. \A i \in 2 .. 15 : \A v : CallAt(Order[i], v) = Call(i, v)
    BY SameView
  <2> QED BY <2>1, <2>2, <2>3 DEF At
<1>3. \A n : n \in OpenCalls <=>
         \/ \E p \in Triggers \ {Timer} : \E v \in present[p] : CallAt(p, v) = n
         \/ \E e \in events : CallAt(e.action, e.value) = n
  BY DEF OpenCalls
<1> QED BY <1>1, <1>2, <1>3

LEMMA OpenIsAfter ==
  ASSUME InEvents'
  PROVE  \A n : n \in OpenCalls' <=>
           \/ \E i \in 2 .. 15 : \E v \in At(i)' : Call(i, v)' = n
           \/ \E e \in events' : EventCall(e)' = n
<1>1. \A e \in events' : CallAt(e.action, e.value)' = EventCall(e)'
  BY SameViewAfter DEF InEvents, EventCall
<1>2. \A n : (\E p \in Triggers \ {Timer} : \E v \in present'[p] : CallAt(p, v)' = n)
             <=> \E i \in 2 .. 15 : \E v \in At(i)' : Call(i, v)' = n
  <2>1. \A i \in 2 .. 15 : Order[i] \in Triggers \ {Timer}
    BY TriggersAre, Distinct, Names
  <2>2. \A p \in Triggers \ {Timer} : \E i \in 2 .. 15 : p = Order[i]
    BY TriggersAre, Names
  <2>3. \A i \in 2 .. 15 : \A v : CallAt(Order[i], v)' = Call(i, v)'
    BY SameViewAfter
  <2> QED BY <2>1, <2>2, <2>3 DEF At
<1>3. \A n : n \in OpenCalls' <=>
         \/ \E p \in Triggers \ {Timer} : \E v \in present'[p] : CallAt(p, v)' = n
         \/ \E e \in events' : CallAt(e.action, e.value)' = n
  BY DEF OpenCalls
<1> QED BY <1>1, <1>2, <1>3

\* A reaction reads the value at trigger i and sets port i + 1 to w, for call n.
LEMMA Handed ==
  ASSUME IInv, NEW i \in 1 .. 14, i + 1 \in Ports, Turn(Order[i]), NEW w, NEW n \in Nat,
         Sets(Order[i], Order[i + 1], w), UNCHANGED <<time, events>>,
         Grows, counter' \in 0 .. Calls,
         Good(i + 1, w)', Call(i + 1, w)' = n, time <= Latest(i + 1, n),
         \A j \in 2 .. 15 : \A v \in At(j) : Call(j, v) = n <=> j = i,
         \A e \in events : EventCall(e) # n
  PROVE  /\ Base' /\ Ordered' /\ OnPorts' /\ InEvents' /\ Unique'
         /\ \A m : m \in OpenCalls' <=> m = n \/ m \in OpenCalls
<1> USE DEF IInv
<1>1. /\ DOMAIN present' = Triggers
      /\ At(i)' = {} /\ At(i + 1)' = {w}
      /\ \A k \in 1 .. 15 : k # i /\ k # i + 1 => At(k)' = At(k)
  <2>1. i \in 1 .. 15 /\ i + 1 \in 1 .. 15 /\ i # i + 1
    OBVIOUS
  <2>2. DOMAIN present = Triggers
    BY DEF Base
  <2> HIDE DEF IInv
  <2> QED BY <2>1, <2>2, SetsOne
<1>2. At(i) # {} /\ \A j \in 1 .. i - 1 : At(j) = {}
  BY InOrder
<1>3. counter \in Nat /\ counter' \in Nat
  BY DEF Base
<1>4. time' = time /\ events' = events
  OBVIOUS
<1>5. At(1)' = {}
  <2>1. CASE i = 1
    BY <1>1, <2>1
  <2>2. CASE i # 1
    <3>1. At(1) = {}
      BY <1>2, <2>2
    <3>2. 1 # i /\ 1 # i + 1
      BY <2>2
    <3> QED BY <1>1, <3>1, <3>2
  <2> QED BY <2>1, <2>2
<1>6. Base'
  <2>1. \A k \in 1 .. 15 : \A u, v \in At(k)' : u = v
    BY <1>1 DEF Base
  <2> QED BY <1>1, <1>4, <1>5, <2>1 DEF Base
<1>7. Ordered'
  <2> SUFFICES ASSUME NEW k \in Ports, At(k)' # {}, NEW j \in 1 .. k - 1 PROVE At(j)' = {}
    BY DEF Ordered
  <2>1. k \in 1 .. 15 /\ j \in 1 .. 15
    BY DEF Ports
  <2>2. CASE k = i + 1
    <3>1. j = i \/ j \in 1 .. i - 1
      BY <2>2
    <3> QED BY <1>1, <1>2, <2>1, <3>1
  <2>3. CASE k # i + 1
    <3>1. k # i /\ At(k) # {}
      BY <1>1, <2>1, <2>3
    <3>2. \A l \in 1 .. k - 1 : At(l) = {}
      BY <3>1 DEF Ordered
    <3>3. ~ (i \in 1 .. k - 1)
      BY <1>2, <3>2
    <3>4. k < i
      BY <2>1, <3>1, <3>3
    <3> QED BY <1>2, <2>1, <3>1, <3>4
  <2> QED BY <2>2, <2>3
<1>8. OnPorts'
  <2> SUFFICES ASSUME NEW k \in 2 .. 15, NEW v \in At(k)'
               PROVE  Good(k, v)' /\ time' <= Latest(k, Call(k, v)')
    BY DEF OnPorts, Latest
  <2>1. CASE k = i + 1
    BY <1>1, <1>4, <2>1
  <2>2. CASE k # i + 1
    <3>1. v \in At(k)
      BY <1>1, <2>2
    <3>2. Good(k, v) /\ time <= Latest(k, Call(k, v))
      BY <3>1 DEF OnPorts
    <3> QED BY <1>3, <1>4, <3>2, Kept
  <2> QED BY <2>1, <2>2
<1>9. InEvents'
  <2> SUFFICES ASSUME NEW e \in events
        PROVE  /\ e.action \in {Order[6], Order[11]} /\ e.time \in Nat /\ time' <= e.time
               /\ \A k \in {6, 11} : e.action = Order[k] =>
                    Good(k, e.value)' /\ e.time <= Latest(k, Call(k, e.value)')
    BY <1>4 DEF InEvents, Latest
  <2>1. \A k \in {6, 11} : e.action = Order[k] =>
              Good(k, e.value)' /\ Call(k, e.value)' = Call(k, e.value)
    BY <1>3, KeptEvent
  <2> QED BY <1>4, <2>1 DEF InEvents
<1>10. \A e \in events : EventCall(e)' = EventCall(e)
  BY <1>3, KeptEvent
<1>11. \A k \in 2 .. 15 : \A v \in At(k)' :
        \/ k = i + 1 /\ Call(k, v)' = n
        \/ k # i /\ v \in At(k) /\ Call(k, v)' = Call(k, v) /\ Call(k, v) # n
  <2> SUFFICES ASSUME NEW k \in 2 .. 15, NEW v \in At(k)', k # i + 1
               PROVE  k # i /\ v \in At(k) /\ Call(k, v)' = Call(k, v) /\ Call(k, v) # n
    BY <1>1
  <2>1. k # i /\ v \in At(k)
    BY <1>1
  <2>2. Good(k, v)
    BY <2>1 DEF OnPorts
  <2> QED BY <1>3, <2>1, <2>2, Kept
<1>12. Unique'
  <2>1. ASSUME NEW j \in 2 .. 15, NEW k \in 2 .. 15, NEW v \in At(j)', NEW u \in At(k)',
               Call(j, v)' = Call(k, u)'
        PROVE  j = k
    BY <1>11, <2>1 DEF Unique
  <2>2. ASSUME NEW e \in events, NEW k \in 2 .. 15, NEW v \in At(k)'
        PROVE  Call(k, v)' # EventCall(e)'
    BY <1>10, <1>11 DEF Unique
  <2>3. ASSUME NEW e \in events, NEW f \in events, EventCall(e)' = EventCall(f)' PROVE e = f
    BY <1>10, <2>3 DEF Unique
  <2> QED BY <1>4, <2>1, <2>2, <2>3 DEF Unique
<1>13. \A m : m \in OpenCalls' <=> m = n \/ m \in OpenCalls
  <2>1. i + 1 \in 2 .. 15 /\ w \in At(i + 1)' /\ Call(i + 1, w)' = n
    BY <1>1
  <2>2. ASSUME NEW m, m \in OpenCalls' PROVE m = n \/ m \in OpenCalls
    BY <1>4, <1>9, <1>10, <1>11, <2>2, OpenIs, OpenIsAfter
  <2>3. ASSUME NEW m, m \in OpenCalls PROVE m = n \/ m \in OpenCalls'
    <3>1. CASE \E e \in events : EventCall(e) = m
      BY <1>4, <1>9, <1>10, <3>1, OpenIsAfter
    <3>2. CASE \E k \in 2 .. 15 : \E v \in At(k) : Call(k, v) = m
      <4>0. PICK k \in 2 .. 15 : \E v \in At(k) : Call(k, v) = m
        BY <3>2
      <4>1. PICK v \in At(k) : Call(k, v) = m
        BY <4>0
      <4>2. CASE k = i
        BY <4>1, <4>2
      <4>3. CASE k # i
        <5>1. At(i + 1) = {}
          <6>1. At(i + 1) # {} => At(i) = {}
            BY DEF Ordered
          <6> QED BY <1>2, <6>1
        <5>2. v \in At(k)'
          BY <1>1, <4>3, <5>1
        <5>3. Call(k, v)' = m
          BY <1>3, <4>1, Kept DEF OnPorts
        <5> QED BY <1>9, <5>2, <5>3, OpenIsAfter
      <4> QED BY <4>2, <4>3
    <3> QED BY <2>3, <3>1, <3>2, OpenIs
  <2>4. n \in OpenCalls'
    BY <1>9, <2>1, OpenIsAfter
  <2> QED BY <2>2, <2>3, <2>4
<1> QED BY <1>6, <1>7, <1>8, <1>9, <1>12, <1>13

\* The values that a step leaves where they are, and the one that it moves.
LEMMA Others ==
  ASSUME IInv, NEW i \in 2 .. 14, NEW v \in At(i)
  PROVE  /\ \A j \in 2 .. 15 : \A u \in At(j) : Call(j, u) = Call(i, v) <=> j = i
         /\ \A e \in events : EventCall(e) # Call(i, v)
         /\ Good(i, v) /\ time <= Latest(i, Call(i, v)) /\ Call(i, v) \in Nat
         /\ Call(i, v) \in OpenCalls
<1> USE DEF IInv
<1>1. Good(i, v) /\ time <= Latest(i, Call(i, v))
  BY DEF OnPorts
<1>2. \A j \in 2 .. 15 : \A u \in At(j) : Call(j, u) = Call(i, v) <=> j = i
  <2>1. \A u \in At(i) : u = v
    BY DEF Base
  <2> QED BY <2>1 DEF Unique
<1>3. \A e \in events : EventCall(e) # Call(i, v)
  BY DEF Unique
<1> QED BY <1>1, <1>2, <1>3, OpenIs DEF Good

LEMMA MessageIs ==
  ASSUME NEW i, NEW v
  PROVE  /\ i \in Asks => Message(i, v) = v.request
         /\ i \in Tells => Message(i, v) = v.response
         /\ i \notin Asks \cup Tells => Message(i, v) = v
<1>1. ~ (i \in Asks /\ i \in Tells)
  BY DEF Asks, Tells
<1> QED BY <1>1 DEF Message

\* A request that is not with its manager is new.
LEMMA StillFresh ==
  ASSUME IInv, NEW i \in 1 .. 15, i + 1 \notin Asks, UNCHANGED uid_counter,
         \A k \in Asks : k # i => At(k)' = At(k) /\ DOMAIN context_buffer'[Cm(k)] = DOMAIN context_buffer[Cm(k)],
         At(i)' = {}
  PROVE  Fresh'
  BY DEF IInv, Fresh

LEMMA StepAsk ==
  ASSUME IInv, NEW i \in Asks, request_in(Cm(i)), UNCHANGED counter
  PROVE  IInv' /\ \A m : m \in OpenCalls' <=> m \in OpenCalls
<1> USE DEF IInv
<1>1. /\ <<Cm(i), "request_in">> = Order[i] /\ RequestOut[Cm(i)] = Order[i + 1]
      /\ i \in 2 .. 14 /\ i + 1 \in Ports /\ i + 1 \notin Asks \cup Tells
      /\ Cm(i + 1) = Cm(i) /\ Cm(i) \in Managers /\ TypeOf(i) \in {"mac", "pair"}
      /\ TypeOf(i) = "mac" <=> Cm(i) = "mac_cm"
      /\ \A k \in Asks : k # i => Cm(k) # Cm(i)
  BY Names DEF Asks, Tells, Cm, RequestOut, Ports, Managers, TypeOf
<1>2. /\ Turn(Order[i]) /\ UNCHANGED <<time, events, uid_counter, counter>>
      /\ \E v \in At(i) :
           /\ context_buffer' = [context_buffer EXCEPT ![Cm(i)] = Stored(@, v.request.uid, v.context)]
           /\ Sets(Order[i], Order[i + 1], v.request)
  BY <1>1 DEF request_in, At
<1>3. PICK v \in At(i) :
        /\ context_buffer' = [context_buffer EXCEPT ![Cm(i)] = Stored(@, v.request.uid, v.context)]
        /\ Sets(Order[i], Order[i + 1], v.request)
  BY <1>2
<1>4. PICK w : w = v.request
  OBVIOUS
<1>5. PICK n : n = Call(i, v)
  OBVIOUS
<1>6. /\ \A j \in 2 .. 15 : \A u \in At(j) : Call(j, u) = n <=> j = i
      /\ \A e \in events : EventCall(e) # n
      /\ Good(i, v) /\ time <= Latest(i, n) /\ n \in Nat
      /\ n \in OpenCalls
  BY <1>1, <1>5, Others
<1>7. w.uid \in Nat \ {0} /\ w.uid < uid_counter[TypeOf(i)] /\ w.uid \notin DOMAIN context_buffer[Cm(i)]
  BY <1>4, <1>6, MessageIs DEF Fresh, Good
<1>8. /\ DOMAIN context_buffer' = Managers
      /\ context_buffer'[Cm(i)] = Stored(context_buffer[Cm(i)], w.uid, v.context)
      /\ \A cm \in Managers : cm # Cm(i) => context_buffer'[cm] = context_buffer[cm]
  BY <1>1, <1>3, <1>4 DEF Buffers
<1>9. /\ DOMAIN context_buffer'[Cm(i)] = DOMAIN context_buffer[Cm(i)] \cup {w.uid}
      /\ context_buffer'[Cm(i)][w.uid] = v.context
      /\ \A u \in DOMAIN context_buffer[Cm(i)] :
           context_buffer'[Cm(i)][u] = context_buffer[Cm(i)][u]
  BY <1>7, <1>8 DEF Stored
<1>10. Grows
  BY <1>2, <1>8, <1>9 DEF Grows, Base
<1>11. Buffers'
  <2>1. uid_counter' = uid_counter /\ uid_counter[TypeOf(i)] \in Nat
    BY <1>1, <1>2 DEF Buffers
  <2>2. w.uid \in 1 .. uid_counter[TypeOf(i)] - 1
    BY <1>7, <2>1
  <2> QED BY <1>1, <1>8, <1>9, <2>1, <2>2 DEF Buffers, Managers, TypeOf
<1>12. Good(i + 1, w)' /\ Call(i + 1, w)' = n
  <2>1. Context(i + 1, w)' = v.context /\ Context(i, v) = v.context
    BY <1>1, <1>9 DEF Context
  <2>2. CallData(i + 1, w)' = CallData(i, v)
    BY <1>1, <2>1 DEF CallData
  <2>3. Call(i + 1, w)' = n
    BY <1>5, <2>2 DEF Call
  <2>4. Message(i + 1, w)' = w /\ Message(i, v) = w
    BY <1>1, <1>4, MessageIs
  <2>5. Wanted(i + 1, n) = Wanted(i, n)
    BY DEF Wanted, Asks
  <2>6. Cm(i) # "mac_cm" => context_buffer'["mac_cm"] = context_buffer["mac_cm"]
    BY <1>8 DEF Managers
  <2> QED BY <1>1, <1>2, <1>5, <1>6, <1>7, <1>9, <2>1, <2>2, <2>3, <2>4, <2>5, <2>6 DEF Good
<1>13. Latest(i + 1, n) = Latest(i, n)
  BY DEF Latest, Asks
<1>14. /\ Base' /\ Ordered' /\ OnPorts' /\ InEvents' /\ Unique'
       /\ \A m : m \in OpenCalls' <=> m = n \/ m \in OpenCalls
  <2>1. i \in 1 .. 14 /\ counter' \in 0 .. Calls /\ time <= Latest(i + 1, n)
    BY <1>1, <1>2, <1>6, <1>13 DEF Base
  <2> QED BY <1>1, <1>2, <1>3, <1>4, <1>6, <1>10, <1>12, <2>1, Handed
<1>15. Fresh'
  <2>1. i \in 1 .. 15 /\ i + 1 \in 1 .. 15 /\ i # i + 1 /\ DOMAIN present = Triggers
    BY <1>1 DEF Base
  <2>2. At(i)' = {} /\ \A k \in 1 .. 15 : k # i /\ k # i + 1 => At(k)' = At(k)
    BY <1>3, <2>1, SetsOne
  <2>3. \A k \in Asks : k # i => At(k)' = At(k) /\ context_buffer'[Cm(k)] = context_buffer[Cm(k)]
    <3>1. \A k \in Asks : k \in 1 .. 15 /\ k # i + 1 /\ Cm(k) \in Managers
      BY <1>1 DEF Asks, Cm, Managers
    <3> QED BY <1>1, <1>8, <2>2, <3>1
  <2> QED BY <1>1, <1>2, <2>1, <2>2, <2>3, StillFresh
<1> QED BY <1>6, <1>11, <1>14, <1>15

\* A reaction reads a message at trigger i and answers it at port i + 1.
LEMMA MovedOn ==
  ASSUME IInv, NEW i \in 2 .. 14, i + 1 \in Ports, Turn(Order[i]), NEW v \in At(i), NEW w,
         Sets(Order[i], Order[i + 1], w), UNCHANGED <<time, events, counter>>, Grows,
         Latest(i + 1, Call(i, v)) = Latest(i, Call(i, v)),
         Good(i + 1, w)', Call(i + 1, w)' = Call(i, v)
  PROVE  /\ Base' /\ Ordered' /\ OnPorts' /\ InEvents' /\ Unique'
         /\ \A m : m \in OpenCalls' <=> m \in OpenCalls
         /\ At(i)' = {} /\ \A k \in 1 .. 15 : k # i /\ k # i + 1 => At(k)' = At(k)
<1>1. PICK n : n = Call(i, v)
  OBVIOUS
<1>2. /\ \A j \in 2 .. 15 : \A u \in At(j) : Call(j, u) = n <=> j = i
      /\ \A e \in events : EventCall(e) # n
      /\ time <= Latest(i, n) /\ n \in Nat
      /\ n \in OpenCalls
  BY <1>1, Others
<1>3. /\ Base' /\ Ordered' /\ OnPorts' /\ InEvents' /\ Unique'
      /\ \A m : m \in OpenCalls' <=> m = n \/ m \in OpenCalls
  <2>1. i \in 1 .. 14 /\ counter' \in 0 .. Calls /\ time <= Latest(i + 1, n)
    BY <1>1, <1>2 DEF IInv, Base
  <2> QED BY <1>1, <1>2, <2>1, Handed
<1>4. At(i)' = {} /\ \A k \in 1 .. 15 : k # i /\ k # i + 1 => At(k)' = At(k)
  <2>1. i \in 1 .. 15 /\ i + 1 \in 1 .. 15 /\ i # i + 1 /\ DOMAIN present = Triggers
    BY DEF IInv, Base
  <2> QED BY <2>1, SetsOne
<1> QED BY <1>2, <1>3, <1>4

LEMMA StepTell ==
  ASSUME IInv, NEW i \in {7, 12, 14}, response_in(Cm(i)), UNCHANGED counter
  PROVE  IInv' /\ \A m : m \in OpenCalls' <=> m \in OpenCalls
<1> USE DEF IInv
<1>1. /\ <<Cm(i), "response_in">> = Order[i] /\ <<Cm(i), "response_out">> = Order[i + 1]
      /\ i \in 2 .. 14 /\ i + 1 \in Ports /\ i + 1 \notin Asks /\ i + 1 \in Tells
      /\ i \notin Asks \cup Tells
      /\ Cm(i + 1) = Cm(i) /\ Cm(i) \in Managers
  BY Names DEF Asks, Tells, Cm, Ports, Managers
<1>2. /\ Turn(Order[i]) /\ UNCHANGED <<time, events, uid_counter, counter>>
      /\ \E v \in At(i) :
           LET b == context_buffer[Cm(i)]
               context == IF v.uid \in DOMAIN b THEN b[v.uid] ELSE Default(Cm(i))
           IN  /\ context_buffer' = [context_buffer EXCEPT ![Cm(i)] = Stored(@, v.uid, context)]
               /\ Sets(Order[i], Order[i + 1], [response |-> v, context |-> context])
  BY <1>1 DEF response_in, At
<1>3. PICK v \in At(i) :
           LET b == context_buffer[Cm(i)]
               context == IF v.uid \in DOMAIN b THEN b[v.uid] ELSE Default(Cm(i))
           IN  /\ context_buffer' = [context_buffer EXCEPT ![Cm(i)] = Stored(@, v.uid, context)]
               /\ Sets(Order[i], Order[i + 1], [response |-> v, context |-> context])
  BY <1>2
<1>4. PICK c : c = context_buffer[Cm(i)][v.uid]
  OBVIOUS
<1>5. PICK w : w = [response |-> v, context |-> c]
  OBVIOUS
<1>6. Good(i, v) /\ v.uid \in DOMAIN context_buffer[Cm(i)] /\ Context(i, v) = c
  <2>1. Good(i, v)
    BY <1>1, Others
  <2> QED BY <1>1, <1>4, <2>1 DEF Good, Context
<1>7. /\ context_buffer' = [context_buffer EXCEPT ![Cm(i)] = Stored(@, v.uid, c)]
      /\ Sets(Order[i], Order[i + 1], w)
  BY <1>3, <1>4, <1>5, <1>6
<1>8. /\ DOMAIN context_buffer' = Managers
      /\ \A cm \in Managers :
           /\ DOMAIN context_buffer'[cm] = DOMAIN context_buffer[cm]
           /\ \A u \in DOMAIN context_buffer[cm] : context_buffer'[cm][u] = context_buffer[cm][u]
  <2>1. /\ context_buffer'[Cm(i)] = Stored(context_buffer[Cm(i)], v.uid, c)
        /\ \A cm \in Managers : cm # Cm(i) => context_buffer'[cm] = context_buffer[cm]
        /\ DOMAIN context_buffer' = Managers
    BY <1>1, <1>7 DEF Buffers
  <2> QED BY <1>4, <1>6, <2>1 DEF Stored
<1>9. Grows
  BY <1>2, <1>8 DEF Grows, Base
<1>10. Buffers'
  BY <1>2, <1>8 DEF Buffers, Managers
<1>11. Good(i + 1, w)' /\ Call(i + 1, w)' = Call(i, v)
  <2>1. Context(i + 1, w)' = c
    BY <1>1, <1>5 DEF Context
  <2>2. CallData(i + 1, w)' = CallData(i, v)
    BY <1>1, <1>6, <2>1 DEF CallData
  <2>3. Call(i + 1, w)' = Call(i, v)
    BY <2>2 DEF Call
  <2>4. Message(i + 1, w)' = v /\ Message(i, v) = v
    BY <1>1, <1>5, MessageIs
  <2>5. Wanted(i + 1, Call(i, v)) = Wanted(i, Call(i, v))
    BY DEF Wanted
  <2>6. "mac_cm" \in Managers
    BY DEF Managers
  <2> QED BY <1>1, <1>2, <1>6, <1>8, <2>1, <2>2, <2>3, <2>4, <2>5, <2>6 DEF Good
<1>12. Latest(i + 1, Call(i, v)) = Latest(i, Call(i, v))
  BY DEF Latest
<1>13. /\ Base' /\ Ordered' /\ OnPorts' /\ InEvents' /\ Unique'
       /\ \A m : m \in OpenCalls' <=> m \in OpenCalls
       /\ At(i)' = {} /\ \A k \in 1 .. 15 : k # i /\ k # i + 1 => At(k)' = At(k)
  BY <1>1, <1>2, <1>7, <1>9, <1>11, <1>12, MovedOn
<1>14. Fresh'
  <2>1. \A k \in Asks : k \in 1 .. 15 /\ k # i + 1 /\ Cm(k) \in Managers
    BY <1>1 DEF Asks, Cm, Managers
  <2> QED BY <1>1, <1>2, <1>8, <1>13, <2>1, StillFresh
<1> QED BY <1>10, <1>13, <1>14

\* A reaction that leaves the buffers and the ids alone.
LEMMA BuffersKept ==
  ASSUME IInv, UNCHANGED <<counter, context_buffer>>
  PROVE  Grows
  BY DEF IInv, Base, Grows

LEMMA StepServed ==
  ASSUME IInv, NEW i \in {6, 11}, NEW s \in Services, i = 6 <=> s = "multiplier",
         service_request_queue(s), UNCHANGED counter
  PROVE  IInv' /\ \A m : m \in OpenCalls' <=> m \in OpenCalls
<1> USE DEF IInv
<1>1. /\ <<s, "request_queue">> = Order[i] /\ Response[s] = Order[i + 1]
      /\ i \in 2 .. 14 /\ i + 1 \in Ports /\ i + 1 \notin Asks \cup Tells
      /\ i \notin Asks \cup Tells /\ Cm(i + 1) = Cm(i)
  BY Names DEF Asks, Tells, Cm, Ports, Services, Response
<1>2. /\ Turn(Order[i]) /\ UNCHANGED <<time, events, uid_counter, context_buffer, counter>>
      /\ \E v \in At(i) : Sets(Order[i], Order[i + 1], MakeResponse(v, Computed(s, v.data)))
  BY <1>1 DEF service_request_queue, At
<1>3. PICK v \in At(i) : Sets(Order[i], Order[i + 1], MakeResponse(v, Computed(s, v.data)))
  BY <1>2
<1>4. PICK w : w = MakeResponse(v, Computed(s, v.data))
  OBVIOUS
<1>5. Good(i, v) /\ Call(i, v) \in Nat
  BY <1>1, Others
<1>6. w.uid = v.uid /\ w.data = Wanted(i + 1, Call(i, v))
  <2>1. w.uid = v.uid /\ w.data = Computed(s, v.data)
    BY <1>4 DEF MakeResponse
  <2>2. v.data = Wanted(i, Call(i, v))
    BY <1>1, <1>5, MessageIs DEF Good
  <2> DEFINE n == Call(i, v)
             m == n * (n + 1)
  <2>3. m \in Nat /\ n \in Nat
    BY <1>5
  <2>4. CASE i = 6
    <3>1. v.data = <<n, n + 1>> /\ Wanted(i + 1, n) = m
      BY <2>2, <2>4 DEF Wanted
    <3> HIDE DEF n
    <3>2. Computed(s, v.data) = m
      BY <2>4, <3>1 DEF Computed
    <3> QED BY <2>1, <3>1, <3>2 DEF n
  <2>5. CASE i = 11
    <3>1. v.data = <<m, n + 2>> /\ Wanted(i + 1, n) = m + (n + 2)
      BY <2>2, <2>5 DEF Wanted
    <3> HIDE DEF n, m
    <3>2. Computed(s, v.data) = m + (n + 2)
      BY <2>5, <3>1 DEF Computed, Services
    <3> QED BY <2>1, <3>1, <3>2 DEF n, m
  <2> QED BY <2>4, <2>5
<1>7. Grows
  BY <1>2, BuffersKept
<1>8. Good(i + 1, w)' /\ Call(i + 1, w)' = Call(i, v)
  <2>1. Context(i + 1, w)' = Context(i, v)
    BY <1>1, <1>2, <1>6 DEF Context
  <2>2. CallData(i + 1, w)' = CallData(i, v)
    BY <1>1, <2>1 DEF CallData
  <2>3. Call(i + 1, w)' = Call(i, v)
    BY <2>2 DEF Call
  <2>4. Message(i + 1, w)' = w /\ Message(i, v) = v
    BY <1>1, MessageIs
  <2> QED BY <1>1, <1>2, <1>5, <1>6, <2>1, <2>2, <2>3, <2>4 DEF Good
<1>9. Latest(i + 1, Call(i, v)) = Latest(i, Call(i, v))
  BY DEF Latest
<1>10. /\ Base' /\ Ordered' /\ OnPorts' /\ InEvents' /\ Unique'
       /\ \A m : m \in OpenCalls' <=> m \in OpenCalls
       /\ At(i)' = {} /\ \A k \in 1 .. 15 : k # i /\ k # i + 1 => At(k)' = At(k)
  BY <1>1, <1>2, <1>3, <1>4, <1>7, <1>8, <1>9, MovedOn
<1>11. Fresh'
  <2>1. \A k \in Asks : k \in 1 .. 15 /\ k # i + 1
    BY <1>1 DEF Asks
  <2> QED BY <1>1, <1>2, <1>10, <2>1, StillFresh
<1>12. Buffers'
  BY <1>2 DEF Buffers
<1> QED BY <1>10, <1>11, <1>12

\* The constructor of a request hands out an id that no buffer has.
LEMMA NewIsFresh ==
  ASSUME IInv, NEW i \in Asks, NEW w,
         w.request.uid = uid_counter[TypeOf(i)],
         uid_counter' = [uid_counter EXCEPT ![TypeOf(i)] = Counted(@)],
         UNCHANGED context_buffer,
         At(i)' = {w}, \A k \in Asks : k # i => At(k)' = At(k)
  PROVE  Fresh' /\ Buffers' /\ w.request.uid \in Nat \ {0}
<1> USE DEF IInv
<1>1. TypeOf(i) \in {"mac", "pair"} /\ \A k \in Asks : TypeOf(k) \in {"mac", "pair"}
  BY DEF TypeOf
<1>2. /\ \A t \in {"mac", "pair"} : uid_counter[t] \in Nat \ {0}
      /\ DOMAIN uid_counter = {"mac", "pair"}
      /\ uid_counter \in [{"mac", "pair"} -> Nat \ {0}]
  BY DEF Buffers
<1>3. /\ uid_counter'[TypeOf(i)] = uid_counter[TypeOf(i)] + 1
      /\ \A t \in {"mac", "pair"} :
           /\ uid_counter'[t] \in Nat \ {0}
           /\ uid_counter[t] <= uid_counter'[t]
      /\ uid_counter' \in [{"mac", "pair"} -> Nat \ {0}]
  BY <1>1, <1>2 DEF Counted
<1>4. w.request.uid \notin DOMAIN context_buffer[Cm(i)]
  <2>1. DOMAIN context_buffer[Cm(i)] \subseteq 1 .. uid_counter[TypeOf(i)] - 1
    BY DEF Buffers, Cm, TypeOf, Asks
  <2> QED BY <1>1, <1>2, <2>1
<1>5. \A k \in Asks : \A v \in At(k) :
        /\ v.request.uid \in Nat
        /\ v.request.uid < uid_counter[TypeOf(k)]
        /\ v.request.uid \notin DOMAIN context_buffer[Cm(k)]
  <2>1. \A k \in Asks : k \in 2 .. 15
    BY DEF Asks
  <2>2. ASSUME NEW k \in Asks, NEW v \in At(k) PROVE v.request.uid \in Nat
    BY <2>1, MessageIs DEF OnPorts, Good
  <2> QED BY <2>2 DEF Fresh
<1>6. Fresh'
  <2> SUFFICES ASSUME NEW k \in Asks, NEW v \in At(k)'
               PROVE  /\ v.request.uid < uid_counter'[TypeOf(k)]
                      /\ v.request.uid \notin DOMAIN context_buffer[Cm(k)]
    BY DEF Fresh
  <2>1. CASE k = i
    BY <1>1, <1>2, <1>3, <1>4, <2>1
  <2>2. CASE k # i
    <3>1. v \in At(k)
      BY <2>2
    <3>2. v.request.uid \in Nat /\ v.request.uid < uid_counter[TypeOf(k)]
          /\ uid_counter[TypeOf(k)] \in Nat /\ uid_counter'[TypeOf(k)] \in Nat
          /\ uid_counter[TypeOf(k)] <= uid_counter'[TypeOf(k)]
      BY <1>1, <1>2, <1>3, <1>5, <3>1
    <3> QED BY <1>5, <3>1, <3>2
  <2> QED BY <2>1, <2>2
<1>7. Buffers'
  <2>1. ASSUME NEW t \in {"mac", "pair"}, NEW S, S \subseteq 1 .. uid_counter[t] - 1
        PROVE  S \subseteq 1 .. uid_counter'[t] - 1
    BY <1>2, <1>3, <2>1
  <2> QED BY <1>3, <2>1 DEF Buffers
<1> QED BY <1>1, <1>2, <1>6, <1>7

LEMMA StepMultiply ==
  ASSUME IInv, mac_request, UNCHANGED counter
  PROVE  IInv' /\ \A m : m \in OpenCalls' <=> m \in OpenCalls
<1> USE DEF IInv
<1>1. /\ <<"mac", "request">> = Order[3] /\ <<"mul_cm", "request_in">> = Order[4]
      /\ 3 \notin Asks \cup Tells /\ 4 \in Asks /\ TypeOf(4) = "pair"
      /\ Cm(3) = "mac_cm" /\ Cm(4) = "mul_cm" /\ 4 \in Ports
  BY Names DEF Asks, Tells, Cm, Ports, TypeOf
<1>2. /\ Turn(Order[3]) /\ UNCHANGED <<time, events, context_buffer, counter>>
      /\ uid_counter' = [uid_counter EXCEPT !["pair"] = Counted(@)]
      /\ \E v \in At(3) :
           Sets(Order[3], Order[4],
                [request |-> [uid |-> uid_counter["pair"],
                              data |-> <<v.data.factor1, v.data.factor2>>], context |-> v])
  BY <1>1 DEF mac_request, At, Counts, NewRequest
<1>3. PICK v \in At(3) :
           Sets(Order[3], Order[4],
                [request |-> [uid |-> uid_counter["pair"],
                              data |-> <<v.data.factor1, v.data.factor2>>], context |-> v])
  BY <1>2
<1>4. PICK w : w = [request |-> [uid |-> uid_counter["pair"],
                                 data |-> <<v.data.factor1, v.data.factor2>>], context |-> v]
  OBVIOUS
<1>5. PICK n : n = Call(3, v)
  OBVIOUS
<1>6. Good(3, v) /\ n \in Nat
  BY <1>5, Others
<1>7. /\ v.uid \in Nat \ {0} /\ v.uid \in DOMAIN context_buffer["mac_cm"]
      /\ v.data = MACData(n) /\ context_buffer["mac_cm"][v.uid] = v.data /\ n < counter
  <2>1. Message(3, v) = v
    BY <1>1, MessageIs
  <2>2. CallData(3, v) = context_buffer["mac_cm"][v.uid]
    BY <1>1 DEF CallData, Context
  <2> QED BY <1>1, <1>5, <1>6, <2>1, <2>2 DEF Good, Wanted
<1>8. /\ w.context = v /\ w.request.uid = uid_counter["pair"]
      /\ w.request.data = <<n, n + 1>>
  <2>1. v.data.factor1 = n /\ v.data.factor2 = n + 1
    BY <1>7 DEF MACData
  <2> QED BY <1>4, <2>1
<1>9. Grows
  BY <1>2, BuffersKept
<1>10. uid_counter["pair"] \in Nat \ {0}
  BY DEF Buffers
<1>11. Good(4, w)' /\ Call(4, w)' = n
  <2>1. Context(4, w)' = v
    BY <1>1, <1>8 DEF Context
  <2>2. CallData(4, w)' = MACData(n)
    BY <1>1, <1>7, <2>1 DEF CallData
  <2>3. Call(4, w)' = n
    BY <2>2 DEF Call, MACData
  <2>4. Message(4, w)' = w.request
    BY <1>1, MessageIs
  <2>5. Wanted(4, n) = <<n, n + 1>>
    BY DEF Wanted
  <2> QED BY <1>1, <1>2, <1>6, <1>7, <1>8, <1>10, <2>1, <2>2, <2>3, <2>4, <2>5 DEF Good
<1>12. Latest(4, n) = Latest(3, n)
  BY DEF Latest
<1>13. /\ Base' /\ Ordered' /\ OnPorts' /\ InEvents' /\ Unique'
       /\ \A m : m \in OpenCalls' <=> m \in OpenCalls
       /\ At(3)' = {} /\ \A k \in 1 .. 15 : k # 3 /\ k # 4 => At(k)' = At(k)
  <2>1. 3 \in 2 .. 14 /\ 3 + 1 = 4
    OBVIOUS
  <2> QED BY <1>1, <1>2, <1>3, <1>4, <1>5, <1>9, <1>11, <1>12, <2>1, MovedOn
<1>14. At(4)' = {w}
  <2>1. 3 \in 1 .. 15 /\ 4 \in 1 .. 15 /\ 3 # 4 /\ DOMAIN present = Triggers
    BY DEF Base
  <2> QED BY <1>3, <1>4, <2>1, SetsOne
<1>15. Fresh' /\ Buffers'
  <2>1. \A k \in Asks : k # 4 => At(k)' = At(k)
    BY <1>13 DEF Asks
  <2> QED BY <1>1, <1>2, <1>8, <1>14, <2>1, NewIsFresh
<1> QED BY <1>13, <1>15

LEMMA StepAdd ==
  ASSUME IInv, mac_mul_response_out, UNCHANGED counter
  PROVE  IInv' /\ \A m : m \in OpenCalls' <=> m \in OpenCalls
<1> USE DEF IInv
<1>1. /\ <<"mul_cm", "response_out">> = Order[8] /\ <<"add_cm", "request_in">> = Order[9]
      /\ 8 \in Tells /\ 9 \in Asks /\ 9 \notin Tells /\ TypeOf(9) = "pair"
      /\ Cm(8) = "mul_cm" /\ Cm(9) = "add_cm" /\ 9 \in Ports
  BY Names DEF Asks, Tells, Cm, Ports, TypeOf
<1>2. /\ Turn(Order[8]) /\ UNCHANGED <<time, events, context_buffer, counter>>
      /\ uid_counter' = [uid_counter EXCEPT !["pair"] = Counted(@)]
      /\ \E v \in At(8) :
           Sets(Order[8], Order[9],
                [request |-> [uid |-> uid_counter["pair"],
                              data |-> <<v.response.data, v.context.data.summand>>],
                 context |-> v.context])
  BY <1>1 DEF mac_mul_response_out, At, Counts, NewRequest
<1>3. PICK v \in At(8) :
           Sets(Order[8], Order[9],
                [request |-> [uid |-> uid_counter["pair"],
                              data |-> <<v.response.data, v.context.data.summand>>],
                 context |-> v.context])
  BY <1>2
<1>4. PICK w : w = [request |-> [uid |-> uid_counter["pair"],
                                 data |-> <<v.response.data, v.context.data.summand>>],
                    context |-> v.context]
  OBVIOUS
<1>5. PICK n : n = Call(8, v)
  OBVIOUS
<1>6. Good(8, v) /\ n \in Nat
  BY <1>5, Others
<1>7. /\ v.context.uid \in Nat \ {0} /\ v.context.uid \in DOMAIN context_buffer["mac_cm"]
      /\ v.context.data = MACData(n) /\ context_buffer["mac_cm"][v.context.uid] = v.context.data
      /\ n < counter /\ v.response.data = n * (n + 1)
  <2>1. Message(8, v) = v.response
    BY <1>1, MessageIs
  <2>2. Context(8, v) = v.context
    BY <1>1 DEF Context
  <2>3. CallData(8, v) = v.context.data
    BY <1>1, <2>2 DEF CallData
  <2>4. Wanted(8, n) = n * (n + 1)
    BY DEF Wanted
  <2> QED BY <1>1, <1>5, <1>6, <2>1, <2>2, <2>3, <2>4 DEF Good
<1>8. /\ w.context = v.context /\ w.request.uid = uid_counter["pair"]
      /\ w.request.data = <<n * (n + 1), n + 2>>
  <2>1. v.context.data.summand = n + 2
    BY <1>7 DEF MACData
  <2> QED BY <1>4, <1>7, <2>1
<1>9. Grows
  BY <1>2, BuffersKept
<1>10. uid_counter["pair"] \in Nat \ {0}
  BY DEF Buffers
<1>11. Good(9, w)' /\ Call(9, w)' = n
  <2>1. Context(9, w)' = v.context
    BY <1>1, <1>8 DEF Context
  <2>2. CallData(9, w)' = MACData(n)
    BY <1>1, <1>7, <2>1 DEF CallData
  <2>3. Call(9, w)' = n
    BY <2>2 DEF Call, MACData
  <2>4. Message(9, w)' = w.request
    BY <1>1, MessageIs
  <2>5. Wanted(9, n) = <<n * (n + 1), n + 2>>
    BY DEF Wanted
  <2> QED BY <1>1, <1>2, <1>6, <1>7, <1>8, <1>10, <2>1, <2>2, <2>3, <2>4, <2>5 DEF Good
<1>12. Latest(9, n) = Latest(8, n)
  BY DEF Latest
<1>13. /\ Base' /\ Ordered' /\ OnPorts' /\ InEvents' /\ Unique'
       /\ \A m : m \in OpenCalls' <=> m \in OpenCalls
       /\ At(8)' = {} /\ \A k \in 1 .. 15 : k # 8 /\ k # 9 => At(k)' = At(k)
  <2>1. 8 \in 2 .. 14 /\ 8 + 1 = 9
    OBVIOUS
  <2> QED BY <1>1, <1>2, <1>3, <1>4, <1>5, <1>9, <1>11, <1>12, <2>1, MovedOn
<1>14. At(9)' = {w}
  <2>1. 8 \in 1 .. 15 /\ 9 \in 1 .. 15 /\ 8 # 9 /\ DOMAIN present = Triggers
    BY DEF Base
  <2> QED BY <1>3, <1>4, <2>1, SetsOne
<1>15. Fresh' /\ Buffers'
  <2>1. \A k \in Asks : k # 9 => At(k)' = At(k)
    BY <1>13 DEF Asks
  <2> QED BY <1>1, <1>2, <1>8, <1>14, <2>1, NewIsFresh
<1> QED BY <1>13, <1>15

LEMMA StepAnswer ==
  ASSUME IInv, mac_add_response_out, UNCHANGED counter
  PROVE  IInv' /\ \A m : m \in OpenCalls' <=> m \in OpenCalls
<1> USE DEF IInv
<1>1. /\ <<"add_cm", "response_out">> = Order[13] /\ <<"mac_cm", "response_in">> = Order[14]
      /\ 13 \in Tells /\ 14 \notin Asks \cup Tells
      /\ Cm(13) = "add_cm" /\ Cm(14) = "mac_cm" /\ 14 \in Ports
  BY Names DEF Asks, Tells, Cm, Ports
<1>2. /\ Turn(Order[13]) /\ UNCHANGED <<time, events, uid_counter, context_buffer, counter>>
      /\ \E v \in At(13) : Sets(Order[13], Order[14], MakeResponse(v.context, v.response.data))
  BY <1>1 DEF mac_add_response_out, OriginalResponse, At
<1>3. PICK v \in At(13) : Sets(Order[13], Order[14], MakeResponse(v.context, v.response.data))
  BY <1>2
<1>4. PICK w : w = MakeResponse(v.context, v.response.data)
  OBVIOUS
<1>5. PICK n : n = Call(13, v)
  OBVIOUS
<1>6. Good(13, v) /\ n \in Nat
  BY <1>5, Others
<1>7. /\ v.context.uid \in Nat \ {0} /\ v.context.uid \in DOMAIN context_buffer["mac_cm"]
      /\ v.context.data = MACData(n) /\ context_buffer["mac_cm"][v.context.uid] = v.context.data
      /\ n < counter /\ v.response.data = Wanted(14, n)
  <2>1. Message(13, v) = v.response
    BY <1>1, MessageIs
  <2>2. Context(13, v) = v.context
    BY <1>1 DEF Context
  <2>3. CallData(13, v) = v.context.data
    BY <1>1, <2>2 DEF CallData
  <2>4. Wanted(13, n) = Wanted(14, n)
    BY DEF Wanted
  <2> QED BY <1>1, <1>5, <1>6, <2>1, <2>2, <2>3, <2>4 DEF Good
<1>8. w.uid = v.context.uid /\ w.data = Wanted(14, n)
  BY <1>4, <1>7 DEF MakeResponse
<1>9. Grows
  BY <1>2, BuffersKept
<1>10. Good(14, w)' /\ Call(14, w)' = n
  <2>1. Context(14, w)' = MACData(n)
    BY <1>1, <1>2, <1>7, <1>8 DEF Context
  <2>2. CallData(14, w)' = MACData(n)
    BY <1>1, <2>1 DEF CallData
  <2>3. Call(14, w)' = n
    BY <2>2 DEF Call, MACData
  <2>4. Message(14, w)' = w
    BY <1>1, MessageIs
  <2> QED BY <1>1, <1>2, <1>6, <1>7, <1>8, <2>1, <2>2, <2>3, <2>4 DEF Good
<1>11. Latest(14, n) = Latest(13, n)
  BY DEF Latest
<1>12. /\ Base' /\ Ordered' /\ OnPorts' /\ InEvents' /\ Unique'
       /\ \A m : m \in OpenCalls' <=> m \in OpenCalls
       /\ At(13)' = {} /\ \A k \in 1 .. 15 : k # 13 /\ k # 14 => At(k)' = At(k)
  <2>1. 13 \in 2 .. 14 /\ 13 + 1 = 14
    OBVIOUS
  <2> QED BY <1>1, <1>2, <1>3, <1>4, <1>5, <1>9, <1>10, <1>11, <2>1, MovedOn
<1>13. Fresh'
  <2>1. \A k \in Asks : k \in 1 .. 15 /\ k # 14 /\ k # 13
    BY DEF Asks
  <2>2. 13 \in 1 .. 15 /\ 13 + 1 = 14
    OBVIOUS
  <2> QED BY <1>1, <1>2, <1>12, <2>1, <2>2, StillFresh
<1>14. Buffers'
  BY <1>2 DEF Buffers
<1> QED BY <1>12, <1>13, <1>14

LEMMA StepIssue ==
  ASSUME IInv, client_t
  PROVE  /\ IInv' /\ counter' = counter + 1 /\ UNCHANGED printed
         /\ \A m : m \in OpenCalls' <=> m = counter \/ m \in OpenCalls
<1> USE DEF IInv
<1>1. /\ Timer = Order[1] /\ <<"mac_cm", "request_in">> = Order[2]
      /\ 2 \in Asks /\ 2 \notin Tells /\ TypeOf(2) = "mac" /\ Cm(2) = "mac_cm" /\ 2 \in Ports
  BY Names DEF Asks, Tells, Cm, Ports, TypeOf
<1>2. /\ Turn(Order[1]) /\ UNCHANGED <<time, events, context_buffer, printed>>
      /\ uid_counter' = [uid_counter EXCEPT !["mac"] = Counted(@)]
      /\ counter' = counter + 1
      /\ Sets(Order[1], Order[2],
              [request |-> [uid |-> uid_counter["mac"], data |-> MACData(counter)],
               context |-> MACData(counter)])
  BY <1>1 DEF client_t, Counts, NewRequest
<1>3. PICK w : w = [request |-> [uid |-> uid_counter["mac"], data |-> MACData(counter)],
                    context |-> MACData(counter)]
  OBVIOUS
<1>4. PICK n : n = counter
  OBVIOUS
<1>5. At(1) # {} /\ n \in Nat /\ counter < Calls /\ time = n * Period /\ counter \in 0 .. Calls
  <2>1. At(1) # {}
    BY <1>2, InOrder
  <2> QED BY <1>4, <2>1 DEF Base
<1>6. counter' \in 0 .. Calls /\ counter' \in Nat /\ counter' = n + 1
  BY <1>2, <1>4, <1>5, TimerAssumption
<1>7. Grows
  BY <1>2, <1>5 DEF Grows
<1>8. \A j \in 2 .. 15 : \A u \in At(j) : Call(j, u) # n
  BY <1>4, <1>5 DEF OnPorts, Good
<1>9. \A e \in events : EventCall(e) # n
  BY <1>4, <1>5 DEF InEvents, Good, EventCall
<1>10. uid_counter["mac"] \in Nat \ {0}
  BY DEF Buffers
<1>11. Good(2, w)' /\ Call(2, w)' = n
  <2>1. Context(2, w)' = MACData(n)
    BY <1>1, <1>3, <1>4 DEF Context
  <2>2. CallData(2, w)' = MACData(n)
    BY <1>1, <2>1 DEF CallData
  <2>3. Call(2, w)' = n
    BY <2>2 DEF Call, MACData
  <2>4. Message(2, w)' = w.request
    BY <1>1, MessageIs
  <2>5. w.request.uid = uid_counter["mac"] /\ w.request.data = Wanted(2, n)
    BY <1>3, <1>4 DEF Wanted
  <2> QED BY <1>1, <1>5, <1>6, <1>10, <2>1, <2>2, <2>3, <2>4, <2>5 DEF Good
<1>12. time <= Latest(2, n)
  <2>1. n * Period \in Nat
    BY <1>5, TimerAssumption
  <2> DEFINE t == n * Period
  <2>2. t \in Nat /\ time = t
    BY <1>5, <2>1
  <2>3. Latest(2, n) = t + 0
    BY DEF Latest
  <2> HIDE DEF t
  <2> QED BY <2>2, <2>3
<1>13. /\ Base' /\ Ordered' /\ OnPorts' /\ InEvents' /\ Unique'
       /\ \A m : m \in OpenCalls' <=> m = n \/ m \in OpenCalls
  <2>1. 1 \in 1 .. 14 /\ 1 + 1 = 2
    OBVIOUS
  <2>2. \A j \in 2 .. 15 : \A u \in At(j) : Call(j, u) = n <=> j = 1
    BY <1>8
  <2> QED BY <1>1, <1>2, <1>3, <1>5, <1>6, <1>7, <1>9, <1>11, <1>12, <2>1, <2>2, Handed
<1>14. At(2)' = {w} /\ \A k \in 1 .. 15 : k # 1 /\ k # 2 => At(k)' = At(k)
  <2>1. 1 \in 1 .. 15 /\ 2 \in 1 .. 15 /\ 1 # 2 /\ DOMAIN present = Triggers
    BY DEF Base
  <2> QED BY <1>2, <1>3, <2>1, SetsOne
<1>15. Fresh' /\ Buffers'
  <2>1. \A k \in Asks : k # 2 => At(k)' = At(k)
    BY <1>14 DEF Asks
  <2>2. w.request.uid = uid_counter["mac"]
    BY <1>3
  <2> QED BY <1>1, <1>2, <1>14, <2>1, <2>2, NewIsFresh
<1> QED BY <1>2, <1>4, <1>13, <1>15

\* What a reaction leaves that reads the value at trigger i and sets no port.
LEMMA Taken ==
  ASSUME IInv, NEW i \in 2 .. 15, Turn(Order[i]), SetsNothing(Order[i]),
         UNCHANGED <<time, counter, uid_counter, context_buffer>>
  PROVE  /\ DOMAIN present' = Triggers /\ At(i)' = {}
         /\ \A k \in 1 .. 15 : k # i => At(k)' = At(k)
         /\ Buffers' /\ Fresh' /\ Ordered' /\ OnPorts'
         /\ \A k \in 2 .. 15 : \A v : Call(k, v)' = Call(k, v) /\ (Good(k, v)' <=> Good(k, v))
         /\ \A e : EventCall(e)' = EventCall(e)
<1> USE DEF IInv
<1>1. /\ DOMAIN present' = Triggers /\ At(i)' = {}
      /\ \A k \in 1 .. 15 : k # i => At(k)' = At(k)
  <2>1. i \in 1 .. 15 /\ DOMAIN present = Triggers
    BY DEF Base
  <2> QED BY <2>1, SetsNone
<1>2. \A k \in 2 .. 15 : \A v : Call(k, v)' = Call(k, v) /\ (Good(k, v)' <=> Good(k, v))
  BY DEF Call, CallData, Context, Good
<1>3. \A e : EventCall(e)' = EventCall(e)
  BY <1>2 DEF EventCall
<1>4. Buffers'
  BY DEF Buffers
<1>5. Fresh'
  <2>1. \A k \in Asks : k \in 1 .. 15
    BY DEF Asks
  <2> QED BY <1>1, <2>1 DEF Fresh
<1>6. Ordered'
  <2>1. \A k \in Ports : k \in 1 .. 15 /\ \A j \in 1 .. k - 1 : j \in 1 .. 15
    BY DEF Ports
  <2> QED BY <1>1, <2>1 DEF Ordered
<1>7. OnPorts'
  <2> SUFFICES ASSUME NEW k \in 2 .. 15, NEW v \in At(k)'
               PROVE  Good(k, v)' /\ time <= Latest(k, Call(k, v)')
    BY DEF OnPorts, Latest
  <2>1. v \in At(k)
    BY <1>1
  <2> QED BY <1>2, <2>1 DEF OnPorts
<1> QED BY <1>1, <1>2, <1>3, <1>4, <1>5, <1>6, <1>7

LEMMA StepPrint ==
  ASSUME IInv, client_response
  PROVE  /\ IInv' /\ UNCHANGED counter
         /\ \E n \in OpenCalls :
              /\ \A m : m \in OpenCalls' <=> m \in OpenCalls /\ m # n
              /\ n \in Nat
              /\ printed' = {[context |-> MACData(n), data |-> n * (n + 1) + (n + 2)]}
<1> USE DEF IInv
<1>1. <<"mac_cm", "response_out">> = Order[15] /\ 15 \in Tells /\ Cm(15) = "mac_cm"
  BY Names DEF Tells, Cm
<1>2. /\ Turn(Order[15]) /\ SetsNothing(Order[15])
      /\ UNCHANGED <<time, events, uid_counter, context_buffer, counter>>
      /\ \E v \in At(15) : printed' = {[context |-> v.context, data |-> v.response.data]}
  BY <1>1 DEF client_response, At
<1>3. PICK v \in At(15) : printed' = {[context |-> v.context, data |-> v.response.data]}
  BY <1>2
<1>4. PICK n : n = Call(15, v)
  OBVIOUS
<1>5. 15 \in 2 .. 15 /\ 15 \in 1 .. 15
  OBVIOUS
<1>6. Good(15, v) /\ n \in Nat
  BY <1>4, <1>5 DEF OnPorts, Good
<1>7. v.context = MACData(n) /\ v.response.data = n * (n + 1) + (n + 2)
  <2>1. Message(15, v) = v.response
    BY <1>1, MessageIs
  <2>2. CallData(15, v) = v.context
    BY <1>1 DEF CallData, Context
  <2>3. Wanted(15, n) = n * (n + 1) + (n + 2)
    BY DEF Wanted
  <2> QED BY <1>4, <1>6, <2>1, <2>2, <2>3 DEF Good
<1>8. /\ DOMAIN present' = Triggers /\ At(15)' = {}
      /\ \A k \in 1 .. 15 : k # 15 => At(k)' = At(k)
      /\ Buffers' /\ Fresh' /\ Ordered' /\ OnPorts'
      /\ \A k \in 2 .. 15 : \A u : Call(k, u)' = Call(k, u) /\ (Good(k, u)' <=> Good(k, u))
      /\ \A e : EventCall(e)' = EventCall(e)
  BY <1>2, <1>5, Taken
<1>9. Base'
  BY <1>2, <1>8 DEF Base
<1>10. InEvents'
  BY <1>2, <1>8 DEF InEvents, Latest
<1>11. Unique'
  <2>1. \A k \in 1 .. 15 : \A u \in At(k)' : u \in At(k)
    BY <1>8
  <2> QED BY <1>2, <1>8, <2>1 DEF Unique
<1>12. n \in OpenCalls
  BY <1>4, <1>5, OpenIs
<1>13. ASSUME NEW m PROVE m \in OpenCalls' <=> m \in OpenCalls /\ m # n
  <2>1. ASSUME m \in OpenCalls' PROVE m \in OpenCalls /\ m # n
    <3>1. CASE \E e \in events : EventCall(e) = m
      BY <1>4, <1>5, <3>1, OpenIs DEF Unique
    <3>2. CASE \E k \in 2 .. 15 : \E u \in At(k)' : Call(k, u) = m
      <4>0. PICK k \in 2 .. 15 : \E u \in At(k)' : Call(k, u) = m
        BY <3>2
      <4>1. PICK u \in At(k)' : Call(k, u) = m
        BY <4>0
      <4>2. k # 15 /\ u \in At(k)
        BY <1>8, <4>1
      <4> QED BY <1>4, <1>5, <4>1, <4>2, OpenIs DEF Unique
    <3> QED BY <1>2, <1>8, <1>10, <2>1, <3>1, <3>2, OpenIsAfter
  <2>2. ASSUME m \in OpenCalls, m # n PROVE m \in OpenCalls'
    <3>1. CASE \E e \in events : EventCall(e) = m
      BY <1>2, <1>8, <1>10, <3>1, OpenIsAfter
    <3>2. CASE \E k \in 2 .. 15 : \E u \in At(k) : Call(k, u) = m
      <4>0. PICK k \in 2 .. 15 : \E u \in At(k) : Call(k, u) = m
        BY <3>2
      <4>1. PICK u \in At(k) : Call(k, u) = m
        BY <4>0
      <4>2. k # 15
        BY <1>4, <2>2, <4>1 DEF Base
      <4>3. u \in At(k)' /\ Call(k, u)' = m
        BY <1>8, <4>1, <4>2
      <4> QED BY <1>10, <4>3, OpenIsAfter
    <3> QED BY <2>2, <3>1, <3>2, OpenIs
  <2> QED BY <2>1, <2>2
<1> QED BY <1>2, <1>3, <1>6, <1>7, <1>8, <1>9, <1>10, <1>11, <1>12, <1>13

\* The event for call n that takes the place of another call's.
LEMMA StepDelay ==
  ASSUME IInv, NEW i \in {5, 10}, NEW s \in Services, i = 5 <=> s = "multiplier",
         service_request(s), UNCHANGED counter
  PROVE  /\ IInv' /\ \A m : m \in OpenCalls' => m \in OpenCalls
         /\ \A m : m \in OpenCalls /\ m \notin OpenCalls' =>
              \E e \in events, f \in events' :
                /\ EventCall(e) = m /\ e.action = Order[i + 1]
                /\ f.action = e.action /\ f.time = e.time /\ f \notin events
         /\ \A l, m : l \in OpenCalls /\ l \notin OpenCalls'
                       /\ m \in OpenCalls /\ m \notin OpenCalls' => l = m
<1> USE DEF IInv
<1>1. /\ <<s, "request">> = Order[i] /\ <<s, "request_queue">> = Order[i + 1]
      /\ i \in 2 .. 14 /\ i + 1 \in {6, 11} /\ i + 1 \notin Asks \cup Tells
      /\ i \notin Asks \cup Tells /\ Cm(i + 1) = Cm(i)
  BY Names DEF Asks, Tells, Cm, Services
<1>2. /\ Turn(Order[i]) /\ UNCHANGED <<time, uid_counter, context_buffer, counter>>
      /\ SetsNothing(Order[i])
      /\ \E v \in At(i), d \in Delays : events' = Scheduled(Order[i + 1], v, d)
  BY <1>1 DEF service_request, At
<1>3. PICK v \in At(i), d \in Delays : events' = Scheduled(Order[i + 1], v, d)
  BY <1>2
<1>4. PICK e : e = [action |-> Order[i + 1], time |-> time + d, value |-> v]
  OBVIOUS
<1>5. e.action = Order[i + 1] /\ e.time = time + d /\ e.value = v
  BY <1>4
<1>6. events' = {f \in events : f.action = e.action => f.time # e.time} \cup {e}
  BY <1>3, <1>4 DEF Scheduled
<1>7. PICK n : n = Call(i, v)
  OBVIOUS
<1>8. /\ \A j \in 2 .. 15 : \A u \in At(j) : Call(j, u) = n <=> j = i
      /\ \A f \in events : EventCall(f) # n
      /\ Good(i, v) /\ time <= Latest(i, n) /\ n \in Nat
      /\ n \in OpenCalls
  BY <1>1, <1>7, Others
<1>9. d \in Nat /\ 0 < d /\ d <= MaxDelay /\ time \in Nat /\ MaxDelay \in Nat
  BY DelayAssumption DEF Delays, Base
<1>10. /\ DOMAIN present' = Triggers /\ At(i)' = {}
       /\ \A k \in 1 .. 15 : k # i => At(k)' = At(k)
       /\ Buffers' /\ Fresh' /\ Ordered' /\ OnPorts'
       /\ \A k \in 2 .. 15 : \A u : Call(k, u)' = Call(k, u) /\ (Good(k, u)' <=> Good(k, u))
       /\ \A f : EventCall(f)' = EventCall(f)
  BY <1>1, <1>2, Taken
<1>11. Good(i + 1, v) /\ Call(i + 1, v) = n
  <2>1. Context(i + 1, v) = Context(i, v)
    BY <1>1 DEF Context
  <2>2. CallData(i + 1, v) = CallData(i, v)
    BY <1>1, <2>1 DEF CallData
  <2>3. Call(i + 1, v) = n
    BY <1>7, <2>2 DEF Call
  <2>4. Message(i + 1, v) = v /\ Message(i, v) = v
    BY <1>1, MessageIs
  <2>5. Wanted(i + 1, n) = Wanted(i, n)
    BY DEF Wanted
  <2> QED BY <1>1, <1>7, <1>8, <2>1, <2>2, <2>3, <2>4, <2>5 DEF Good
<1>12. e.time <= Latest(i + 1, n) /\ time <= e.time /\ e.time \in Nat
  <2> DEFINE t == n * Period
  <2>1. t \in Nat
    BY <1>8, TimerAssumption
  <2>2. /\ Latest(i, n) = t + (IF i < 6 THEN 0 ELSE IF i < 11 THEN MaxDelay ELSE 2 * MaxDelay)
        /\ Latest(i + 1, n) = t + (IF i + 1 < 6 THEN 0 ELSE IF i + 1 < 11 THEN MaxDelay ELSE 2 * MaxDelay)
    BY DEF Latest
  <2> HIDE DEF t
  <2> QED BY <1>5, <1>8, <1>9, <2>1, <2>2
<1>13. \A k \in {6, 11} : e.action = Order[k] => k = i + 1
  <2>1. i + 1 \in 1 .. 15 /\ \A k \in {6, 11} : k \in 1 .. 15
    OBVIOUS
  <2> QED BY <1>5, <2>1, Distinct
<1>14. EventCall(e) = n
  <2>1. Order[6] # Order[11]
    BY Distinct
  <2> QED BY <1>1, <1>5, <1>11, <2>1 DEF EventCall
<1>15. \A f \in events' :
        \/ f = e
        \/ f \in events /\ ~ (f.action = e.action /\ f.time = e.time)
  <2>1. \A f \in events' : f \in {g \in events : g.action = e.action => g.time # e.time} \/ f = e
    BY <1>6
  <2> QED BY <2>1
<1>16. InEvents'
  <2> SUFFICES ASSUME NEW f \in events'
        PROVE  /\ f.action \in {Order[6], Order[11]} /\ f.time \in Nat /\ time <= f.time
               /\ \A k \in {6, 11} : f.action = Order[k] =>
                    Good(k, f.value)' /\ f.time <= Latest(k, Call(k, f.value)')
    BY <1>2 DEF InEvents, Latest
  <2>1. CASE f = e
    BY <1>1, <1>5, <1>10, <1>11, <1>12, <1>13, <2>1
  <2>2. CASE f \in events
    BY <1>10, <2>2 DEF InEvents
  <2> QED BY <1>15, <2>1, <2>2
<1>17. Base'
  <2>1. \A f, g \in events' : f.action = g.action /\ f.time = g.time => f = g
    BY <1>15 DEF Base
  <2> QED BY <1>1, <1>2, <1>10, <2>1 DEF Base
<1>18. Unique'
  <2>1. \A k \in 2 .. 15 : \A u \in At(k)' : u \in At(k) /\ k # i
    BY <1>10
  <2>2. \A k \in 2 .. 15 : \A u \in At(k)' : Call(k, u) # n
    BY <1>8, <2>1
  <2>3. \A j, k \in 2 .. 15 : \A u \in At(j)', w \in At(k)' : Call(j, u)' = Call(k, w)' => j = k
    BY <1>10, <2>1 DEF Unique
  <2>4. \A f \in events' : \A k \in 2 .. 15 : \A u \in At(k)' : Call(k, u)' # EventCall(f)'
    BY <1>10, <1>14, <1>15, <2>1, <2>2 DEF Unique
  <2>5. \A f, g \in events' : EventCall(f)' = EventCall(g)' => f = g
    BY <1>8, <1>10, <1>14, <1>15 DEF Unique
  <2> QED BY <2>3, <2>4, <2>5 DEF Unique
<1>19. ASSUME NEW m, m \in OpenCalls' PROVE m \in OpenCalls
  <2>1. CASE \E f \in events' : EventCall(f) = m
    BY <1>8, <1>14, <1>15, <2>1, OpenIs
  <2>2. CASE \E k \in 2 .. 15 : \E u \in At(k)' : Call(k, u) = m
    <3>1. \A k \in 2 .. 15 : \A u \in At(k)' : u \in At(k)
      BY <1>10
    <3> QED BY <2>2, <3>1, OpenIs
  <2> QED BY <1>10, <1>16, <1>19, <2>1, <2>2, OpenIsAfter
<1>20. ASSUME NEW m, m \in OpenCalls, m \notin OpenCalls'
       PROVE  \E f \in events : /\ EventCall(f) = m /\ f.action = e.action /\ f.time = e.time
                                /\ f # e
  <2>1. m # n
    BY <1>6, <1>10, <1>14, <1>16, <1>20, OpenIsAfter
  <2>2. ASSUME NEW k \in 2 .. 15, NEW u \in At(k), Call(k, u) = m PROVE FALSE
    <3>1. k # i
      BY <1>8, <2>1, <2>2
    <3>2. u \in At(k)' /\ Call(k, u)' = m
      BY <1>10, <2>2, <3>1
    <3> QED BY <1>16, <1>20, <3>2, OpenIsAfter
  <2>3. PICK f \in events : EventCall(f) = m
    BY <1>20, <2>2, OpenIs
  <2>4. f \notin events'
    BY <1>10, <1>16, <1>20, <2>3, OpenIsAfter
  <2> QED BY <1>6, <2>3, <2>4
<1>21. ASSUME NEW m, m \in OpenCalls, m \notin OpenCalls'
       PROVE  \E f \in events, g \in events' :
                /\ EventCall(f) = m /\ f.action = Order[i + 1]
                /\ g.action = f.action /\ g.time = f.time /\ g \notin events
  <2>1. PICK f \in events : /\ EventCall(f) = m /\ f.action = e.action /\ f.time = e.time
                            /\ f # e
    BY <1>20, <1>21
  <2>2. e \notin events
    BY <2>1 DEF Base
  <2>3. e \in events'
    BY <1>6
  <2> QED BY <1>5, <2>1, <2>2, <2>3
<1>22. ASSUME NEW l, NEW m, l \in OpenCalls, l \notin OpenCalls', m \in OpenCalls, m \notin OpenCalls'
       PROVE  l = m
  <2>1. PICK f \in events : EventCall(f) = l /\ f.action = e.action /\ f.time = e.time
    BY <1>20, <1>22
  <2>2. PICK g \in events : EventCall(g) = m /\ g.action = e.action /\ g.time = e.time
    BY <1>20, <1>22
  <2>3. f = g
    BY <2>1, <2>2 DEF Base
  <2> QED BY <2>1, <2>2, <2>3
<1> QED BY <1>10, <1>16, <1>17, <1>18, <1>19, <1>21, <1>22

\* The earliest events and the timer's firing become present; no call is lost.
LEMMA StepAdvance ==
  ASSUME IInv, AdvanceTime
  PROVE  /\ IInv' /\ UNCHANGED <<counter, printed>>
         /\ \A m : m \in OpenCalls' <=> m \in OpenCalls
<1> USE DEF IInv
<1> DEFINE T == Firings \cup {e.time : e \in events}
           Due(p) == {e.value : e \in {f \in events : f.time = time' /\ f.action = p}}
<1>1. /\ present = Quiet /\ T # {}
      /\ time' = CHOOSE t \in T : \A u \in T : t <= u
      /\ UNCHANGED <<uid_counter, context_buffer, counter, printed>>
  BY DEF AdvanceTime, EnterNext
<1>2. /\ present' = [p \in Triggers |-> IF p = Timer THEN {0} \cap {time' - f : f \in Firings}
                                        ELSE Due(p)]
      /\ events' = {e \in events : e.time # time'}
  BY DEF AdvanceTime, EnterNext
<1>3. \A k \in 1 .. 15 : At(k) = {}
  BY <1>1, TriggersAre DEF Quiet, At
<1>4. Firings \subseteq Nat
  BY TimerAssumption DEF Firings, Base
<1>5. \A f \in Firings : f = counter * Period /\ counter < Calls
  BY TimerAssumption DEF Firings, Base
<1>6. \A e \in events : e.time \in Nat
  BY DEF InEvents
<1>7. time' \in T /\ \A u \in T : time' <= u
  <2>1. T \subseteq Nat
    BY <1>4, <1>6
  <2> HIDE DEF T
  <2>2. PICK t \in T : \A u \in T : t <= u
    BY <1>1, <2>1, LeastNatural
  <2> QED BY <1>1, <2>2
<1>8. time' \in Nat /\ \A e \in events : time' <= e.time
  BY <1>4, <1>6, <1>7
<1> HIDE DEF T
<1>9. DOMAIN present' = Triggers
  BY <1>2
<1>10. \A v \in At(1)' : v = 0 /\ time' = counter * Period /\ counter < Calls
  <2>1. At(1)' = {0} \cap {time' - f : f \in Firings}
    <3>1. Order[1] = Timer /\ Timer \in Triggers
      BY TriggersAre, Names
    <3>2. present'[Timer] = {0} \cap {time' - f : f \in Firings}
      BY <1>2, <3>1
    <3> QED BY <3>1, <3>2 DEF At
  <2>2. \A f \in Firings : time' - f = 0 => time' = f
    <3>1. \A f, t \in Nat : t - f = 0 => t = f
      OBVIOUS
    <3>2. \A f \in Firings : f \in Nat
      BY <1>4
    <3> QED BY <1>8, <3>1, <3>2
  <2>3. \A v \in At(1)' : v = 0 /\ \E f \in Firings : time' - f = 0
    BY <2>1
  <2> QED BY <1>5, <2>2, <2>3
<1>11. \A k \in 2 .. 15 : At(k)' = Due(Order[k])
  <2>1. \A k \in 2 .. 15 : Order[k] \in Triggers /\ Order[k] # Timer
    BY TriggersAre, Distinct, Names
  <2> QED BY <1>2, <2>1 DEF At
<1>12. \A k \in 2 .. 15 : \A v \in At(k)' :
         /\ k \in {6, 11}
         /\ \E e \in events : e.action = Order[k] /\ e.time = time' /\ e.value = v
  <2> SUFFICES ASSUME NEW k \in 2 .. 15, NEW v \in At(k)'
        PROVE  /\ k \in {6, 11}
               /\ \E e \in events : e.action = Order[k] /\ e.time = time' /\ e.value = v
    OBVIOUS
  <2>0. v \in Due(Order[k])
    BY <1>11
  <2>1. PICK e \in events : e.action = Order[k] /\ e.time = time' /\ e.value = v
    BY <2>0
  <2>2. Order[k] = Order[6] \/ Order[k] = Order[11]
    BY <2>1 DEF InEvents
  <2>3. k = 6 \/ k = 11
    <3>1. k \in 1 .. 15 /\ 6 \in 1 .. 15 /\ 11 \in 1 .. 15
      OBVIOUS
    <3> QED BY <2>2, <3>1, Distinct
  <2> QED BY <2>1, <2>3
<1> HIDE DEF Due
<1>13. \A k \in 2 .. 15 : \A v : Call(k, v)' = Call(k, v) /\ (Good(k, v)' <=> Good(k, v))
  BY <1>1 DEF Call, CallData, Context, Good
<1>14. \A e : EventCall(e)' = EventCall(e)
  BY <1>13 DEF EventCall
<1>15. \A k \in {6, 11} : \A e \in events : e.action = Order[k] =>
         Call(k, e.value) = EventCall(e)
  <2>1. Order[6] # Order[11]
    BY Distinct
  <2> QED BY <2>1 DEF EventCall
<1>16. Base'
  <2>1. \A k \in 1 .. 15 : \A v, w \in At(k)' : v = w
    <3> SUFFICES ASSUME NEW k \in 1 .. 15, NEW v \in At(k)', NEW w \in At(k)' PROVE v = w
      OBVIOUS
    <3>1. CASE k = 1
      BY <1>10, <3>1
    <3>2. CASE k # 1
      <4>0. k \in 2 .. 15
        BY <3>2
      <4>1. PICK e \in events : e.action = Order[k] /\ e.time = time' /\ e.value = v
        BY <1>12, <4>0
      <4>2. PICK f \in events : f.action = Order[k] /\ f.time = time' /\ f.value = w
        BY <1>12, <4>0
      <4>3. e = f
        BY <4>1, <4>2 DEF Base
      <4> QED BY <4>1, <4>2, <4>3
    <3> QED BY <3>1, <3>2
  <2>2. counter' \in 0 .. Calls /\ \A e, f \in events' : e.action = f.action /\ e.time = f.time => e = f
    BY <1>1, <1>2 DEF Base
  <2>3. \A v \in At(1)' : v = 0 /\ time' = counter' * Period /\ counter' < Calls
    BY <1>1, <1>10
  <2> QED BY <1>8, <1>9, <2>1, <2>2, <2>3 DEF Base
<1>17. Buffers'
  BY <1>1 DEF Buffers
<1>18. \A k \in Ports : At(k)' = {}
  <2>1. \A k \in Ports : k \in 2 .. 15 /\ k \notin {6, 11}
    BY DEF Ports
  <2> QED BY <1>12, <2>1
<1>19. Fresh' /\ Ordered'
  <2>1. \A k \in Asks : k \in Ports
    BY DEF Asks, Ports
  <2> QED BY <1>18, <2>1 DEF Fresh, Ordered
<1>20. OnPorts'
  <2> SUFFICES ASSUME NEW k \in 2 .. 15, NEW v \in At(k)'
               PROVE  Good(k, v)' /\ time' <= Latest(k, Call(k, v)')
    BY DEF OnPorts, Latest
  <2>1. PICK e \in events : e.action = Order[k] /\ e.time = time' /\ e.value = v
    BY <1>12
  <2>2. k \in {6, 11}
    BY <1>12
  <2>3. Good(k, v) /\ time' <= Latest(k, Call(k, v))
    BY <2>1, <2>2 DEF InEvents
  <2> QED BY <1>13, <2>3
<1>21. InEvents'
  <2> SUFFICES ASSUME NEW e \in events'
        PROVE  /\ e.action \in {Order[6], Order[11]} /\ e.time \in Nat /\ time' <= e.time
               /\ \A k \in {6, 11} : e.action = Order[k] =>
                    Good(k, e.value)' /\ e.time <= Latest(k, Call(k, e.value)')
    BY DEF InEvents, Latest
  <2>1. e \in events
    BY <1>2
  <2> QED BY <1>8, <1>13, <2>1 DEF InEvents
<1>22. Unique'
  <2>1. ASSUME NEW j \in 2 .. 15, NEW k \in 2 .. 15, NEW v \in At(j)', NEW w \in At(k)',
               Call(j, v)' = Call(k, w)'
        PROVE  j = k
    <3>1. PICK e \in events : e.action = Order[j] /\ e.time = time' /\ e.value = v
      BY <1>12
    <3>2. PICK f \in events : f.action = Order[k] /\ f.time = time' /\ f.value = w
      BY <1>12
    <3>3. j \in {6, 11} /\ k \in {6, 11}
      BY <1>12
    <3>4. EventCall(e) = EventCall(f)
      BY <1>13, <1>15, <2>1, <3>1, <3>2, <3>3
    <3>5. Order[j] = Order[k]
      BY <3>1, <3>2, <3>4 DEF Unique
    <3>6. j \in 1 .. 15 /\ k \in 1 .. 15
      OBVIOUS
    <3> QED BY <3>5, <3>6, Distinct
  <2>2. ASSUME NEW e \in events', NEW k \in 2 .. 15, NEW v \in At(k)', Call(k, v)' = EventCall(e)'
        PROVE  FALSE
    <3>1. PICK f \in events : f.action = Order[k] /\ f.time = time' /\ f.value = v
      BY <1>12
    <3>2. k \in {6, 11}
      BY <1>12
    <3>3. EventCall(f) = EventCall(e)
      BY <1>13, <1>14, <1>15, <2>2, <3>1, <3>2
    <3>4. e \in events /\ e.time # time'
      BY <1>2
    <3> QED BY <3>1, <3>3, <3>4 DEF Unique
  <2>3. \A e, f \in events' : EventCall(e)' = EventCall(f)' => e = f
    BY <1>2, <1>14 DEF Unique
  <2> QED BY <2>1, <2>2, <2>3 DEF Unique
<1>23. ASSUME NEW m PROVE m \in OpenCalls' <=> m \in OpenCalls
  <2>1. ASSUME m \in OpenCalls' PROVE m \in OpenCalls
    <3>1. CASE \E e \in events' : EventCall(e)' = m
      BY <1>2, <1>14, <3>1, OpenIs
    <3>2. CASE \E k \in 2 .. 15 : \E u \in At(k)' : Call(k, u)' = m
      <4>0. PICK k \in 2 .. 15 : \E u \in At(k)' : Call(k, u)' = m
        BY <3>2
      <4>1. PICK u \in At(k)' : Call(k, u)' = m
        BY <4>0
      <4>2. PICK e \in events : e.action = Order[k] /\ e.value = u
        BY <1>12
      <4>3. EventCall(e) = m
        BY <1>12, <1>13, <1>15, <4>1, <4>2
      <4> QED BY <4>3, OpenIs
    <3> QED BY <1>21, <2>1, <3>1, <3>2, OpenIsAfter
  <2>2. ASSUME m \in OpenCalls PROVE m \in OpenCalls'
    <3>1. PICK e \in events : EventCall(e) = m
      BY <1>3, <2>2, OpenIs
    <3>2. CASE e.time # time'
      BY <1>2, <1>14, <1>21, <3>1, <3>2, OpenIsAfter
    <3>3. CASE e.time = time'
      <4>1. PICK k \in {6, 11} : e.action = Order[k]
        BY DEF InEvents
      <4>2. e.value \in At(k)'
        BY <1>11, <3>3, <4>1 DEF Due
      <4>3. Call(k, e.value)' = m
        BY <1>13, <1>15, <3>1, <4>1
      <4>4. k \in 2 .. 15
        OBVIOUS
      <4> QED BY <1>21, <4>2, <4>3, <4>4, OpenIsAfter
    <3> QED BY <3>2, <3>3
  <2> QED BY <2>1, <2>2
<1> QED BY <1>1, <1>16, <1>17, <1>19, <1>20, <1>21, <1>22, <1>23

-----------------------------------------------------------------------------
(* The specification *)

\* What a step does to the calls that are open.
Silent == OpenCalls' = OpenCalls /\ UNCHANGED <<counter, printed>>

Issued == OpenCalls' = OpenCalls \cup {counter} /\ counter' = counter + 1 /\ UNCHANGED printed

Answered(n) ==
  /\ client_response /\ n \in OpenCalls /\ n \in Nat
  /\ OpenCalls' = OpenCalls \ {n} /\ UNCHANGED counter
  /\ printed' = {[context |-> MACData(n), data |-> n * (n + 1) + (n + 2)]}

Overwritten ==
  /\ OpenCalls' \subseteq OpenCalls /\ UNCHANGED <<counter, printed>>
  /\ \A l, m \in OpenCalls \ OpenCalls' : l = m
  /\ \A m \in OpenCalls \ OpenCalls' :
       \E e \in events, f \in events' :
         /\ CallAt(e.action, e.value) = m
         /\ f.action = e.action /\ f.time = e.time /\ f \notin events

LEMMA InitIInv == Init => IInv
<1> SUFFICES ASSUME Init PROVE IInv
  OBVIOUS
<1>1. /\ time = 0 /\ events = {} /\ counter = 0
      /\ present = [Quiet EXCEPT ![Timer] = {0}]
      /\ uid_counter = [mac |-> 1, pair |-> 1]
      /\ context_buffer = [cm \in Managers |-> [u \in {} |-> {}]]
  BY DEF Init, ContextInit
<1>2. DOMAIN present = Triggers
  BY <1>1 DEF Quiet
<1>3. \A k \in 2 .. 15 : At(k) = {}
  <2>1. \A k \in 2 .. 15 : Order[k] \in Triggers /\ Order[k] # Timer
    BY TriggersAre, Distinct, Names
  <2> QED BY <1>1, <2>1 DEF At, Quiet
<1>4. At(1) \subseteq {0}
  BY <1>1, Names, TriggersAre DEF At, Quiet
<1>5. \A k \in Ports \cup Asks : k \in 2 .. 15
  BY DEF Ports, Asks
<1>6. Fresh /\ Ordered /\ OnPorts
  BY <1>3, <1>5 DEF Fresh, Ordered, OnPorts
<1>7. InEvents /\ Unique
  BY <1>1, <1>3 DEF InEvents, Unique
<1>8. Buffers
  <2>1. uid_counter \in [{"mac", "pair"} -> Nat \ {0}]
    BY <1>1
  <2>2. \A cm \in Managers : DOMAIN context_buffer[cm] = {}
    BY <1>1
  <2> QED BY <1>1, <2>1, <2>2 DEF Buffers, Managers
<1>9. Base
  <2>1. \A v \in At(1) : v = 0 /\ time = counter * Period /\ counter < Calls
    BY <1>1, <1>4, TimerAssumption
  <2>2. \A k \in 1 .. 15 : \A v, w \in At(k) : v = w
    BY <1>3, <1>4
  <2> QED BY <1>1, <1>2, <2>1, <2>2, TimerAssumption DEF Base
<1> QED BY <1>6, <1>7, <1>8, <1>9 DEF IInv

\* Every step keeps the invariant, and opens, answers or overwrites one call at
\* most.
LEMMA Steps ==
  ASSUME IInv, [Next]_vars
  PROVE  IInv' /\ (Silent \/ Issued \/ (\E n : Answered(n)) \/ Overwritten)
<1>1. \A s \in Services : s = "multiplier" \/ s = "adder"
  BY DEF Services
<1>2. \A e \in events : CallAt(e.action, e.value) = EventCall(e)
  BY SameView DEF IInv, InEvents, EventCall
<1>3. ASSUME IInv' /\ \A m : m \in OpenCalls' <=> m \in OpenCalls, UNCHANGED <<counter, printed>>
      PROVE  IInv' /\ Silent
  BY <1>3 DEF Silent
<1>4. CASE client_t
  <2>1. OpenCalls' = OpenCalls \cup {counter}
    BY <1>4, StepIssue
  <2> QED BY <1>4, <2>1, StepIssue DEF Issued
<1>5. CASE client_response
  <2>1. PICK n \in OpenCalls :
              /\ \A m : m \in OpenCalls' <=> m \in OpenCalls /\ m # n
              /\ n \in Nat
              /\ printed' = {[context |-> MACData(n), data |-> n * (n + 1) + (n + 2)]}
    BY <1>5, StepPrint
  <2>2. OpenCalls' = OpenCalls \ {n}
    BY <2>1
  <2>3. IInv' /\ UNCHANGED counter
    BY <1>5, StepPrint
  <2> QED BY <1>5, <2>1, <2>2, <2>3 DEF Answered
<1>6. CASE AdvanceTime
  BY <1>3, <1>6, StepAdvance
<1>7. CASE UNCHANGED vars
  <2>1. IInv'
    <3>1. /\ UNCHANGED <<time, present, events, uid_counter, context_buffer, counter>>
          /\ \A k : At(k)' = At(k)
      BY <1>7 DEF vars, At
    <3>2. \A k, v : Call(k, v)' = Call(k, v) /\ (Good(k, v)' <=> Good(k, v))
      BY <3>1 DEF Call, CallData, Context, Good
    <3>3. \A e : EventCall(e)' = EventCall(e)
      BY <3>2 DEF EventCall
    <3>4. Base' /\ Buffers'
      BY <3>1 DEF IInv, Base, Buffers
    <3>5. Fresh' /\ Ordered'
      BY <3>1 DEF IInv, Fresh, Ordered
    <3>6. OnPorts' /\ InEvents'
      BY <3>1, <3>2 DEF IInv, OnPorts, InEvents, Latest
    <3>7. Unique'
      BY <3>1, <3>2, <3>3 DEF IInv, Unique
    <3> QED BY <3>4, <3>5, <3>6, <3>7 DEF IInv
  <2>2. OpenCalls' = OpenCalls
    BY <1>7 DEF vars, OpenCalls, CallAt, DataAt, ContextAt
  <2> QED BY <1>7, <2>1, <2>2 DEF vars, Silent
<1>8. ASSUME NEW cm \in Managers, request_in(cm), UNCHANGED <<counter, printed>>
      PROVE  IInv' /\ Silent
  <2>1. PICK i \in Asks : Cm(i) = cm
    BY DEF Managers, Asks, Cm
  <2> QED BY <1>3, <1>8, <2>1, StepAsk
<1>9. ASSUME NEW cm \in Managers, response_in(cm), UNCHANGED <<counter, printed>>
      PROVE  IInv' /\ Silent
  <2>1. PICK i \in {7, 12, 14} : Cm(i) = cm
    BY DEF Managers, Cm
  <2> QED BY <1>3, <1>9, <2>1, StepTell
<1>10. ASSUME NEW s \in Services, service_request(s), UNCHANGED <<counter, printed>>
       PROVE  IInv' /\ Overwritten
  <2>1. PICK i \in {5, 10} : i = 5 <=> s = "multiplier"
    BY <1>1
  <2>2. /\ IInv' /\ \A m : m \in OpenCalls' => m \in OpenCalls
        /\ \A m : m \in OpenCalls /\ m \notin OpenCalls' =>
              \E e \in events, f \in events' :
                /\ EventCall(e) = m /\ e.action = Order[i + 1]
                /\ f.action = e.action /\ f.time = e.time /\ f \notin events
        /\ \A l, m : l \in OpenCalls /\ l \notin OpenCalls'
                       /\ m \in OpenCalls /\ m \notin OpenCalls' => l = m
    BY <1>10, <2>1, StepDelay
  <2>3. \A m \in OpenCalls \ OpenCalls' :
       \E e \in events, f \in events' :
         /\ CallAt(e.action, e.value) = m
         /\ f.action = e.action /\ f.time = e.time /\ f \notin events
    BY <1>2, <2>2
  <2> QED BY <1>10, <2>2, <2>3 DEF Overwritten
<1>11. ASSUME NEW s \in Services, service_request_queue(s), UNCHANGED <<counter, printed>>
       PROVE  IInv' /\ Silent
  <2>1. PICK i \in {6, 11} : i = 6 <=> s = "multiplier"
    BY <1>1
  <2> QED BY <1>3, <1>11, <2>1, StepServed
<1>12. ASSUME mac_request \/ mac_mul_response_out \/ mac_add_response_out,
              UNCHANGED <<counter, printed>>
       PROVE  IInv' /\ Silent
  BY <1>3, <1>12, StepMultiply, StepAdd, StepAnswer
<1> QED
  BY <1>4, <1>5, <1>6, <1>7, <1>8, <1>9, <1>10, <1>11, <1>12
  DEF Next, Ended, ManagerStep, ArithmeticStep

\* The invariant is inductive.
THEOREM Inductive == Spec => []IInv
<1>1. IInv /\ [Next]_vars => IInv'
  BY Steps
<1> QED BY <1>1, InitIInv, PTL DEF Spec

\* Every message is at one of the triggers, and is good there.
LEMMA Everywhere ==
  ASSUME IInv
  PROVE  /\ \A p \in Triggers \ {Timer} : \A v \in present[p] :
              \E i \in 2 .. 15 : p = Order[i] /\ Good(i, v)
         /\ \A e \in events : \E i \in 2 .. 15 : e.action = Order[i] /\ Good(i, e.value)
<1>1. ASSUME NEW p \in Triggers \ {Timer}, NEW v \in present[p]
      PROVE  \E i \in 2 .. 15 : p = Order[i] /\ Good(i, v)
  <2>1. PICK i \in 2 .. 15 : p = Order[i]
    BY TriggersAre, Names
  <2> QED BY <2>1 DEF IInv, OnPorts, At
<1>2. ASSUME NEW e \in events
      PROVE  \E i \in 2 .. 15 : e.action = Order[i] /\ Good(i, e.value)
  <2>1. PICK i \in {6, 11} : e.action = Order[i]
    BY DEF IInv, InEvents
  <2>2. i \in 2 .. 15
    OBVIOUS
  <2> QED BY <2>1, <2>2 DEF IInv, InEvents
<1> QED BY <1>1, <1>2

\* Type correctness (MAC.lf, ContextManager.lf: at most one value at every
\* trigger, ids of messages from the counters that handed them out).
THEOREM TypeCorrect == Spec => []TypeOK
<1>1. ASSUME IInv PROVE TypeOK
  <2> USE <1>1
  <2>1. ForAllMessages(LAMBDA p, v : Payload(p, v).uid \in Nat \ {0})
    <3>1. \A i \in 2 .. 15 : \A v : Good(i, v) => Payload(Order[i], v).uid \in Nat \ {0}
      BY SameView DEF Good
    <3>2. \A p \in Triggers \ {Timer} : \A v \in present[p] : Payload(p, v).uid \in Nat \ {0}
      BY <3>1, Everywhere
    <3>3. \A e \in events : Payload(e.action, e.value).uid \in Nat \ {0}
      BY <3>1, Everywhere
    <3> QED BY <3>2, <3>3 DEF ForAllMessages
  <2>2. \A p \in Triggers : \A v, w \in present[p] : v = w
    BY TriggersAre DEF IInv, Base, At
  <2>3. present[Timer] \subseteq {0}
    BY Names DEF IInv, Base, At
  <2> QED BY <2>1, <2>2, <2>3 DEF TypeOK, IInv, Base, Buffers
<1> QED BY <1>1, Inductive, PTL

\* No reaction meets the context of another call, and the client's answers
\* carry its own context with the result of its own request.
THEOREM Matched == Spec => []ContextsMatch
<1>1. ASSUME IInv PROVE ContextsMatch
  <2> USE <1>1
  <2> DEFINE C(p, v) ==
        /\ p[2] \in {"request_in", "response_out"}
             \/ v.uid \in DOMAIN context_buffer[ManagerOf[p[1]]]
        /\ CallAt(p, v) \in 0 .. counter - 1
        /\ DataAt(p, v) = MACData(CallAt(p, v))
        /\ Payload(p, v).data = Expected(p, DataAt(p, v))
  <2>1. ASSUME NEW i \in 2 .. 15, NEW v, Good(i, v) PROVE C(Order[i], v)
    <3>1. counter \in Nat
      BY DEF IInv, Base
    <3>2. Call(i, v) \in 0 .. counter - 1 /\ Call(i, v) \in Nat
      BY <2>1, <3>1 DEF Good
    <3>3. Expected(Order[i], CallData(i, v)) = Wanted(i, Call(i, v))
      BY <2>1, <3>2, WantedIs DEF Good
    <3>4. Order[i][2] \in {"request_in", "response_out"}
            \/ v.uid \in DOMAIN context_buffer[ManagerOf[Order[i][1]]]
      BY <2>1, SameView DEF Good
    <3>5. /\ CallAt(Order[i], v) = Call(i, v)
          /\ DataAt(Order[i], v) = CallData(i, v)
          /\ Payload(Order[i], v) = Message(i, v)
      BY SameView
    <3>6. CallData(i, v) = MACData(Call(i, v)) /\ Message(i, v).data = Wanted(i, Call(i, v))
      BY <2>1 DEF Good
    <3> QED BY <3>2, <3>3, <3>4, <3>5, <3>6
  <2> HIDE DEF C
  <2>2. /\ \A p \in Triggers \ {Timer} : \A v \in present[p] : C(p, v)
        /\ \A e \in events : C(e.action, e.value)
    BY <2>1, Everywhere
  <2> QED BY <2>2 DEF ContextsMatch, ForAllMessages, C
<1> QED BY <1>1, Inductive, PTL

\* A call that is still open is so for two of the longest delays at most.
THEOREM Timely == Spec => []AnswersInTime
<1>1. ASSUME IInv PROVE AnswersInTime
  <2> USE <1>1
  <2> SUFFICES ASSUME NEW n \in OpenCalls PROVE time <= n * Period + 2 * MaxDelay
    BY DEF AnswersInTime
  <2>1. ASSUME NEW i \in 2 .. 15, n \in Nat, NEW t \in Nat, t <= Latest(i, n), time <= t
        PROVE  time <= n * Period + 2 * MaxDelay
    <3> DEFINE b == n * Period
    <3>1. b \in Nat /\ MaxDelay \in Nat /\ time \in Nat
      BY <2>1, TimerAssumption, DelayAssumption DEF IInv, Base
    <3>2. t <= b + (IF i < 6 THEN 0 ELSE IF i < 11 THEN MaxDelay ELSE 2 * MaxDelay)
      BY <2>1 DEF Latest
    <3> HIDE DEF b
    <3>3. time <= b + 2 * MaxDelay
      BY <2>1, <3>1, <3>2
    <3> QED BY <3>3 DEF b
  <2>2. CASE \E i \in 2 .. 15 : \E v \in At(i) : Call(i, v) = n
    <3>1. PICK i \in 2 .. 15 : \E v \in At(i) : Call(i, v) = n
      BY <2>2
    <3>2. n \in Nat /\ time <= Latest(i, n)
      BY <3>1 DEF IInv, OnPorts, Good
    <3>3. time \in Nat /\ time <= time
      BY DEF IInv, Base
    <3> QED BY <2>1, <3>2, <3>3
  <2>3. CASE \E e \in events : EventCall(e) = n
    <3>1. PICK e \in events : EventCall(e) = n
      BY <2>3
    <3>2. PICK i \in {6, 11} : e.action = Order[i]
      BY DEF IInv, InEvents
    <3>3. Order[6] # Order[11]
      BY Distinct
    <3>4. Call(i, e.value) = n
      BY <3>1, <3>2, <3>3 DEF EventCall
    <3>5. n \in Nat /\ e.time \in Nat /\ e.time <= Latest(i, n) /\ time <= e.time
      BY <3>2, <3>4 DEF IInv, InEvents, Good
    <3> QED BY <2>1, <3>5
  <2> QED BY <2>2, <2>3, OpenIs DEF IInv
<1> QED BY <1>1, Inductive, PTL

\* A call is given up only when it is answered, or when schedule overwrites the
\* event of one with that of another of the same service at the same tag.
THEOREM LosesOnlyCollisions == Spec => LosesOnlyOnCollision
<1> DEFINE A ==
      \A n \in OpenCalls \ OpenCalls' :
         \/ client_response /\ \E a \in printed' : a.context.factor1 = n
         \/ \E e \in events, f \in events' :
              /\ CallAt(e.action, e.value) = n
              /\ f.action = e.action /\ f.time = e.time /\ f \notin events
<1>1. ASSUME IInv, [Next]_vars PROVE A
  <2>1. CASE Silent
    BY <2>1 DEF Silent
  <2>2. CASE Issued
    BY <2>2 DEF Issued
  <2>3. CASE \E n : Answered(n)
    <3>1. PICK n : Answered(n)
      BY <2>3
    <3>2. \A m \in OpenCalls \ OpenCalls' : m = n
      BY <3>1 DEF Answered
    <3>3. MACData(n).factor1 = n
      BY DEF MACData
    <3>4. client_response /\ \E a \in printed' : a.context.factor1 = n
      BY <3>1, <3>3 DEF Answered
    <3> QED BY <3>2, <3>4
  <2>4. CASE Overwritten
    BY <2>4 DEF Overwritten
  <2> QED BY <1>1, <2>1, <2>2, <2>3, <2>4, Steps
<1>2. IInv /\ [Next]_vars => [A]_vars
  BY <1>1
<1> QED BY <1>2, Inductive, PTL DEF Spec, LosesOnlyOnCollision

\* The client sees a service that may forget calls: every step is one of the
\* service's, or changes nothing that the client sees.
THEOREM Refinement == Spec => ImplementsService
<1> DEFINE told == {[context |-> a.context.factor1, data |-> a.data] : a \in printed}
<1>1. Init => Service!Init
  <2> SUFFICES ASSUME Init PROVE Service!Init
    OBVIOUS
  <2>1. IInv
    BY InitIInv
  <2>2. counter = 0 /\ printed = {} /\ events = {}
    BY DEF Init
  <2>3. \A k \in 2 .. 15 : At(k) = {}
    <3>1. \A k \in 2 .. 15 : Order[k] \in Triggers /\ Order[k] # Timer
      BY TriggersAre, Distinct, Names
    <3>2. present = [Quiet EXCEPT ![Timer] = {0}]
      BY DEF Init
    <3> QED BY <3>1, <3>2 DEF At, Quiet
  <2>4. OpenCalls = {}
    BY <2>1, <2>2, <2>3, OpenIs DEF IInv
  <2>5. told = {}
    BY <2>2
  <2> QED BY <2>2, <2>4, <2>5 DEF Service!Init
<1>2. IInv /\ [Next]_vars => [Service!Next]_(Service!vars)
  <2> SUFFICES ASSUME IInv, [Next]_vars PROVE [Service!Next]_(Service!vars)
    OBVIOUS
  <2>1. CASE Silent
    BY <2>1 DEF Silent, Service!vars
  <2>2. CASE Issued
    <3>1. Service!Issue
      BY <2>2 DEF Issued, Service!Issue
    <3> QED BY <3>1 DEF Service!Next
  <2>3. CASE \E n : Answered(n)
    <3>1. PICK n : Answered(n)
      BY <2>3
    <3>2. MACData(n).factor1 = n
      BY DEF MACData
    <3>3. told' = {[context |-> n, data |-> n * (n + 1) + (n + 2)]}
      BY <3>1, <3>2 DEF Answered
    <3>4. /\ n \in OpenCalls /\ OpenCalls' = OpenCalls \ {n}
          /\ UNCHANGED counter
      BY <3>1 DEF Answered
    <3>5. Service!Answer
      BY <3>3, <3>4 DEF Service!Answer
    <3> QED BY <3>5 DEF Service!Next
  <2>4. CASE Overwritten
    <3>1. CASE OpenCalls' = OpenCalls
      BY <2>4, <3>1 DEF Overwritten, Service!vars
    <3>2. CASE OpenCalls' # OpenCalls
      <4>1. PICK n \in OpenCalls : n \notin OpenCalls'
        BY <2>4, <3>2 DEF Overwritten
      <4>2. OpenCalls' = OpenCalls \ {n}
        BY <2>4, <4>1 DEF Overwritten
      <4>3. Service!Forget
        BY <2>4, <4>1, <4>2 DEF Overwritten, Service!Forget
      <4> QED BY <4>3 DEF Service!Next
    <3> QED BY <3>1, <3>2
  <2> QED BY <2>1, <2>2, <2>3, <2>4, Steps
<1> QED BY <1>1, <1>2, Inductive, PTL DEF Spec, ImplementsService, Service!Spec
====
