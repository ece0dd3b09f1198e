---- MODULE ContainedBank_proofs ----
(***************************************************************************)
(* Proofs that the counters of ContainedBank keep step and that no value   *)
(* is lost, for banks of every width and for all delays.                   *)
(***************************************************************************)
EXTENDS ContainedBank, FiniteSetTheorems, TLAPS

BanksTypeOK ==
  /\ Aout \in [present : SUBSET Nat, value : [0 .. self.width - 1 -> Nat]]
  /\ w_in \in [present : SUBSET Nat, value : [0 .. self.width - 1 -> {0}]]
  /\ w_out \in [present : SUBSET Nat, value : [0 .. self.width - 1 -> {DO_CONVERT(0)}]]

\* Type correctness.  All values under way are 0.
TypeOK ==
  /\ self \in Parameters
  /\ time \in Nat /\ firing \in Nat
  /\ IsFiniteSet(events)
  /\ events \subseteq [action : {"post", "delayed_trigger"}, time : Nat, value : {0}]
  /\ present \in [t : SUBSET {0}, post : SUBSET {0}, delayed_trigger : SUBSET {0}]
  /\ BanksTypeOK
  /\ drawn \in Nat /\ counter \in Nat /\ counter_out \in Nat /\ req_id \in Nat

\* A port or action that is present waits for its reaction only when those of
\* the lower levels have run.
InOrder ==
  /\ Aout.present # {} => present.t = {} /\ present.post = {}
  /\ w_in.present # {} => present.t = {} /\ present.post = {} /\ Aout.present = {}
  /\ w_out.present # {} =>
       /\ present.t = {} /\ present.post = {} /\ Aout.present = {}
       /\ w_in.present = {} /\ present.delayed_trigger = {}

One(S) == IF S = {} THEN 0 ELSE 1

DelayedEvents == {e \in events : e.action = "delayed_trigger"}

\* How many values the Wire has sent.
Handled == req_id + One(w_out.present)

\* Every value that A has sent is with the Wire or on the way to it.
Counted ==
  overrun = {} =>
    Handled + One(present.delayed_trigger) + One(w_in.present) + One(Aout.present)
      + Cardinality(DelayedEvents) = drawn

\* The Wire may get a value, or another one, at this tag.
Busy == present.t # {} \/ present.post # {} \/ Aout.present # {} \/ w_in.present # {}

\* Events are due later, the Wire's by its latency at most, and sooner than that
\* as long as the Wire may get another value: no two of its events are due at
\* one time.
Due ==
  /\ time < firing
  /\ \A e \in events : time < e.time
  /\ \A e \in DelayedEvents : e.time <= time + self.latency
  /\ Busy => \A e \in DelayedEvents : e.time < time + self.latency

\* The counters by the number of values; the channels that A marks are never
\* the ones it writes.
Counters ==
  /\ counter = 3 * drawn
  /\ IF overrun = {} THEN counter <= self.width ELSE counter > self.width
  /\ overrun = {} => counter_out = IF 3 * Handled >= self.width THEN 0 ELSE 3 * Handled
  /\ \A n \in Nat : 3 * n + 1 < self.width => Aout.value[3 * n + 1] = 0

IInv ==
  /\ TypeOK /\ InOrder /\ Due /\ Counted /\ Counters /\ InStep

-----------------------------------------------------------------------------
(* The invariant is inductive *)

LEMMA SelfType ==
  ASSUME TypeOK
  PROVE  /\ self.width \in Nat \ {0} /\ self.period \in Nat \ {0}
         /\ self.post \in Nat \ {0} /\ self.latency \in Nat \ {0}
  BY ParametersAssumption DEF TypeOK

\* What lf_set does, evaluating its first argument three times.
LEMMA EvaluatesThrice ==
  /\ Evaluates.value = 0 /\ Evaluates.is_present = 1
  /\ Evaluates.token = 2 /\ Evaluates.all = 3
  BY DEF Evaluates

LEMMA Marked ==
  ASSUME TypeOK, InStep
  PROVE  /\ Aout.present \subseteq {3 * (drawn - 1) + 1}
         /\ w_in.present \subseteq {3 * (drawn - 1) + 1}
         /\ w_out.present \subseteq {3 * (req_id + 1 - 1) + 1}
<1>1. drawn \in Int /\ req_id \in Int
  BY DEF TypeOK
<1>2. Channel(drawn) = 3 * (drawn - 1) + 1
  BY <1>1, EvaluatesThrice DEF Channel
<1>3. Channel(req_id + 1) = 3 * (req_id + 1 - 1) + 1
  BY <1>1, EvaluatesThrice DEF Channel
<1> QED BY <1>2, <1>3 DEF InStep

LEMMA ExceptType ==
  ASSUME NEW S, NEW T, NEW f \in [S -> T], NEW a, NEW b \in T
  PROVE  [f EXCEPT ![a] = b] \in [S -> T]
  OBVIOUS

LEMMA TurnOrder ==
  ASSUME NEW n \in 1 .. 6, Turn(n)
  PROVE  /\ overrun = {}
         /\ n = 1 => present.t # {}
         /\ n = 2 => present.post # {}
         /\ n = 3 => Aout.present # {}
         /\ n = 4 => w_in.present # {}
         /\ n = 5 => present.delayed_trigger # {}
         /\ n = 6 => w_out.present # {}
         /\ n > 1 => present.t = {}
         /\ n > 2 => present.post = {}
         /\ n > 3 => Aout.present = {}
         /\ n > 4 => w_in.present = {}
         /\ n > 5 => present.delayed_trigger = {}
  BY DEF Turn, Waiting

LEMMA DelayedFinite ==
  ASSUME IsFiniteSet(events)
  PROVE  IsFiniteSet(DelayedEvents) /\ Cardinality(DelayedEvents) \in Nat
<1>1. DelayedEvents \in SUBSET events
  BY DEF DelayedEvents
<1> QED BY <1>1, FS_Subset, FS_CardinalityType

LEMMA InitIInv == ASSUME Init PROVE IInv
<1>1. self.width \in Nat \ {0} /\ self.period \in Nat \ {0} /\ self \in Parameters
  BY ParametersAssumption DEF Init
<1>2. IsFiniteSet({}) /\ Cardinality({}) = 0
  BY FS_EmptySet
<1>3. TypeOK
  BY <1>1, <1>2 DEF Init, TypeOK, BanksTypeOK, Unset, Quiet
<1>4. InOrder
  BY DEF Init, InOrder, Unset
<1>d. DelayedEvents = {}
  BY DEF Init, DelayedEvents
<1>5. Counted
  BY <1>2, <1>d DEF Init, Counted, Handled, One, Unset, Quiet
<1>8. Due
  BY <1>1, <1>d DEF Init, Due
<1>6. Counters
  BY <1>1 DEF Init, Counters, Handled, One, Unset
<1>7. InStep
  BY DEF Init, InStep, Unset
<1> QED BY <1>3, <1>4, <1>5, <1>6, <1>7, <1>8 DEF IInv

LEMMA DueKept ==
  ASSUME Due, UNCHANGED <<self, time, firing, events>>, Busy' => Busy
  PROVE  Due'
  BY DEF Due, DelayedEvents

LEMMA StepAt == ASSUME IInv, A_t PROVE IInv'
<1> DEFINE e == [action |-> "post", time |-> time + self.post, value |-> 0]
<1>1. Turn(1) /\ events' = events \cup {e} /\ present' = [present EXCEPT !.t = {}]
  BY DEF A_t
<1>e. e \in [action : {"post", "delayed_trigger"}, time : Nat, value : {0}]
      /\ e.action # "delayed_trigger"
  BY SelfType DEF IInv, TypeOK
<1> HIDE DEF e
<1> USE DEF IInv
<1>2. UNCHANGED <<self, time, firing, Aout, w_in, w_out, drawn, counter,
                 counter_out, req_id, printed, overrun>>
  BY DEF A_t
<1>3. overrun = {} /\ present.t # {}
  BY <1>1, TurnOrder
<1>4. TypeOK'
  <2>1. IsFiniteSet(events)
    BY DEF TypeOK
  <2>2. IsFiniteSet(events')
    BY <1>1, <2>1, FS_AddElement
  <2> QED BY <1>1, <1>2, <1>e, <2>2 DEF TypeOK, BanksTypeOK
<1>5. InOrder'
  BY <1>1, <1>2, <1>3 DEF InOrder, TypeOK
<1>6. Counted'
  <2>1. DelayedEvents' = DelayedEvents
    BY <1>1, <1>e DEF DelayedEvents
  <2>2. present'.delayed_trigger = present.delayed_trigger
    BY <1>1 DEF TypeOK
  <2> QED BY <1>2, <2>1, <2>2 DEF Counted, Handled
<1>7. Counters' /\ InStep'
  BY <1>2 DEF Counters, Handled, InStep, Channel
<1>8. Due'
  <2>1. DelayedEvents' = DelayedEvents
    BY <1>1, <1>e DEF DelayedEvents
  <2>2. Busy
    BY <1>3 DEF Busy
  <2>3. e.time > time
    BY SelfType DEF e, TypeOK
  <2>4. \A d \in DelayedEvents : d.time < time + self.latency /\ d.time <= time + self.latency
    BY <2>2 DEF Due
  <2> QED BY <1>1, <1>2, <2>1, <2>3, <2>4 DEF Due
<1> QED BY <1>4, <1>5, <1>6, <1>7, <1>8

LEMMA StepPost == ASSUME IInv, A_post PROVE IInv'
<1> USE DEF IInv
<1>1. Turn(2) /\ drawn' = drawn + 1 /\ counter' = counter + 3
      /\ present' = [present EXCEPT !.post = {}]
  BY EvaluatesThrice DEF A_post
<1>2. UNCHANGED <<self, time, firing, events, w_in, w_out, counter_out, req_id, printed>>
  BY DEF A_post
<1>3. \/ /\ counter + 2 < self.width /\ overrun' = {}
         /\ Aout' = [present |-> Aout.present \cup {counter + 1},
                     value |-> [Aout.value EXCEPT ![counter] = drawn + 1]]
      \/ counter + 2 >= self.width /\ overrun' = {"A"} /\ Aout' = Aout
  BY <1>1, TurnOrder, EvaluatesThrice, SelfType DEF A_post, InBank, lf_set, TypeOK
<1>4. overrun = {} /\ present.post # {} /\ present.t = {}
  BY <1>1, TurnOrder
<1>5. Aout.present = {} /\ w_in.present = {} /\ w_out.present = {}
  BY <1>4 DEF InOrder
<1>6. counter = 3 * drawn /\ drawn \in Nat /\ counter \in Nat /\ self.width \in Nat
  BY SelfType DEF Counters, TypeOK
<1>7. TypeOK'
  <2>1. Aout' \in [present : SUBSET Nat, value : [0 .. self.width - 1 -> Nat]]
    <3>1. Aout.value \in [0 .. self.width - 1 -> Nat] /\ Aout.present \in SUBSET Nat
      BY DEF TypeOK, BanksTypeOK
    <3>2. [Aout.value EXCEPT ![counter] = drawn + 1] \in [0 .. self.width - 1 -> Nat]
      <4>1. drawn + 1 \in Nat
        BY <1>6
      <4> QED BY <3>1, <4>1, ExceptType
    <3>3. Aout.present \cup {counter + 1} \in SUBSET Nat
      BY <1>6, <3>1
    <3>4. CASE Aout' = Aout
      <4>1. Aout \in [present : SUBSET Nat, value : [0 .. self.width - 1 -> Nat]]
        BY DEF TypeOK, BanksTypeOK
      <4> QED BY <3>4, <4>1
    <3> DEFINE f == [Aout.value EXCEPT ![counter] = drawn + 1]
               P == Aout.present \cup {counter + 1}
    <3>5. f \in [0 .. self.width - 1 -> Nat] /\ P \in SUBSET Nat
      BY <3>2, <3>3
    <3>6. Aout' = Aout \/ Aout' = [present |-> P, value |-> f]
      BY <1>3
    <3> HIDE DEF f, P
    <3>7. CASE Aout' = [present |-> P, value |-> f]
      BY <3>5, <3>7
    <3> QED BY <3>4, <3>6, <3>7
  <2>2. BanksTypeOK'
    BY <1>2, <2>1 DEF TypeOK, BanksTypeOK
  <2>3. present' \in [t : SUBSET {0}, post : SUBSET {0}, delayed_trigger : SUBSET {0}]
    BY <1>1 DEF TypeOK
  <2>4. drawn' \in Nat /\ counter' \in Nat
    BY <1>1, <1>6
  <2> QED BY <1>2, <2>2, <2>3, <2>4 DEF TypeOK
<1>8. InOrder'
  BY <1>1, <1>2, <1>3, <1>4, <1>5 DEF InOrder, TypeOK
<1>9. Counted'
  <2>1. DelayedEvents' = DelayedEvents /\ present'.delayed_trigger = present.delayed_trigger
    BY <1>1, <1>2 DEF DelayedEvents, TypeOK
  <2>2. Handled' = Handled /\ Handled \in Nat
    BY <1>2 DEF Handled, One, TypeOK
  <2>3. One(Aout'.present) \in {0, 1} /\ One(Aout.present) = 0
    BY <1>5 DEF One
  <2>4. Cardinality(DelayedEvents) \in Nat
    BY DelayedFinite DEF TypeOK
  <2>5. One(present.delayed_trigger) \in Nat /\ One(w_in.present) \in Nat
    BY DEF One
  <2>6. overrun' = {} => Aout'.present # {}
    BY <1>3, <1>5
  <2> QED BY <1>1, <1>2, <1>4, <1>6, <2>1, <2>2, <2>3, <2>4, <2>5, <2>6 DEF Counted, One
<1>10. Counters'
  <2>1. /\ counter' = 3 * drawn'
        /\ IF overrun' = {} THEN counter' <= self'.width ELSE counter' > self'.width
    BY <1>1, <1>2, <1>3, <1>6
  <2>2. overrun' = {} => counter_out' = IF 3 * Handled' >= self'.width THEN 0 ELSE 3 * Handled'
    BY <1>2, <1>4 DEF Counters, Handled
  <2>3. ASSUME NEW n \in Nat, 3 * n + 1 < self.width PROVE Aout'.value[3 * n + 1] = 0
    <3>1. Aout.value[3 * n + 1] = 0 /\ Aout.value \in [0 .. self.width - 1 -> Nat]
      BY <2>3 DEF Counters, TypeOK, BanksTypeOK
    <3>2. 3 * n + 1 # counter /\ 3 * n + 1 \in 0 .. self.width - 1
      BY <1>6, <2>3
    <3>3. CASE Aout' = Aout
      BY <3>1, <3>3
    <3>4. CASE Aout'.value = [Aout.value EXCEPT ![counter] = drawn + 1]
      BY <3>1, <3>2, <3>4
    <3> QED BY <1>3, <3>3, <3>4
  <2> QED BY <1>2, <2>1, <2>2, <2>3 DEF Counters
<1>11. InStep'
  <2>1. Aout'.present \subseteq {3 * (drawn' - 1) + 1}
    BY <1>1, <1>3, <1>5, <1>6
  <2> QED BY <1>2, <1>3, <1>5, <2>1, EvaluatesThrice DEF InStep, Channel
<1>12. Due'
  BY <1>2, <1>4, DueKept DEF Busy
<1> QED BY <1>7, <1>8, <1>9, <1>10, <1>11, <1>12

\* A step of the runtime or of a reaction other than A's leaves A's counter.
LEMMA CountersKept ==
  ASSUME Counters, UNCHANGED <<self, drawn, counter>>,
         UNCHANGED <<overrun, counter_out>>, Handled' = Handled, Aout'.value = Aout.value
  PROVE  Counters'
  BY DEF Counters

LEMMA StepBin == ASSUME IInv, B_Bin PROVE IInv'
<1> USE DEF IInv
<1>1. /\ Turn(3)
      /\ w_in' = [present |-> Aout.present,
                  value |-> [i \in DOMAIN w_in.value |->
                     IF i \in Aout.present THEN Reread(Aout.value[i]) ELSE w_in.value[i]]]
      /\ Aout' = [Aout EXCEPT !.present = {}]
  BY DEF B_Bin
<1>2. UNCHANGED <<self, time, firing, events, present, w_out, drawn, counter,
                 counter_out, req_id, printed, overrun>>
  BY DEF B_Bin
<1>3. overrun = {} /\ Aout.present # {} /\ present.t = {} /\ present.post = {}
  BY <1>1, TurnOrder
<1>4. w_in.present = {} /\ w_out.present = {}
  BY <1>3 DEF InOrder
<1>5. drawn \in Nat /\ self.width \in Nat
  BY SelfType DEF TypeOK
<1>6. /\ Aout.value \in [0 .. self.width - 1 -> Nat] /\ Aout.present \in SUBSET Nat
      /\ w_in.value \in [0 .. self.width - 1 -> {0}]
      /\ Aout \in [present : SUBSET Nat, value : [0 .. self.width - 1 -> Nat]]
  BY DEF TypeOK, BanksTypeOK
<1>7. Aout.present \subseteq {3 * (drawn - 1) + 1}
  BY EvaluatesThrice DEF InStep, Channel
<1>8. /\ Aout'.present = {} /\ Aout'.value = Aout.value
      /\ Aout' \in [present : SUBSET Nat, value : [0 .. self.width - 1 -> Nat]]
  BY <1>1, <1>6
<1>9. w_in'.present = Aout.present /\ w_in'.value \in [0 .. self.width - 1 -> {0}]
      /\ w_in' \in [present : SUBSET Nat, value : [0 .. self.width - 1 -> {0}]]
  <2>1. ASSUME NEW i \in 0 .. self.width - 1, i \in Aout.present PROVE Reread(Aout.value[i]) = 0
    <3>1. i = 3 * (drawn - 1) + 1
      BY <1>7, <2>1
    <3>2. drawn - 1 \in Nat
      BY <1>5, <3>1
    <3>3. counter = 3 * drawn /\ counter <= self.width
      BY <1>3 DEF Counters
    <3>4. 3 * (drawn - 1) + 1 < self.width
      BY <1>5, <3>3
    <3>5. Aout.value[i] = 0
      BY <3>1, <3>2, <3>4 DEF Counters
    <3> QED BY <3>5 DEF Reread
  <2> DEFINE f == [i \in DOMAIN w_in.value |->
                     IF i \in Aout.present THEN Reread(Aout.value[i]) ELSE w_in.value[i]]
  <2>2. f \in [0 .. self.width - 1 -> {0}]
    BY <1>6, <2>1
  <2>3. w_in' = [present |-> Aout.present, value |-> f]
    BY <1>1
  <2> HIDE DEF f
  <2> QED BY <1>6, <2>2, <2>3
<1>10. TypeOK'
  <2>1. BanksTypeOK'
    BY <1>2, <1>8, <1>9 DEF TypeOK, BanksTypeOK
  <2> QED BY <1>2, <2>1 DEF TypeOK
<1>11. InOrder'
  BY <1>2, <1>3, <1>4, <1>8, <1>9 DEF InOrder
<1>12. Handled' = Handled
  BY <1>2 DEF Handled
<1>13. Counted'
  <2>1. DelayedEvents' = DelayedEvents
    BY <1>2 DEF DelayedEvents
  <2>2. One(w_in'.present) = 1 /\ One(Aout'.present) = 0
        /\ One(w_in.present) = 0 /\ One(Aout.present) = 1
    BY <1>3, <1>4, <1>8, <1>9 DEF One
  <2>3. Cardinality(DelayedEvents) \in Nat /\ Handled \in Nat /\ One(present.delayed_trigger) \in Nat
    BY DelayedFinite DEF TypeOK, Handled, One
  <2> QED BY <1>2, <1>3, <1>5, <1>12, <2>1, <2>2, <2>3 DEF Counted
<1>14. Counters'
  BY <1>2, <1>8, <1>12, CountersKept
<1>15. InStep'
  BY <1>2, <1>8, <1>9 DEF InStep, Channel
<1>16. Due'
  BY <1>2, <1>3, DueKept DEF Busy
<1> QED BY <1>10, <1>11, <1>13, <1>14, <1>15, <1>16

LEMMA StepIn == ASSUME IInv, Wire_in PROVE IInv'
<1> DEFINE e(i) == [action |-> "delayed_trigger", time |-> time + self.latency,
                    value |-> w_in.value[i]]
<1> USE DEF IInv
<1>1. /\ Turn(4)
      /\ events' = events \cup {e(i) : i \in w_in.present}
      /\ w_in' = [w_in EXCEPT !.present = {}]
  BY DEF Wire_in
<1>2. UNCHANGED <<self, time, firing, present, Aout, w_out, drawn, counter,
                 counter_out, req_id, printed, overrun>>
  BY DEF Wire_in
<1>3. overrun = {} /\ w_in.present # {} /\ Aout.present = {}
  BY <1>1, TurnOrder
<1>4. w_in.present \subseteq {3 * (drawn - 1) + 1}
  BY EvaluatesThrice DEF InStep, Channel
<1>5. PICK i : w_in.present = {i} /\ i = 3 * (drawn - 1) + 1
  BY <1>3, <1>4
<1>6. i \in 0 .. self.width - 1 /\ counter = 3 * drawn
  <2>1. i \in Nat
    BY <1>5 DEF TypeOK, BanksTypeOK
  <2>2. counter = 3 * drawn /\ counter <= self.width /\ drawn \in Nat /\ self.width \in Nat
    BY <1>3, SelfType DEF Counters, TypeOK
  <2> QED BY <1>5, <2>1, <2>2
<1>7. /\ w_in.value \in [0 .. self.width - 1 -> {0}]
      /\ w_in \in [present : SUBSET Nat, value : [0 .. self.width - 1 -> {0}]]
  BY DEF TypeOK, BanksTypeOK
<1>8. /\ w_in'.present = {}
      /\ w_in' \in [present : SUBSET Nat, value : [0 .. self.width - 1 -> {0}]]
  BY <1>1, <1>7
<1>9. e(i) \in [action : {"post", "delayed_trigger"}, time : Nat, value : {0}]
      /\ e(i).action = "delayed_trigger"
  BY <1>6, <1>7, SelfType DEF TypeOK
<1>10. events' = events \cup {e(i)}
  BY <1>1, <1>5
<1> DEFINE ev == e(i)
<1>11. ev \in [action : {"post", "delayed_trigger"}, time : Nat, value : {0}]
       /\ ev.action = "delayed_trigger" /\ events' = events \cup {ev}
  BY <1>9, <1>10
<1> HIDE DEF ev, e
<1>t. ev.time = time + self.latency /\ ev \notin DelayedEvents
      /\ \A d \in DelayedEvents : d.time < time + self.latency
  <2>1. ev.time = time + self.latency
    BY DEF ev, e
  <2>2. Busy
    BY <1>3 DEF Busy
  <2>3. \A d \in DelayedEvents : d.time < time + self.latency
    BY <2>2 DEF Due
  <2>4. time \in Nat /\ self.latency \in Nat
    BY SelfType DEF TypeOK
  <2> QED BY <2>1, <2>3, <2>4
<1>12. TypeOK'
  <2>1. IsFiniteSet(events)
    BY DEF TypeOK
  <2>2. IsFiniteSet(events')
    BY <1>11, <2>1, FS_AddElement
  <2>3. BanksTypeOK'
    BY <1>2, <1>8 DEF TypeOK, BanksTypeOK
  <2> QED BY <1>2, <1>11, <2>2, <2>3 DEF TypeOK
<1>13. InOrder'
  BY <1>2, <1>8 DEF InOrder
<1>14. Handled' = Handled
  BY <1>2 DEF Handled
<1>15. Counted'
  <2>1. DelayedEvents' = DelayedEvents \cup {ev}
    BY <1>11 DEF DelayedEvents
  <2>2. IsFiniteSet(DelayedEvents) /\ Cardinality(DelayedEvents) \in Nat
    BY DelayedFinite DEF TypeOK
  <2>3. Cardinality(DelayedEvents') = Cardinality(DelayedEvents) + 1
    BY <1>t, <2>1, <2>2, FS_AddElement
  <2>4. One(w_in.present) = 1 /\ One(w_in'.present) = 0 /\ One(Aout.present) = 0
    BY <1>3, <1>8 DEF One
  <2>5. Handled \in Nat /\ One(present.delayed_trigger) \in Nat /\ drawn \in Nat
    BY DEF TypeOK, Handled, One
  <2> QED BY <1>2, <1>3, <1>14, <2>2, <2>3, <2>4, <2>5 DEF Counted
<1>16. Counters'
  BY <1>2, <1>14, CountersKept
<1>17. InStep'
  BY <1>2, <1>8 DEF InStep, Channel
<1>18. Due'
  <2>1. ~ Busy'
    <3>1. present.t = {} /\ present.post = {}
      BY <1>1, TurnOrder
    <3> QED BY <1>2, <1>3, <1>8, <3>1 DEF Busy
  <2>2. DelayedEvents' = DelayedEvents \cup {ev}
    BY <1>11 DEF DelayedEvents
  <2>3. time \in Nat /\ self.latency \in Nat \ {0}
    BY SelfType DEF TypeOK
  <2>4. \A d \in DelayedEvents : d.time <= time + self.latency
    BY DEF Due
  <2> QED BY <1>2, <1>11, <1>t, <2>1, <2>2, <2>3, <2>4 DEF Due
<1> QED BY <1>12, <1>13, <1>15, <1>16, <1>17, <1>18

LEMMA StepDelayed == ASSUME IInv, Wire_delayed_trigger PROVE IInv'
<1> USE DEF IInv
<1>1. /\ Turn(5) /\ counter_out' = Wrapped(counter_out + 3)
      /\ present' = [present EXCEPT !.delayed_trigger = {}]
  BY EvaluatesThrice DEF Wire_delayed_trigger
<1>2. UNCHANGED <<self, time, firing, events, Aout, w_in, drawn, counter, req_id, printed>>
  BY DEF Wire_delayed_trigger
<1>3. overrun = {} /\ present.delayed_trigger # {} /\ present.t = {}
      /\ present.post = {} /\ Aout.present = {} /\ w_in.present = {}
  BY <1>1, TurnOrder
<1>4. w_out.present = {} /\ present.delayed_trigger = {0}
  BY <1>3 DEF InOrder, TypeOK
<1>5. drawn \in Nat /\ req_id \in Nat /\ counter = 3 * drawn /\ counter <= self.width
      /\ self.width \in Nat \ {0} /\ Handled = req_id
  BY <1>3, <1>4, SelfType DEF Counters, TypeOK, Handled, One
<1>6. req_id + 1 <= drawn
  <2>1. One(present.delayed_trigger) = 1 /\ One(w_in.present) = 0 /\ One(Aout.present) = 0
    BY <1>3 DEF One
  <2>2. Cardinality(DelayedEvents) \in Nat
    BY DelayedFinite DEF TypeOK
  <2> QED BY <1>3, <1>5, <2>1, <2>2 DEF Counted
<1>7. counter_out = 3 * req_id /\ 3 * req_id + 3 <= self.width
  BY <1>3, <1>5, <1>6 DEF Counters
<1>8. /\ overrun' = {}
      /\ w_out' = [present |-> w_out.present \cup {counter_out + 1},
                   value |-> [w_out.value EXCEPT ![counter_out] = DO_CONVERT(0)]]
  BY <1>3, <1>4, <1>5, <1>7, EvaluatesThrice DEF Wire_delayed_trigger, InBank, lf_set
<1>9. /\ w_out'.present = {counter_out + 1}
      /\ w_out' \in [present : SUBSET Nat, value : [0 .. self.width - 1 -> {DO_CONVERT(0)}]]
  <2>1. w_out.value \in [0 .. self.width - 1 -> {DO_CONVERT(0)}]
    BY DEF TypeOK, BanksTypeOK
  <2>2. [w_out.value EXCEPT ![counter_out] = DO_CONVERT(0)] \in [0 .. self.width - 1 -> {DO_CONVERT(0)}]
    BY <2>1
  <2> QED BY <1>4, <1>5, <1>7, <1>8, <2>2
<1>10. present' \in [t : SUBSET {0}, post : SUBSET {0}, delayed_trigger : SUBSET {0}]
       /\ present'.delayed_trigger = {} /\ present'.t = {} /\ present'.post = {}
  BY <1>1, <1>3 DEF TypeOK
<1>11. TypeOK'
  <2>1. BanksTypeOK'
    BY <1>2, <1>9 DEF TypeOK, BanksTypeOK
  <2>2. counter_out' \in Nat
    BY <1>1, <1>5, <1>7 DEF Wrapped
  <2> QED BY <1>2, <1>10, <2>1, <2>2 DEF TypeOK
<1>12. InOrder'
  BY <1>2, <1>3, <1>10 DEF InOrder
<1>13. Handled' = req_id + 1
  BY <1>2, <1>9 DEF Handled, One
<1>14. Counted'
  <2>1. DelayedEvents' = DelayedEvents
    BY <1>2 DEF DelayedEvents
  <2>2. One(present.delayed_trigger) = 1 /\ One(present'.delayed_trigger) = 0
        /\ One(w_in.present) = 0 /\ One(Aout.present) = 0
    BY <1>3, <1>10 DEF One
  <2>3. Cardinality(DelayedEvents) \in Nat
    BY DelayedFinite DEF TypeOK
  <2> QED BY <1>2, <1>3, <1>5, <1>13, <2>1, <2>2, <2>3 DEF Counted
<1>15. Counters'
  <2>1. counter_out' = IF 3 * Handled' >= self'.width THEN 0 ELSE 3 * Handled'
    BY <1>1, <1>2, <1>5, <1>7, <1>13 DEF Wrapped
  <2> QED BY <1>2, <1>3, <1>8, <2>1 DEF Counters
<1>16. InStep'
  <2>1. w_out'.present \subseteq {3 * (req_id' + 1 - 1) + 1}
    BY <1>2, <1>5, <1>7, <1>9
  <2>2. w_out'.present \subseteq {Channel(req_id' + 1)}
    BY <1>2, <1>5, <2>1, EvaluatesThrice DEF Channel
  <2>3. "Wire" \notin overrun'
    BY <1>8
  <2>4. Aout'.present \subseteq {Channel(drawn')} /\ w_in'.present \subseteq {Channel(drawn')}
    BY <1>2, <1>3
  <2> QED BY <2>2, <2>3, <2>4 DEF InStep, Channel
<1>17. Due'
  <2>1. ~ Busy'
    BY <1>2, <1>3, <1>10 DEF Busy
  <2> QED BY <1>2, <2>1, DueKept
<1> QED BY <1>11, <1>12, <1>14, <1>15, <1>16, <1>17

LEMMA StepOut == ASSUME IInv, B_w_out PROVE IInv'
<1> USE DEF IInv
<1>1. /\ Turn(6) /\ printed' = {w_out.value[i] : i \in w_out.present}
      /\ req_id' = req_id + 1 /\ w_out' = [w_out EXCEPT !.present = {}]
  BY DEF B_w_out
<1>2. UNCHANGED <<self, time, firing, events, present, Aout, w_in, drawn, counter,
                 counter_out, overrun>>
  BY DEF B_w_out
<1>3. overrun = {} /\ w_out.present # {}
  BY <1>1, TurnOrder
<1>4. w_out \in [present : SUBSET Nat, value : [0 .. self.width - 1 -> {DO_CONVERT(0)}]]
      /\ req_id \in Nat /\ drawn \in Nat /\ self.width \in Nat
  BY SelfType DEF TypeOK, BanksTypeOK
<1>5. /\ w_out'.present = {} /\ w_out'.value = w_out.value
      /\ w_out' \in [present : SUBSET Nat, value : [0 .. self.width - 1 -> {DO_CONVERT(0)}]]
  BY <1>1, <1>4
<1>6. Handled = req_id + 1 /\ Handled' = Handled
  BY <1>1, <1>3, <1>4, <1>5 DEF Handled, One
<1>8. TypeOK'
  <2>1. BanksTypeOK'
    BY <1>2, <1>5 DEF TypeOK, BanksTypeOK
  <2> QED BY <1>1, <1>2, <1>4, <2>1 DEF TypeOK
<1>9. InOrder'
  BY <1>2, <1>5 DEF InOrder
<1>10. Counted'
  <2>1. DelayedEvents' = DelayedEvents
    BY <1>2 DEF DelayedEvents
  <2> QED BY <1>2, <1>6, <2>1 DEF Counted
<1>11. Counters'
  BY <1>2, <1>6, CountersKept
<1>12. InStep'
  BY <1>2, <1>5 DEF InStep, Channel
<1>13. Due'
  BY <1>2, DueKept DEF Busy
<1> QED BY <1>8, <1>9, <1>10, <1>11, <1>12, <1>13

LEMMA StepTime == ASSUME IInv, AdvanceTime PROVE IInv'
<1> USE DEF IInv
<1>1. PICK s \in {firing} \cup {e.time : e \in events} :
       /\ s <= firing /\ \A e \in events : s <= e.time
       /\ time' = s
       /\ present' = [t |-> IF s = firing THEN {0} ELSE {},
                      post |-> At("post", s), delayed_trigger |-> At("delayed_trigger", s)]
       /\ events' = {e \in events : e.time # s}
       /\ firing' = IF s = firing THEN firing + self.period ELSE firing
  BY DEF AdvanceTime
<1>2. UNCHANGED <<self, Aout, w_in, w_out, drawn, counter, counter_out, req_id,
                 printed, overrun>>
  BY DEF AdvanceTime
<1>3. overrun = {} /\ \A m \in 1 .. 6 : Waiting[m] = {}
  BY DEF AdvanceTime, Waiting
<1>4. present.delayed_trigger = {} /\ Aout.present = {} /\ w_in.present = {} /\ w_out.present = {}
  BY <1>3 DEF Waiting
<1>5. At("post", s) \in SUBSET {0} /\ At("delayed_trigger", s) \in SUBSET {0}
  BY DEF At, TypeOK
<1>6. TypeOK'
  <2>1. events' \in SUBSET events /\ IsFiniteSet(events)
    BY <1>1 DEF TypeOK
  <2>2. IsFiniteSet(events')
    BY <2>1, FS_Subset
  <2>3. s \in Nat /\ firing \in Nat /\ self.period \in Nat
    BY SelfType DEF TypeOK
  <2>4. time' \in Nat /\ firing' \in Nat
    BY <1>1, <2>3
  <2>5. BanksTypeOK'
    BY <1>2 DEF TypeOK, BanksTypeOK
  <2>6. present' \in [t : SUBSET {0}, post : SUBSET {0}, delayed_trigger : SUBSET {0}]
    BY <1>1, <1>5
  <2>7. events' \subseteq [action : {"post", "delayed_trigger"}, time : Nat, value : {0}]
    BY <2>1 DEF TypeOK
  <2> QED BY <1>2, <2>2, <2>4, <2>5, <2>6, <2>7 DEF TypeOK
<1>7. InOrder'
  BY <1>2, <1>4 DEF InOrder
<1>8. Handled' = Handled
  BY <1>2 DEF Handled
<1>9. Counted'
  <2>1. IsFiniteSet(DelayedEvents) /\ Cardinality(DelayedEvents) \in Nat
    BY DelayedFinite DEF TypeOK
  <2>2. DelayedEvents' \in SUBSET DelayedEvents
    BY <1>1 DEF DelayedEvents
  <2>3. Handled \in Nat /\ drawn \in Nat
    BY DEF TypeOK, Handled, One
  <2>4. One(w_in.present) = 0 /\ One(Aout.present) = 0 /\ One(present.delayed_trigger) = 0
    BY <1>4 DEF One
  <2>5. Cardinality(DelayedEvents') + One(present'.delayed_trigger) = Cardinality(DelayedEvents)
    <3>1. CASE present'.delayed_trigger = {}
      <4>1. DelayedEvents' = DelayedEvents
        BY <1>1, <3>1 DEF At, DelayedEvents
      <4> QED BY <2>1, <3>1, <4>1 DEF One
    <3>2. CASE present'.delayed_trigger # {}
      <4>1. PICK e \in events : e.action = "delayed_trigger" /\ e.time = s
        BY <1>1, <3>2 DEF At
      <4>2. \A d \in DelayedEvents : d.time = s => d = e
        BY <4>1 DEF DelayedEvents, TypeOK
      <4>3. e \in DelayedEvents /\ DelayedEvents' = DelayedEvents \ {e}
        BY <1>1, <4>1, <4>2 DEF DelayedEvents
      <4>4. Cardinality(DelayedEvents') = Cardinality(DelayedEvents) - 1
        BY <2>1, <4>3, FS_RemoveElement
      <4>5. One(present'.delayed_trigger) = 1
        BY <3>2 DEF One
      <4> QED BY <2>1, <4>4, <4>5
    <3> QED BY <3>1, <3>2
  <2>6. One(present'.delayed_trigger) \in Nat /\ Cardinality(DelayedEvents') \in Nat
    <3>1. IsFiniteSet(DelayedEvents')
      BY <2>1, <2>2, FS_Subset
    <3> QED BY <3>1, FS_CardinalityType DEF One
  <2> QED BY <1>2, <1>3, <1>8, <2>1, <2>3, <2>4, <2>5, <2>6 DEF Counted
<1>10. Counters'
  BY <1>2, <1>8, CountersKept
<1>11. InStep'
  BY <1>2 DEF InStep, Channel
<1>12. Due'
  <2>1. s \in Nat /\ time \in Nat /\ firing \in Nat /\ self.latency \in Nat /\ self.period \in Nat \ {0}
        /\ \A e \in events : e.time \in Nat
    BY SelfType DEF TypeOK
  <2>2. time < s
    BY DEF Due
  <2>3. time' < firing'
    BY <1>1, <2>1
  <2>4. \A e \in events' : time' < e.time
    BY <1>1, <2>1
  <2>5. DelayedEvents' \in SUBSET DelayedEvents /\ DelayedEvents \in SUBSET events
    BY <1>1 DEF DelayedEvents
  <2>6. \A e \in DelayedEvents' : e.time <= time + self.latency
    BY <2>5 DEF Due
  <2>7. \A e \in DelayedEvents' : e.time < s + self.latency
    BY <2>1, <2>2, <2>5, <2>6
  <2>8. \A e \in DelayedEvents' : e.time <= s + self.latency
    BY <2>1, <2>5, <2>7
  <2> QED BY <1>1, <1>2, <2>3, <2>4, <2>7, <2>8 DEF Due
<1> QED BY <1>6, <1>7, <1>9, <1>10, <1>11, <1>12

-----------------------------------------------------------------------------
(* The theorems *)

\* The invariant that ties both counters to the numbers of values sent.
THEOREM Inductive == Spec => []IInv
<1>1. Init => IInv
  BY InitIInv
<1>2. IInv /\ [Next]_vars => IInv'
  <2> SUFFICES ASSUME IInv, [Next]_vars PROVE IInv'
    OBVIOUS
  <2>1. CASE A_t  BY <2>1, StepAt
  <2>2. CASE A_post  BY <2>2, StepPost
  <2>3. CASE B_Bin  BY <2>3, StepBin
  <2>4. CASE Wire_in  BY <2>4, StepIn
  <2>5. CASE Wire_delayed_trigger  BY <2>5, StepDelayed
  <2>6. CASE B_w_out  BY <2>6, StepOut
  <2>7. CASE AdvanceTime  BY <2>7, StepTime
  <2>8. CASE UNCHANGED vars
    BY <2>8 DEF vars, IInv, TypeOK, BanksTypeOK, InOrder, Busy, Due, Counted, Counters,
                DelayedEvents, Handled, InStep, Channel
  <2> QED BY <2>1, <2>2, <2>3, <2>4, <2>5, <2>6, <2>7, <2>8 DEF Next
<1> QED BY <1>1, <1>2, PTL DEF Spec

\* Type correctness of the wire between the two banks, for banks of any width.
THEOREM TypeCorrect == Spec => []TypeOK
<1>1. IInv => TypeOK
  BY DEF IInv
<1> QED BY <1>1, Inductive, PTL

\* The wire's counter keeps step with A's, and never leaves its bank, whatever
\* the width, the period and the latency.
THEOREM CountersInStep == Spec => []InStep
<1>1. IInv => InStep
  BY DEF IInv
<1> QED BY <1>1, Inductive, PTL

LEMMA OneOf ==
  ASSUME NEW S, NEW x, S \subseteq {x}
  PROVE  Cardinality(S) = One(S)
<1>1. S = {} \/ S = {x}
  OBVIOUS
<1> QED BY <1>1, FS_EmptySet, FS_Singleton DEF One

\* Whatever the width, the period and the latency, A leaves its bank only after a
\* value for every three ports of it, and no value is lost before.
THEOREM ValuesKept == Spec => []NoneLost
<1>1. ASSUME IInv PROVE NoneLost
  <2> USE <1>1 DEF IInv
  <2>1. 3 * drawn <= self.width => overrun = {}
    BY SelfType DEF Counters, TypeOK
  <2>2. ASSUME overrun = {} PROVE req_id + UnderWay = drawn
    <3>1. Cardinality(Aout.present) = One(Aout.present)
      BY OneOf DEF InStep
    <3>2. Cardinality(w_in.present) = One(w_in.present)
      BY OneOf DEF InStep
    <3>3. Cardinality(w_out.present) = One(w_out.present)
      BY OneOf DEF InStep
    <3>4. Cardinality(present.delayed_trigger) = One(present.delayed_trigger)
      <4>1. present.delayed_trigger \subseteq {0}
        BY DEF TypeOK
      <4> QED BY <4>1, OneOf
    <3>5. \A S : One(S) \in Nat
      BY DEF One
    <3>6. Cardinality(DelayedEvents) \in Nat /\ req_id \in Nat /\ drawn \in Nat
      BY DelayedFinite DEF TypeOK
    <3>7. UnderWay = One(Aout.present) + One(w_in.present) + One(w_out.present)
                     + One(present.delayed_trigger) + Cardinality(DelayedEvents)
      BY <3>1, <3>2, <3>3, <3>4 DEF UnderWay, DelayedEvents
    <3>8. req_id + One(w_out.present) + One(present.delayed_trigger) + One(w_in.present)
            + One(Aout.present) + Cardinality(DelayedEvents) = drawn
      BY <2>2 DEF Counted, Handled
    <3> QED BY <3>5, <3>6, <3>7, <3>8
  <2> QED BY <2>1, <2>2 DEF NoneLost
<1>2. IInv => NoneLost
  BY <1>1
<1> QED BY <1>2, Inductive, PTL
====
