---- MODULE ContainedCache_proofs ----
(***************************************************************************)
(* Proofs about ContainedCache for every rate, delay and number of         *)
(* requests: no request is answered twice, only a collision loses one,     *)
(* none is left when a program with a fast storage ends, and every program *)
(* goes on until it ends, with fewer steps left after every step.          *)
(***************************************************************************)
EXTENDS ContainedCache, FiniteSetTheorems, TLAPS

\* When request n is issued, and when the storage answers it.
IssueTime(p, n) == p.rate * (n + 1)
AnswerTime(p, n) == IssueTime(p, n) + p.delay

Base ==
  /\ self \in Parameters /\ time \in Nat
  /\ events \subseteq [action : {"sch_input", "sch_delay"}, time : Nat,
                       id : -1 .. self.max_refs - 1]
  /\ present \in [Triggers -> SUBSET Int]
  /\ \A n \in Open : n \in Nat /\ n < req_itr
  /\ req_itr \in 0 .. self.max_refs /\ terminate \in BOOLEAN /\ fetch \in BOOLEAN
  /\ stop \in {"no", "requested", "done"}
  /\ received \subseteq 0 .. req_itr - 1

\* A value waits at a trigger only when those of the lower levels are handled.
Ordered ==
  /\ present["request"] # {} => present["sch_input"] = {}
  /\ present["resp"] # {} => present["sch_delay"] = {}
  /\ present["rqst"] # {} \/ present["response"] # {} =>
       /\ present["sch_input"] = {} /\ present["sch_delay"] = {}
       /\ present["request"] = {} /\ present["resp"] = {}

\* The time at which a request is where it is now.
Timed ==
  /\ \A e \in events :
       /\ e.time > time
       /\ e.action = "sch_input" =>
            e.id = -1 /\ e.time = IssueTime(self, req_itr) /\ req_itr < self.max_refs
       /\ e.action = "sch_delay" => e.id \in Nat /\ e.time = AnswerTime(self, e.id)
  /\ \A n \in present["sch_input"] :
       n = -1 /\ time = IssueTime(self, req_itr) /\ req_itr < self.max_refs
  /\ \A n \in present["request"] \cup present["rqst"] :
       n = req_itr - 1 /\ time = IssueTime(self, n)
  /\ \A n \in present["sch_delay"] \cup present["resp"] : n \in Nat /\ time = AnswerTime(self, n)
  /\ \A m, n \in present["response"] : m = n
  /\ \A n \in present["response"] :
       n \in Nat /\ (time = IssueTime(self, n) \/ time = AnswerTime(self, n))
  /\ \A n \in Nat : n < req_itr => IssueTime(self, n) <= time

Stored == {e.id : e \in {f \in events : f.action = "sch_delay"}}

\* A request that is not answered is in one place only.
Unique ==
  \A n \in Nat :
    /\ n \in Stored => \A p \in Triggers : n \notin present[p]
    /\ \A p, q \in Triggers : n \in present[p] /\ n \in present[q] => p = q

\* The input flow stops after its last request, and a fast storage has
\* answered all of them then.
Stopping ==
  /\ terminate <=> req_itr = self.max_refs
  /\ stop # "no" => terminate
  /\ self.delay < self.rate /\ stop # "no" => Open = {}

IInv == Base /\ Ordered /\ Timed /\ Unique /\ Stopping

-----------------------------------------------------------------------------
(* Times and triggers *)

LEMMA SelfType ==
  ASSUME self \in Parameters
  PROVE  self.rate \in Nat \ {0} /\ self.delay \in Nat \ {0} /\ self.max_refs \in Nat \ {0}
  BY ParametersAssumption

\* The requests are issued a period apart.
LEMMA IssueTimes ==
  ASSUME self \in Parameters
  PROVE  /\ \A n \in Nat : IssueTime(self, n) \in Nat /\ IssueTime(self, n + 1) = IssueTime(self, n) + self.rate
         /\ \A m, n \in Nat : m < n => IssueTime(self, m) + self.rate <= IssueTime(self, n)
<1>1. self.rate \in Nat \ {0}
  BY SelfType
<1> DEFINE r == self.rate
<1>2. r \in Nat \ {0}
  BY <1>1
<1> HIDE DEF r
<1>3. ASSUME NEW m \in Nat, NEW n \in Nat, m < n PROVE r * (m + 1) + r <= r * (n + 1)
  <2>1. PICK k \in Nat : n = m + 1 + k
    <3>1. n - m - 1 \in Nat /\ n = m + 1 + (n - m - 1)
      BY <1>3
    <3> QED BY <3>1
  <2>2. r * (n + 1) = r * (m + 1) + r + r * k
    BY <1>2, <2>1
  <2>3. r * k \in Nat
    BY <1>2
  <2>4. r * (m + 1) \in Nat
    BY <1>2
  <2> QED BY <1>2, <2>2, <2>3, <2>4
<1>4. ASSUME NEW n \in Nat PROVE r * (n + 1) \in Nat /\ r * (n + 1 + 1) = r * (n + 1) + r
  BY <1>2
<1> QED BY <1>3, <1>4 DEF IssueTime, r

LEMMA IssueTimeType ==
  ASSUME self \in Parameters, NEW n \in Nat
  PROVE  IssueTime(self, n) \in Nat /\ IssueTime(self, n + 1) = IssueTime(self, n) + self.rate
  BY IssueTimes

LEMMA IssuedLater ==
  ASSUME self \in Parameters, NEW m \in Nat, NEW n \in Nat, m < n
  PROVE  IssueTime(self, m) + self.rate <= IssueTime(self, n)
  BY IssueTimes

LEMMA TriggersAre ==
  /\ Triggers = {"sch_input", "sch_delay", "request", "resp", "rqst", "response"}
  /\ Level["sch_input"] = 1 /\ Level["sch_delay"] = 1 /\ Level["request"] = 2
  /\ Level["resp"] = 2 /\ Level["rqst"] = 3 /\ Level["response"] = 3
  BY DEF Triggers, Level

LEMMA Turns ==
  /\ Turn("sch_input") => present["sch_input"] # {}
  /\ Turn("sch_delay") => present["sch_delay"] # {}
  /\ Turn("request") \/ Turn("resp") =>
       /\ present["request"] # {} \/ present["resp"] # {}
       /\ present["sch_input"] = {} /\ present["sch_delay"] = {}
  /\ Turn("rqst") => present["rqst"] # {}
  /\ Turn("response") => present["response"] # {}
  BY TriggersAre DEF Turn

LEMMA OpenIs ==
  /\ \A n : n \in Open <=>
       \/ n \in present["request"] \/ n \in present["rqst"] \/ n \in present["sch_delay"]
       \/ n \in present["resp"] \/ n \in present["response"] \/ n \in Stored
  /\ \A n : n \in Open' <=>
       \/ n \in present'["request"] \/ n \in present'["rqst"] \/ n \in present'["sch_delay"]
       \/ n \in present'["resp"] \/ n \in present'["response"] \/ n \in Stored'
<1>1. Triggers \ {"sch_input"} = {"request", "rqst", "sch_delay", "resp", "response"}
  BY TriggersAre
<1>2. \A n : n \in Open <=> (\E p \in Triggers \ {"sch_input"} : n \in present[p]) \/ n \in Stored
  BY DEF Open, Stored
<1>3. \A n : n \in Open' <=> (\E p \in Triggers \ {"sch_input"} : n \in present'[p]) \/ n \in Stored'
  BY DEF Open, Stored
<1> QED BY <1>1, <1>2, <1>3

\* The same without the definition of Level: the six sets of values.
LEMMA UniqueIs ==
  ASSUME NEW S, NEW q,
         NEW n
  PROVE  (/\ n \in S => \A p \in Triggers : n \notin q[p]
          /\ \A p, r \in Triggers : n \in q[p] /\ n \in q[r] => p = r)
         <=>
         (/\ n \in S => n \notin q["sch_input"] /\ n \notin q["sch_delay"] /\ n \notin q["request"]
                        /\ n \notin q["resp"] /\ n \notin q["rqst"] /\ n \notin q["response"]
          /\ n \in q["sch_input"] => n \notin q["sch_delay"] /\ n \notin q["request"]
                        /\ n \notin q["resp"] /\ n \notin q["rqst"] /\ n \notin q["response"]
          /\ n \in q["sch_delay"] => n \notin q["request"]
                        /\ n \notin q["resp"] /\ n \notin q["rqst"] /\ n \notin q["response"]
          /\ n \in q["request"] => n \notin q["resp"] /\ n \notin q["rqst"] /\ n \notin q["response"]
          /\ n \in q["resp"] => n \notin q["rqst"] /\ n \notin q["response"]
          /\ n \in q["rqst"] => n \notin q["response"])
  BY TriggersAre

LEMMA UniqueNow ==
  Unique <=> \A n \in Nat :
    /\ n \in Stored =>
         /\ n \notin present["sch_input"] /\ n \notin present["sch_delay"]
         /\ n \notin present["request"] /\ n \notin present["resp"]
         /\ n \notin present["rqst"] /\ n \notin present["response"]
    /\ n \in present["sch_input"] =>
         /\ n \notin present["sch_delay"] /\ n \notin present["request"]
         /\ n \notin present["resp"] /\ n \notin present["rqst"] /\ n \notin present["response"]
    /\ n \in present["sch_delay"] =>
         /\ n \notin present["request"] /\ n \notin present["resp"]
         /\ n \notin present["rqst"] /\ n \notin present["response"]
    /\ n \in present["request"] =>
         n \notin present["resp"] /\ n \notin present["rqst"] /\ n \notin present["response"]
    /\ n \in present["resp"] => n \notin present["rqst"] /\ n \notin present["response"]
    /\ n \in present["rqst"] => n \notin present["response"]
  BY UniqueIs DEF Unique

LEMMA UniqueAfter ==
  Unique' <=> \A n \in Nat :
    /\ n \in Stored' =>
         /\ n \notin present'["sch_input"] /\ n \notin present'["sch_delay"]
         /\ n \notin present'["request"] /\ n \notin present'["resp"]
         /\ n \notin present'["rqst"] /\ n \notin present'["response"]
    /\ n \in present'["sch_input"] =>
         /\ n \notin present'["sch_delay"] /\ n \notin present'["request"]
         /\ n \notin present'["resp"] /\ n \notin present'["rqst"] /\ n \notin present'["response"]
    /\ n \in present'["sch_delay"] =>
         /\ n \notin present'["request"] /\ n \notin present'["resp"]
         /\ n \notin present'["rqst"] /\ n \notin present'["response"]
    /\ n \in present'["request"] =>
         n \notin present'["resp"] /\ n \notin present'["rqst"] /\ n \notin present'["response"]
    /\ n \in present'["resp"] => n \notin present'["rqst"] /\ n \notin present'["response"]
    /\ n \in present'["rqst"] => n \notin present'["response"]
  BY UniqueIs DEF Unique

LEMMA AnswerTimesDiffer ==
  ASSUME self \in Parameters, NEW m \in Nat, NEW n \in Nat,
         AnswerTime(self, m) = AnswerTime(self, n)
  PROVE  m = n
<1>1. IssueTime(self, m) \in Nat /\ IssueTime(self, n) \in Nat
      /\ self.delay \in Nat /\ self.rate \in Nat \ {0}
  BY SelfType, IssueTimeType
<1>2. IssueTime(self, m) = IssueTime(self, n)
  BY <1>1 DEF AnswerTime
<1>3. ~(m < n)
  <2>1. m < n => IssueTime(self, m) + self.rate <= IssueTime(self, n)
    BY IssuedLater
  <2> QED BY <1>1, <1>2, <2>1
<1>4. ~(n < m)
  <2>1. n < m => IssueTime(self, n) + self.rate <= IssueTime(self, m)
    BY IssuedLater
  <2> QED BY <1>1, <1>2, <2>1
<1> QED BY <1>3, <1>4

\* What follows from the invariant: the type invariant of the run.
LEMMA Types == IInv => TypeOK
<1> SUFFICES ASSUME IInv PROVE TypeOK
  OBVIOUS
<1> USE DEF IInv
<1>1. self \in Parameters
  BY DEF Base
<1>2. \A m, n \in Nat : AnswerTime(self, m) = AnswerTime(self, n) => m = n
  BY <1>1, AnswerTimesDiffer
<1>3. ASSUME NEW e \in events, NEW f \in events, e.action = f.action, e.time = f.time
      PROVE  e = f
  <2>1. /\ e \in [action : {"sch_input", "sch_delay"}, time : Nat, id : -1 .. self.max_refs - 1]
        /\ f \in [action : {"sch_input", "sch_delay"}, time : Nat, id : -1 .. self.max_refs - 1]
    BY DEF Base
  <2>2. e.id = f.id
    <3>1. CASE e.action = "sch_input"
      BY <1>3, <3>1 DEF Timed
    <3>2. CASE e.action = "sch_delay"
      <4>1. e.id \in Nat /\ f.id \in Nat
            /\ AnswerTime(self, e.id) = AnswerTime(self, f.id)
        BY <1>3, <3>2 DEF Timed
      <4> QED BY <1>2, <4>1
    <3> QED BY <2>1, <3>1, <3>2
  <2> QED BY <1>3, <2>1, <2>2
<1>4. ASSUME NEW p \in Triggers, NEW m \in present[p], NEW n \in present[p] PROVE m = n
  <2>1. CASE p = "sch_input" \/ p = "request" \/ p = "rqst" \/ p = "response"
    BY <2>1 DEF Timed
  <2>2. CASE p = "sch_delay" \/ p = "resp"
    BY <1>2, <2>2 DEF Timed
  <2> QED BY <2>1, <2>2, TriggersAre
<1>5. Open \subseteq 0 .. req_itr - 1
  BY DEF Base
<1>6. DOMAIN present = Triggers
  BY DEF Base
<1> QED BY <1>3, <1>4, <1>5, <1>6 DEF TypeOK, Base

LEMMA InitIInv == Init => IInv
<1> SUFFICES ASSUME Init PROVE IInv
  OBVIOUS
<1>1. self \in Parameters /\ self.rate \in Nat \ {0} /\ self.max_refs \in Nat \ {0}
  BY SelfType DEF Init
<1>2. \A p \in Triggers : present[p] = {}
  BY DEF Init, Quiet
<1>3. present["sch_input"] = {} /\ present["sch_delay"] = {} /\ present["request"] = {}
      /\ present["resp"] = {} /\ present["rqst"] = {} /\ present["response"] = {}
  BY <1>2, TriggersAre
<1>4. Stored = {}
  BY DEF Init, Stored
<1>5. Open = {}
  BY <1>3, <1>4, OpenIs
<1>6. IssueTime(self, 0) = self.rate
  BY <1>1 DEF IssueTime
<1>7. Base
  <2>1. present \in [Triggers -> SUBSET Int]
    BY DEF Init, Quiet
  <2>2. self.rate \in Nat /\ -1 \in -1 .. self.max_refs - 1 /\ req_itr \in 0 .. self.max_refs
    BY <1>1 DEF Init
  <2>3. events \subseteq [action : {"sch_input", "sch_delay"}, time : Nat,
                         id : -1 .. self.max_refs - 1]
    BY <2>2 DEF Init
  <2>4. terminate \in BOOLEAN /\ fetch \in BOOLEAN /\ stop \in {"no", "requested", "done"}
        /\ received \subseteq 0 .. req_itr - 1 /\ time \in Nat
    BY DEF Init
  <2> QED BY <1>1, <1>5, <2>1, <2>2, <2>3, <2>4 DEF Base
<1>8. Ordered /\ Unique
  BY <1>2, <1>3, <1>4 DEF Ordered, Unique
<1>9. Timed
  BY <1>1, <1>3, <1>6 DEF Init, Timed
<1>10. Stopping
  BY <1>1, <1>5 DEF Init, Stopping
<1> QED BY <1>7, <1>8, <1>9, <1>10 DEF IInv

LEMMA StepInput ==
  ASSUME IInv, input_flow_sch_input
  PROVE  /\ IInv' /\ req_itr' = req_itr + 1 /\ UNCHANGED received
         /\ \A n : n \in Open' <=> n \in Open \/ n = req_itr
<1> USE DEF IInv
<1>1. /\ present["sch_input"] # {} /\ req_itr' = req_itr + 1
      /\ present' = [present EXCEPT !["sch_input"] = {}, !["request"] = {req_itr}]
      /\ UNCHANGED <<self, time, fetch, stop, received>>
  BY Turns DEF input_flow_sch_input
<1>2. /\ present["request"] = {} /\ present["rqst"] = {} /\ present["response"] = {}
      /\ time = IssueTime(self, req_itr) /\ req_itr < self.max_refs
  BY <1>1 DEF Ordered, Timed
<1>3. /\ self \in Parameters /\ req_itr \in Nat /\ req_itr' \in Nat /\ time \in Nat
      /\ self.rate \in Nat \ {0} /\ self.max_refs \in Nat /\ self.delay \in Nat \ {0}
      /\ present \in [Triggers -> SUBSET Int]
  BY <1>1, SelfType DEF Base
<1>4. /\ present' \in [Triggers -> SUBSET Int]
      /\ present'["sch_input"] = {} /\ present'["request"] = {req_itr}
      /\ present'["sch_delay"] = present["sch_delay"] /\ present'["resp"] = present["resp"]
      /\ present'["rqst"] = {} /\ present'["response"] = {}
  BY <1>1, <1>2, <1>3, TriggersAre
<1> DEFINE e == [action |-> "sch_input", time |-> time + self.rate, id |-> -1]
<1>5. \/ req_itr' < self.max_refs /\ events' = events \cup {e} /\ UNCHANGED terminate
      \/ req_itr' = self.max_refs /\ events' = events /\ terminate'
  BY <1>1, <1>2, <1>3 DEF input_flow_sch_input, MoreRefs
<1>6. /\ e \in [action : {"sch_input", "sch_delay"}, time : Nat, id : -1 .. self.max_refs - 1]
      /\ e.action = "sch_input" /\ e.id = -1 /\ e.time > time
      /\ e.time = IssueTime(self, req_itr')
  <2>1. IssueTime(self, req_itr + 1) = IssueTime(self, req_itr) + self.rate
    BY <1>3, IssueTimeType
  <2>2. time + self.rate \in Nat /\ time + self.rate > time /\ -1 \in -1 .. self.max_refs - 1
    BY <1>3
  <2> QED BY <1>1, <1>2, <2>1, <2>2
<1> HIDE DEF e
<1>7. Stored' = Stored
  BY <1>5, <1>6 DEF Stored
<1>8. \A n : n \in Open' <=> n \in Open \/ n = req_itr
  BY <1>2, <1>4, <1>7, OpenIs
<1>9. Base'
  <2>1. events' \subseteq [action : {"sch_input", "sch_delay"}, time : Nat,
                          id : -1 .. self.max_refs - 1]
    BY <1>5, <1>6 DEF Base
  <2>2. \A n \in Open' : n \in Nat /\ n < req_itr'
    BY <1>1, <1>3, <1>8 DEF Base
  <2>3. req_itr' \in 0 .. self.max_refs /\ received' \subseteq 0 .. req_itr' - 1
    BY <1>1, <1>2, <1>3 DEF Base
  <2>4. terminate' \in BOOLEAN
    BY <1>1 DEF input_flow_sch_input, Base
  <2> QED BY <1>1, <1>3, <1>4, <2>1, <2>2, <2>3, <2>4 DEF Base
<1>10. Ordered'
  BY <1>2, <1>4 DEF Ordered
<1>11. Timed'
  <2>1. ASSUME NEW f \in events'
        PROVE  /\ f.time > time
               /\ f.action = "sch_input" =>
                    f.id = -1 /\ f.time = IssueTime(self, req_itr') /\ req_itr' < self.max_refs
               /\ f.action = "sch_delay" => f.id \in Nat /\ f.time = AnswerTime(self, f.id)
    <3>1. CASE f = e
      <4>1. req_itr' < self.max_refs
        <5>1. e \notin events
          <6>1. e \in events => e.time = IssueTime(self, req_itr)
            BY <1>6 DEF Timed
          <6> QED BY <1>2, <1>3, <1>6, <6>1
        <5> QED BY <1>5, <2>1, <3>1, <5>1
      <4> QED BY <1>6, <3>1, <4>1
    <3>2. CASE f \in events /\ f.action = "sch_input"
      <4>1. f.time > time /\ f.time = IssueTime(self, req_itr)
        BY <3>2 DEF Timed
      <4> QED BY <1>2, <1>3, <4>1
    <3>3. CASE f \in events /\ f.action # "sch_input"
      BY <3>3 DEF Timed
    <3> QED BY <1>5, <2>1, <3>1, <3>2, <3>3
  <2>2. \A n \in Nat : n < req_itr' => IssueTime(self, n) <= time
    <3>1. ASSUME NEW n \in Nat, n < req_itr' PROVE IssueTime(self, n) <= time
      <4>1. n < req_itr \/ n = req_itr
        BY <1>1, <1>3, <3>1
      <4> QED BY <1>2, <1>3, <4>1 DEF Timed
    <3> QED BY <3>1
  <2>3. \A n \in present["sch_delay"] \cup present["resp"] : n \in Nat /\ time = AnswerTime(self, n)
    BY DEF Timed
  <2>4. req_itr = req_itr' - 1
    BY <1>1, <1>3
  <2> QED BY <1>1, <1>2, <1>4, <2>1, <2>2, <2>3, <2>4 DEF Timed
<1>12. Unique'
  <2>1. ASSUME NEW n \in Nat, n \in present["sch_delay"] \/ n \in present["resp"] \/ n \in Stored
        PROVE  n # req_itr
    <3>1. n \in Open
      BY <2>1, OpenIs
    <3> QED BY <1>3, <3>1 DEF Base
  <2> QED BY <1>4, <1>7, <2>1, UniqueNow, UniqueAfter
<1>13. Stopping'
  BY <1>1, <1>2, <1>3, <1>5 DEF Stopping, Base
<1> QED BY <1>1, <1>8, <1>9, <1>10, <1>11, <1>12, <1>13

LEMMA StepResponse ==
  ASSUME IInv, input_flow_resp
  PROVE  /\ IInv' /\ UNCHANGED req_itr
         /\ \A n : n \in Open' <=> n \in Open /\ n \notin present["response"]
         /\ received' = present["response"] /\ present["response"] # {}
<1> USE DEF IInv
<1>1. /\ present["response"] # {} /\ received' = present["response"]
      /\ stop' = (IF terminate THEN "requested" ELSE stop)
      /\ present' = [present EXCEPT !["response"] = {}]
      /\ UNCHANGED <<self, time, events, req_itr, terminate, fetch>>
  BY Turns DEF input_flow_resp, StopsNow
<1>2. /\ present["sch_input"] = {} /\ present["sch_delay"] = {}
      /\ present["request"] = {} /\ present["resp"] = {}
  BY <1>1 DEF Ordered
<1>3. present \in [Triggers -> SUBSET Int] /\ self \in Parameters
      /\ self.rate \in Nat \ {0} /\ self.delay \in Nat \ {0} /\ time \in Nat /\ req_itr \in Nat
  BY SelfType DEF Base
<1>4. /\ present' \in [Triggers -> SUBSET Int]
      /\ present'["sch_input"] = {} /\ present'["request"] = {}
      /\ present'["sch_delay"] = {} /\ present'["resp"] = {}
      /\ present'["rqst"] = present["rqst"] /\ present'["response"] = {}
  BY <1>1, <1>2, <1>3, TriggersAre
<1>5. Stored' = Stored
  BY <1>1 DEF Stored
<1>6. \A n \in present["response"] : n \in Nat /\ n < req_itr
  BY OpenIs DEF Base
<1>7. \A n : n \in Open' <=> n \in Open /\ n \notin present["response"]
  <2>1. \A n \in present["response"] : n \notin Stored /\ n \notin present["rqst"]
    BY <1>6, UniqueNow
  <2> QED BY <1>2, <1>4, <1>5, <2>1, OpenIs
<1>8. Base'
  BY <1>1, <1>4, <1>6, <1>7 DEF Base
<1>9. Ordered'
  BY <1>4 DEF Ordered
<1>10. Timed'
  BY <1>1, <1>4 DEF Timed
<1>11. Unique'
  BY <1>4, <1>5, UniqueNow, UniqueAfter
<1>12. Stopping'
  <2>1. ASSUME terminate, self.delay < self.rate, NEW m \in Open' PROVE FALSE
    <3>1. PICK n \in present["response"] : n \in Nat /\ n < req_itr
      BY <1>1, <1>6
    <3>2. m \in Nat /\ m < req_itr /\ m # n
      BY <1>7, <2>1, <3>1 DEF Base
    <3>3. req_itr - 1 \in Nat /\ IssueTime(self, req_itr - 1) <= time
      BY <1>3, <3>1 DEF Timed
    <3>4. ASSUME NEW k \in Nat, k < req_itr - 1 PROVE AnswerTime(self, k) < time
      <4>1. IssueTime(self, k) + self.rate <= IssueTime(self, req_itr - 1)
            /\ IssueTime(self, k) \in Nat /\ IssueTime(self, req_itr - 1) \in Nat
        BY <1>3, <3>3, <3>4, IssueTimeType, IssuedLater
      <4> QED BY <1>3, <2>1, <3>3, <4>1 DEF AnswerTime
    <3>5. n = req_itr - 1
      <4>1. IssueTime(self, n) <= AnswerTime(self, n) /\ IssueTime(self, n) \in Nat
            /\ AnswerTime(self, n) \in Nat
        BY <1>3, <3>1, IssueTimeType DEF AnswerTime
      <4>2. time = IssueTime(self, n) \/ time = AnswerTime(self, n)
        BY <3>1 DEF Timed
      <4>3. n < req_itr - 1 => AnswerTime(self, n) < time
        BY <3>1, <3>4
      <4> QED BY <1>3, <3>1, <3>3, <4>1, <4>2, <4>3
    <3>6. m < req_itr - 1
      BY <1>3, <3>2, <3>5
    <3>7. m \in present["rqst"] \/ m \in Stored
      BY <1>4, <1>5, <2>1, OpenIs
    <3>8. CASE m \in present["rqst"]
      BY <3>2, <3>5, <3>8 DEF Timed
    <3>9. CASE m \in Stored
      <4>1. PICK e \in events : e.action = "sch_delay" /\ e.id = m
        BY <3>9 DEF Stored
      <4>2. e.time > time /\ e.time = AnswerTime(self, m) /\ e.time \in Nat
        BY <4>1 DEF Timed, Base
      <4> QED BY <1>3, <3>2, <3>4, <3>6, <4>2
    <3> QED BY <3>7, <3>8, <3>9
  <2>2. ASSUME self.delay < self.rate, stop' # "no" PROVE Open' = {}
    <3>1. terminate
      BY <1>1, <2>2 DEF Stopping
    <3> QED BY <2>1, <2>2, <3>1
  <2> QED BY <1>1, <2>2 DEF Stopping
<1> QED BY <1>1, <1>7, <1>8, <1>9, <1>10, <1>11, <1>12

LEMMA StepDelay ==
  ASSUME IInv, storage_sch_delay
  PROVE  IInv' /\ UNCHANGED <<req_itr, received>> /\ \A n : n \in Open' <=> n \in Open
<1> USE DEF IInv
<1>1. /\ present["sch_delay"] # {}
      /\ present' = [present EXCEPT !["sch_delay"] = {}, !["resp"] = present["sch_delay"]]
      /\ UNCHANGED <<self, time, events, req_itr, terminate, fetch, stop, received>>
  BY Turns DEF storage_sch_delay
<1>2. present["resp"] = {} /\ present["rqst"] = {} /\ present["response"] = {}
  BY <1>1 DEF Ordered
<1>3. present \in [Triggers -> SUBSET Int]
  BY DEF Base
<1>4. /\ present' \in [Triggers -> SUBSET Int]
      /\ present'["sch_input"] = present["sch_input"]
      /\ present'["request"] = present["request"]
      /\ present'["sch_delay"] = {} /\ present'["resp"] = present["sch_delay"]
      /\ present'["rqst"] = {} /\ present'["response"] = {}
  BY <1>1, <1>2, <1>3, TriggersAre
<1>5. Stored' = Stored
  BY <1>1 DEF Stored
<1>6. \A n : n \in Open' <=> n \in Open
  BY <1>2, <1>4, <1>5, OpenIs
<1>7. Base'
  BY <1>1, <1>4, <1>6 DEF Base
<1>8. Ordered'
  BY <1>2, <1>4 DEF Ordered
<1>9. Timed'
  BY <1>1, <1>4 DEF Timed
<1>10. Unique'
  BY <1>4, <1>5, UniqueNow, UniqueAfter
<1>11. Stopping'
  BY <1>1, <1>6 DEF Stopping
<1> QED BY <1>1, <1>6, <1>7, <1>8, <1>9, <1>10, <1>11

LEMMA StepRequest ==
  ASSUME IInv, storage_rqst
  PROVE  IInv' /\ UNCHANGED <<req_itr, received>> /\ \A n : n \in Open' <=> n \in Open
<1> USE DEF IInv
<1>1. /\ present["rqst"] # {}
      /\ events' = events \cup
           {[action |-> "sch_delay", time |-> time + self.delay, id |-> n] : n \in present["rqst"]}
      /\ present' = [present EXCEPT !["rqst"] = {}]
      /\ UNCHANGED <<self, time, req_itr, terminate, fetch, stop, received>>
  BY Turns DEF storage_rqst
<1>2. /\ present["sch_input"] = {} /\ present["sch_delay"] = {}
      /\ present["request"] = {} /\ present["resp"] = {}
  BY <1>1 DEF Ordered
<1>3. PICK n \in present["rqst"] : n \in Nat /\ n < req_itr
  BY <1>1, OpenIs DEF Base
<1>4. /\ present["rqst"] = {n} /\ time = IssueTime(self, n)
      /\ self.delay \in Nat \ {0} /\ time \in Nat /\ self.max_refs \in Nat
      /\ req_itr \in 0 .. self.max_refs /\ present \in [Triggers -> SUBSET Int]
  <2>1. \A m \in present["rqst"] : m = n /\ time = IssueTime(self, m)
    BY DEF Timed
  <2> QED BY <2>1, SelfType DEF Base
<1>5. PICK e \in [action : {"sch_input", "sch_delay"}, time : Nat, id : -1 .. self.max_refs - 1] :
        e = [action |-> "sch_delay", time |-> time + self.delay, id |-> n]
  <2>1. n \in -1 .. self.max_refs - 1
    BY <1>3, <1>4
  <2>2. time + self.delay \in Nat
    BY <1>4
  <2> QED BY <2>1, <2>2
<1>6. /\ events' = events \cup {e} /\ e.action = "sch_delay" /\ e.id = n
      /\ e.time > time /\ e.time = AnswerTime(self, n)
  BY <1>1, <1>4, <1>5 DEF AnswerTime
<1>7. /\ present' \in [Triggers -> SUBSET Int]
      /\ present'["sch_input"] = {} /\ present'["request"] = {}
      /\ present'["sch_delay"] = {} /\ present'["resp"] = {}
      /\ present'["rqst"] = {} /\ present'["response"] = present["response"]
  BY <1>1, <1>2, <1>4, TriggersAre
<1>8. Stored' = Stored \cup {n}
  BY <1>6 DEF Stored
<1>9. \A m : m \in Open' <=> m \in Open
  BY <1>2, <1>4, <1>7, <1>8, OpenIs
<1>10. Base'
  BY <1>1, <1>6, <1>7, <1>9 DEF Base
<1>11. Ordered'
  BY <1>7 DEF Ordered
<1>12. Timed'
  <2>1. \A f \in events' :
       /\ f.time > time
       /\ f.action = "sch_input" =>
            f.id = -1 /\ f.time = IssueTime(self, req_itr) /\ req_itr < self.max_refs
       /\ f.action = "sch_delay" => f.id \in Nat /\ f.time = AnswerTime(self, f.id)
    BY <1>3, <1>6 DEF Timed
  <2> QED BY <1>1, <1>7, <2>1 DEF Timed
<1>13. Unique'
  <2>1. n \notin present["response"] /\ n \notin Stored
    BY <1>3, UniqueNow
  <2> QED BY <1>7, <1>8, <2>1, UniqueNow, UniqueAfter
<1>14. Stopping'
  BY <1>1, <1>9 DEF Stopping
<1> QED BY <1>1, <1>9, <1>10, <1>11, <1>12, <1>13, <1>14

LEMMA StepCache ==
  ASSUME IInv, cache_request_or_resp
  PROVE  /\ IInv' /\ UNCHANGED <<req_itr, received>>
         /\ \/ \A n : n \in Open' <=> n \in Open
            \/ /\ present["request"] # {} /\ present["resp"] # {}
               /\ \A n : n \in Open' <=> n \in Open /\ n \notin present["resp"]
<1> USE DEF IInv
<1>1. /\ present["request"] # {} \/ present["resp"] # {}
      /\ present["sch_input"] = {} /\ present["sch_delay"] = {}
      /\ UNCHANGED <<self, time, events, req_itr, terminate, stop, received>>
  BY Turns DEF cache_request_or_resp
<1>2. present["rqst"] = {} /\ present["response"] = {}
  BY <1>1 DEF Ordered
<1>3. self \in Parameters /\ present \in [Triggers -> SUBSET Int] /\ fetch \in BOOLEAN
  BY DEF Base
<1>4. Stored' = Stored
  BY <1>1 DEF Stored
<1>5. CASE present["request"] # {}
  <2>1. PICK n \in present["request"] :
          /\ present' = [present EXCEPT !["request"] = {}, !["resp"] = {},
                           !["rqst"] = Served(n).rqst, !["response"] = Served(n).response]
          /\ fetch' = ~fetch
    BY <1>5 DEF cache_request_or_resp, RequestFirst
  <2>2. n \in Nat /\ n < req_itr
    BY OpenIs DEF Base
  <2>3. present["request"] = {n} /\ n = req_itr - 1 /\ time = IssueTime(self, n)
    BY DEF Timed
  <2>4. \/ Served(n).rqst = {n} /\ Served(n).response = {}
        \/ Served(n).rqst = {} /\ Served(n).response = {n}
    BY <1>3 DEF Served
  <2>5. /\ present' \in [Triggers -> SUBSET Int]
        /\ present'["sch_input"] = {} /\ present'["sch_delay"] = {}
        /\ present'["request"] = {} /\ present'["resp"] = {}
        /\ \/ present'["rqst"] = {n} /\ present'["response"] = {}
           \/ present'["rqst"] = {} /\ present'["response"] = {n}
    BY <1>1, <1>3, <2>1, <2>2, <2>4, TriggersAre
  <2>6. \A m : m \in Open' <=> m = n \/ m \in Stored
    BY <1>4, <2>5, OpenIs
  <2>7. \A m : m \in Open <=> m = n \/ m \in present["resp"] \/ m \in Stored
    BY <1>1, <1>2, <2>3, OpenIs
  <2>8. \A m \in present["resp"] : m # n /\ m \notin Stored
    <3>1. ASSUME NEW m \in present["resp"] PROVE m # n /\ m \notin Stored
      <4>1. m \in Nat
        BY DEF Timed
      <4> QED BY <4>1, UniqueNow
    <3> QED BY <3>1
  <2>9. \A m : m \in Open' <=> m \in Open /\ m \notin present["resp"]
    BY <2>6, <2>7, <2>8
  <2>10. Base'
    BY <1>1, <2>1, <2>5, <2>9 DEF Base
  <2>11. Ordered'
    BY <2>5 DEF Ordered
  <2>12. Timed'
    BY <1>1, <2>2, <2>3, <2>5 DEF Timed
  <2>13. Unique'
    <3>1. n \notin Stored
      BY <2>2, UniqueNow
    <3> QED BY <1>4, <2>5, <3>1, UniqueAfter
  <2>14. Stopping'
    BY <1>1, <2>9 DEF Stopping
  <2> QED BY <1>1, <1>5, <2>9, <2>10, <2>11, <2>12, <2>13, <2>14
<1>6. CASE present["request"] = {}
  <2>1. present' = [present EXCEPT !["request"] = {}, !["resp"] = {},
                                   !["response"] = present["resp"]]
        /\ UNCHANGED fetch
    BY <1>6 DEF cache_request_or_resp, RequestFirst
  <2>2. /\ present' \in [Triggers -> SUBSET Int]
        /\ present'["sch_input"] = {} /\ present'["sch_delay"] = {}
        /\ present'["request"] = {} /\ present'["resp"] = {}
        /\ present'["rqst"] = {} /\ present'["response"] = present["resp"]
    BY <1>1, <1>2, <1>3, <2>1, TriggersAre
  <2>3. \A m : m \in Open' <=> m \in Open
    BY <1>1, <1>2, <1>4, <1>6, <2>2, OpenIs
  <2>4. Base'
    BY <1>1, <2>1, <2>2, <2>3 DEF Base
  <2>5. Ordered'
    BY <2>2 DEF Ordered
  <2>6. Timed'
    <3>1. \A m, n \in present["resp"] : m = n
      BY <1>3, AnswerTimesDiffer DEF Timed
    <3> QED BY <1>1, <2>2, <3>1 DEF Timed
  <2>7. Unique'
    BY <1>4, <2>2, UniqueNow, UniqueAfter
  <2>8. Stopping'
    BY <1>1, <2>3 DEF Stopping
  <2> QED BY <1>1, <2>3, <2>4, <2>5, <2>6, <2>7, <2>8
<1> QED BY <1>5, <1>6

LEMMA StepTime ==
  ASSUME IInv, AdvanceTime
  PROVE  IInv' /\ UNCHANGED <<req_itr, received>> /\ \A n : n \in Open' <=> n \in Open
<1> USE DEF IInv
<1>1. PICK e \in events :
       /\ \A f \in events : e.time <= f.time
       /\ time' = e.time
       /\ present' = [p \in Triggers |-> {f.id : f \in {g \in events : g.time = e.time /\ g.action = p}}]
       /\ events' = {f \in events : f.time # e.time}
  BY DEF AdvanceTime
<1>2. present = Quiet /\ stop = "no" /\ UNCHANGED <<self, req_itr, terminate, fetch, stop, received>>
  BY DEF AdvanceTime
<1>3. present["sch_input"] = {} /\ present["sch_delay"] = {} /\ present["request"] = {}
      /\ present["resp"] = {} /\ present["rqst"] = {} /\ present["response"] = {}
  BY <1>2, TriggersAre DEF Quiet
<1>4. events \subseteq [action : {"sch_input", "sch_delay"}, time : Nat,
                       id : -1 .. self.max_refs - 1] /\ self.max_refs \in Nat /\ time \in Nat
      /\ req_itr \in Nat /\ self \in Parameters
  BY SelfType DEF Base
<1>5. present' \in [Triggers -> SUBSET Int]
  BY <1>1, <1>4
<1>6. /\ present'["request"] = {} /\ present'["resp"] = {}
      /\ present'["rqst"] = {} /\ present'["response"] = {}
  <2>1. \A g \in events : g.action # "request" /\ g.action # "resp"
                          /\ g.action # "rqst" /\ g.action # "response"
    BY <1>4
  <2> QED BY <1>1, <2>1, TriggersAre
<1>7. /\ \A n \in present'["sch_input"] :
            \E f \in events : f.time = e.time /\ f.action = "sch_input" /\ f.id = n
      /\ \A n : n \in present'["sch_delay"] <=>
            \E f \in events : f.time = e.time /\ f.action = "sch_delay" /\ f.id = n
  BY <1>1, TriggersAre
<1>8. \A n : n \in Stored' <=>
        \E f \in events : f.time # e.time /\ f.action = "sch_delay" /\ f.id = n
  BY <1>1 DEF Stored
<1>9. \A n : n \in Stored <=> \E f \in events : f.action = "sch_delay" /\ f.id = n
  BY DEF Stored
<1>10. \A n : n \in Open' <=> n \in Open
  BY <1>3, <1>6, <1>7, <1>8, <1>9, OpenIs
<1>11. e.time \in Nat /\ e.time > time
  BY <1>4 DEF Timed
<1>12. Base'
  BY <1>1, <1>2, <1>5, <1>10, <1>11 DEF Base
<1>13. Ordered'
  BY <1>6 DEF Ordered
<1>14. Timed'
  <2>1. \A f \in events' :
       /\ f.time > time'
       /\ f.action = "sch_input" =>
            f.id = -1 /\ f.time = IssueTime(self, req_itr) /\ req_itr < self.max_refs
       /\ f.action = "sch_delay" => f.id \in Nat /\ f.time = AnswerTime(self, f.id)
    <3>1. ASSUME NEW f \in events' PROVE f \in events /\ f.time > time'
      <4>1. f \in events /\ f.time # e.time /\ e.time <= f.time /\ f.time \in Nat
        BY <1>1, <1>4
      <4> QED BY <1>1, <1>11, <4>1
    <3> QED BY <3>1 DEF Timed
  <2>2. \A n \in present'["sch_input"] :
          n = -1 /\ time' = IssueTime(self, req_itr) /\ req_itr < self.max_refs
    BY <1>1, <1>7 DEF Timed
  <2>3. \A n \in present'["sch_delay"] : n \in Nat /\ time' = AnswerTime(self, n)
    BY <1>1, <1>7 DEF Timed
  <2>4. \A n \in Nat : n < req_itr => IssueTime(self, n) <= time'
    <3>1. ASSUME NEW n \in Nat, n < req_itr PROVE IssueTime(self, n) <= time'
      <4>1. IssueTime(self, n) <= time /\ IssueTime(self, n) \in Nat
        BY <1>4, <3>1, IssueTimeType DEF Timed
      <4> QED BY <1>1, <1>4, <1>11, <4>1
    <3> QED BY <3>1
  <2> QED BY <1>2, <1>6, <2>1, <2>2, <2>3, <2>4 DEF Timed
<1>15. Unique'
  <2>1. ASSUME NEW n \in Nat PROVE n \notin present'["sch_input"]
    BY <1>7, <2>1 DEF Timed
  <2>2. ASSUME NEW n \in Nat, n \in Stored', n \in present'["sch_delay"] PROVE FALSE
    <3>1. PICK f \in events : f.time # e.time /\ f.action = "sch_delay" /\ f.id = n
      BY <1>8, <2>2
    <3>2. PICK g \in events : g.time = e.time /\ g.action = "sch_delay" /\ g.id = n
      BY <1>7, <2>2
    <3> QED BY <3>1, <3>2 DEF Timed
  <2> QED BY <1>6, <2>1, <2>2, UniqueAfter
<1>16. Stopping'
  BY <1>2 DEF Stopping
<1> QED BY <1>2, <1>10, <1>12, <1>13, <1>14, <1>15, <1>16

LEMMA StepStill ==
  ASSUME IInv, StopTag \/ Ended \/ UNCHANGED vars
  PROVE  IInv' /\ UNCHANGED <<req_itr, received>> /\ \A n : n \in Open' <=> n \in Open
<1>1. UNCHANGED <<self, time, events, present, req_itr, terminate, fetch, received>>
      /\ stop' \in {stop, "done"} /\ (stop' # "no" => stop # "no")
  BY DEF StopTag, Ended, vars
<1>2. Open' = Open /\ Stored' = Stored
  BY <1>1 DEF Open, Stored
<1> QED BY <1>1, <1>2 DEF IInv, Base, Ordered, Timed, Unique, Stopping

-----------------------------------------------------------------------------
(* The way to the end *)

LEMMA LeastNatural ==
  ASSUME NEW S \in SUBSET Nat, S # {}
  PROVE  \E m \in S : \A j \in S : m <= j
<1>1. PICK m \in S : \A j \in S : ~ (<<j, m>> \in OpToRel(<, Nat))
  BY NatLessThanWellFounded, WFMin, Zenon
<1>2. \A j \in S : ~ (j < m)
  BY <1>1 DEF OpToRel
<1> QED BY <1>2

\* The parts of StepsLeft.
LEMMA PortPart == ASSUME NEW p PROVE PortSteps(p) \in Nat
  BY DEF PortSteps, Leads

LEMMA LeadsAre ==
  \A v : /\ Leads(v, 1) = (IF v = {} THEN 0 ELSE 1) /\ Leads(v, 2) = (IF v = {} THEN 0 ELSE 2)
         /\ Leads(v, 3) = (IF v = {} THEN 0 ELSE 3) /\ Leads(v, 6) = (IF v = {} THEN 0 ELSE 6)
         /\ Leads(v, 7) = (IF v = {} THEN 0 ELSE 7)
  BY DEF Leads

LEMMA StopPart ==
  ASSUME IInv
  PROVE  /\ StopSteps \in Nat
         /\ stop = "no" => StopSteps = 2
         /\ stop = "requested" => StopSteps = 1
         /\ stop' = stop => StopSteps' = StopSteps
         /\ stop' = "requested" => StopSteps' = 1
         /\ stop' = "done" => StopSteps' = 0
  BY DEF StopSteps, IInv, Base

LEMMA IssuePart == ASSUME IInv PROVE self.max_refs \in Nat /\ req_itr \in 0 .. self.max_refs
  BY SelfType DEF IInv, Base

LEMMA StepsLeftIs == ASSUME IInv, IsFiniteSet(events) PROVE StepsLeft \in Nat
<1>1. Cardinality(events) \in Nat
  BY FS_CardinalityType
<1>2. 12 * (self.max_refs - req_itr) \in Nat
  BY IssuePart
<1> QED BY <1>1, <1>2, PortPart, StopPart DEF StepsLeft

\* A step that issues no request, or one, and that does not take a stop back.
LEMMA Nearer ==
  ASSUME IInv, IsFiniteSet(events), IsFiniteSet(events'), self' = self,
         req_itr' \in Nat, StopSteps' \in Nat, StopSteps' <= StopSteps,
         PortSteps(present') + 5 * Cardinality(events') + 12 * req_itr
           < PortSteps(present) + 5 * Cardinality(events) + 12 * req_itr'
  PROVE  StepsLeft' < StepsLeft
<1>1. Cardinality(events) \in Nat /\ Cardinality(events') \in Nat
  BY FS_CardinalityType
<1>2. PortSteps(present) \in Nat /\ PortSteps(present') \in Nat
  BY PortPart
<1>3. PICK m \in Nat, r \in Nat, q \in Nat : m = self.max_refs /\ r = req_itr /\ q = req_itr'
  BY IssuePart
<1>4. /\ StepsLeft = 12 * (m - r) + 5 * Cardinality(events) + PortSteps(present) + StopSteps
      /\ StepsLeft' = 12 * (m - q) + 5 * Cardinality(events') + PortSteps(present') + StopSteps'
  BY <1>3 DEF StepsLeft
<1>5. StopSteps \in Nat
  BY StopPart
<1> QED BY <1>1, <1>2, <1>3, <1>4, <1>5

LEMMA OneMore ==
  ASSUME IsFiniteSet(events), NEW e, events' = events \/ events' = events \cup {e}
  PROVE  /\ IsFiniteSet(events') /\ Cardinality(events') \in Nat
         /\ Cardinality(events') <= Cardinality(events) + 1
<1>1. Cardinality(events) \in Nat
  BY FS_CardinalityType
<1>2. CASE events' = events
  BY <1>1, <1>2
<1>3. CASE events' = events \cup {e}
  <2>1. IsFiniteSet(events') /\ (Cardinality(events') = Cardinality(events)
                                 \/ Cardinality(events') = Cardinality(events) + 1)
    BY <1>3, FS_AddElement
  <2> QED BY <1>1, <2>1
<1> QED BY <1>2, <1>3

LEMMA InputNears ==
  ASSUME IInv, IsFiniteSet(events), StillToCome, input_flow_sch_input
  PROVE  StillToCome' /\ IsFiniteSet(events') /\ StepsLeft' < StepsLeft
<1>1. /\ present["sch_input"] # {} /\ req_itr' = req_itr + 1
      /\ present' = [present EXCEPT !["sch_input"] = {}, !["request"] = {req_itr}]
      /\ UNCHANGED <<self, stop>>
  BY Turns DEF input_flow_sch_input
<1>2. present["request"] = {}
  BY <1>1 DEF IInv, Ordered
<1>3. PICK e : /\ e.action = "sch_input"
               /\ \/ events' = events \cup {e} /\ UNCHANGED terminate
                  \/ events' = events /\ terminate'
  <2> DEFINE e == [action |-> "sch_input", time |-> time + self.rate, id |-> -1]
  <2>1. e.action = "sch_input"
    OBVIOUS
  <2> QED BY <2>1 DEF input_flow_sch_input
<1>4. IsFiniteSet(events') /\ Cardinality(events') <= Cardinality(events) + 1
  BY <1>3, OneMore
<1>5. StillToCome'
  <2>1. req_itr \in Open'
    BY StepInput
  <2>2. ~terminate' => e \in events'
    BY <1>3
  <2>3. stop' # "done"
    BY <1>1, TriggersAre DEF StillToCome, Quiet
  <2> QED BY <1>3, <2>1, <2>2, <2>3 DEF StillToCome
<1>6. /\ present'["sch_input"] = {} /\ present'["request"] = {req_itr}
      /\ present'["sch_delay"] = present["sch_delay"] /\ present'["resp"] = present["resp"]
      /\ present'["rqst"] = present["rqst"] /\ present'["response"] = present["response"]
  BY <1>1, TriggersAre DEF IInv, Base
<1>7. PortSteps(present') = PortSteps(present) + 6 /\ PortSteps(present) \in Nat
  <2>1. PICK a \in Nat, b \in Nat, c \in Nat, d \in Nat :
          /\ a = Leads(present["sch_delay"], 3) /\ b = Leads(present["resp"], 2)
          /\ c = Leads(present["rqst"], 6) /\ d = Leads(present["response"], 1)
    BY LeadsAre
  <2>2. PortSteps(present) = 1 + a + 0 + b + c + d
    BY <1>1, <1>2, <2>1, LeadsAre DEF PortSteps
  <2>3. PortSteps(present') = 0 + a + 7 + b + c + d
    BY <1>6, <2>1, LeadsAre DEF PortSteps
  <2> QED BY <2>2, <2>3
<1>8. StopSteps' = StopSteps /\ StopSteps \in Nat
  BY <1>1, StopPart
<1>9. StepsLeft' < StepsLeft
  <2>1. req_itr \in Nat /\ req_itr' \in Nat /\ 12 * req_itr' = 12 * req_itr + 12
    BY <1>1, IssuePart
  <2>2. Cardinality(events) \in Nat /\ Cardinality(events') \in Nat
    BY <1>4, FS_CardinalityType
  <2>3. PortSteps(present') + 5 * Cardinality(events') + 12 * req_itr
          < PortSteps(present) + 5 * Cardinality(events) + 12 * req_itr'
    <3>1. PICK p \in Nat, c \in Nat, d \in Nat, r \in Nat :
            /\ p = PortSteps(present) /\ c = Cardinality(events)
            /\ d = Cardinality(events') /\ r = 12 * req_itr
      BY <1>7, <2>1, <2>2
    <3>2. d <= c + 1
      BY <1>4, <3>1
    <3>3. (p + 6) + 5 * d + r < p + 5 * c + (r + 12)
      BY <3>2
    <3> QED BY <1>7, <2>1, <3>1, <3>3
  <2> QED BY <1>1, <1>4, <1>8, <2>1, <2>3, Nearer
<1> QED BY <1>4, <1>5, <1>9

LEMMA ResponseNears ==
  ASSUME IInv, StillToCome, IsFiniteSet(events), input_flow_resp
  PROVE  StillToCome' /\ IsFiniteSet(events') /\ StepsLeft' < StepsLeft
<1>1. /\ present["response"] # {}
      /\ stop' = (IF terminate THEN "requested" ELSE stop)
      /\ present' = [present EXCEPT !["response"] = {}]
      /\ UNCHANGED <<self, events, req_itr, terminate>>
  BY Turns DEF input_flow_resp, StopsNow
<1>2. /\ present'["response"] = {}
      /\ present'["sch_input"] = present["sch_input"]
      /\ present'["sch_delay"] = present["sch_delay"]
      /\ present'["request"] = present["request"] /\ present'["resp"] = present["resp"]
      /\ present'["rqst"] = present["rqst"]
  BY <1>1, TriggersAre DEF IInv, Base
<1>3. stop \in {"no", "requested"}
  BY <1>1, TriggersAre DEF StillToCome, Quiet, IInv, Base
<1>4. StillToCome'
  BY <1>1, <1>2, <1>3 DEF StillToCome
<1>5. PortSteps(present') < PortSteps(present)
  BY <1>1, <1>2 DEF PortSteps, Leads
<1>6. StopSteps' \in Nat /\ StopSteps' <= StopSteps
  BY <1>1, <1>3, StopPart
<1>7. Cardinality(events) \in Nat /\ Cardinality(events') = Cardinality(events)
  BY <1>1, FS_CardinalityType
<1>8. req_itr \in Nat /\ req_itr' = req_itr
  BY <1>1, IssuePart
<1>9. PortSteps(present') + 5 * Cardinality(events') + 12 * req_itr
        < PortSteps(present) + 5 * Cardinality(events) + 12 * req_itr'
  BY <1>5, <1>7, <1>8, PortPart
<1>10. StepsLeft' < StepsLeft
  BY <1>1, <1>6, <1>8, <1>9, Nearer
<1> QED BY <1>1, <1>4, <1>10

\* A step of the cache or the storage.
LEMMA PortsNearer ==
  ASSUME IInv, StillToCome, IsFiniteSet(events), IsFiniteSet(events'),
         UNCHANGED <<self, req_itr, terminate, stop>>,
         PortSteps(present') + 5 * Cardinality(events')
           < PortSteps(present) + 5 * Cardinality(events),
         \E p \in Triggers : present[p] # {},
         present'["sch_input"] = present["sch_input"], events \subseteq events',
         Open # {} => Open' # {}
  PROVE  StillToCome' /\ StepsLeft' < StepsLeft
<1>1. stop # "done"
  BY DEF StillToCome, Quiet
<1>2. StillToCome'
  BY <1>1 DEF StillToCome
<1>3. StopSteps' = StopSteps /\ StopSteps \in Nat
  BY StopPart
<1>4. req_itr' = req_itr /\ req_itr \in Nat
  BY IssuePart
<1>5. /\ Cardinality(events) \in Nat /\ Cardinality(events') \in Nat
      /\ PortSteps(present) \in Nat /\ PortSteps(present') \in Nat
  BY PortPart, FS_CardinalityType
<1>6. PortSteps(present') + 5 * Cardinality(events') + 12 * req_itr
        < PortSteps(present) + 5 * Cardinality(events) + 12 * req_itr'
  BY <1>4, <1>5
<1>7. StepsLeft' < StepsLeft
  BY <1>3, <1>4, <1>6, Nearer
<1> QED BY <1>2, <1>7

LEMMA DelayNears ==
  ASSUME IInv, StillToCome, IsFiniteSet(events), storage_sch_delay
  PROVE  StillToCome' /\ IsFiniteSet(events') /\ StepsLeft' < StepsLeft
<1>1. /\ present["sch_delay"] # {} /\ "sch_delay" \in Triggers
      /\ present' = [present EXCEPT !["sch_delay"] = {}, !["resp"] = present["sch_delay"]]
      /\ UNCHANGED <<self, events, req_itr, terminate, stop>>
  BY Turns, TriggersAre DEF storage_sch_delay
<1>2. present["resp"] = {}
  BY <1>1 DEF IInv, Ordered
<1>3. /\ present'["sch_delay"] = {} /\ present'["resp"] = present["sch_delay"]
      /\ present'["sch_input"] = present["sch_input"]
      /\ present'["request"] = present["request"] /\ present'["rqst"] = present["rqst"]
      /\ present'["response"] = present["response"]
  BY <1>1, TriggersAre DEF IInv, Base
<1>4. PortSteps(present') < PortSteps(present)
  <2>1. PICK a \in Nat, b \in Nat, c \in Nat, d \in Nat :
          /\ a = Leads(present["sch_input"], 1) /\ b = Leads(present["request"], 7)
          /\ c = Leads(present["rqst"], 6) /\ d = Leads(present["response"], 1)
    BY LeadsAre
  <2>2. PortSteps(present) = a + 3 + b + 0 + c + d
    BY <1>1, <1>2, <2>1, LeadsAre DEF PortSteps
  <2>3. PortSteps(present') = a + 0 + b + 2 + c + d
    BY <1>1, <1>3, <2>1, LeadsAre DEF PortSteps
  <2> QED BY <2>2, <2>3
<1>5. PortSteps(present') + 5 * Cardinality(events') < PortSteps(present) + 5 * Cardinality(events)
  <2>1. Cardinality(events') = Cardinality(events) /\ Cardinality(events) \in Nat
    BY <1>1, FS_CardinalityType
  <2> QED BY <1>4, <2>1, PortPart
<1>6. Open # {} => Open' # {}
  BY StepDelay
<1> QED BY <1>1, <1>3, <1>4, <1>5, <1>6, PortsNearer

LEMMA RequestNears ==
  ASSUME IInv, StillToCome, IsFiniteSet(events), storage_rqst
  PROVE  StillToCome' /\ IsFiniteSet(events') /\ StepsLeft' < StepsLeft
<1>1. /\ present["rqst"] # {} /\ "rqst" \in Triggers
      /\ events' = events \cup
           {[action |-> "sch_delay", time |-> time + self.delay, id |-> n] : n \in present["rqst"]}
      /\ present' = [present EXCEPT !["rqst"] = {}]
      /\ UNCHANGED <<self, req_itr, terminate, stop>>
  BY Turns, TriggersAre DEF storage_rqst
<1>2. PICK n \in present["rqst"] : present["rqst"] = {n}
  <2>1. \A m, k \in present["rqst"] : m = k
    BY DEF IInv, Timed
  <2> QED BY <1>1, <2>1
<1>3. PICK e : events' = events \cup {e}
  <2> DEFINE e == [action |-> "sch_delay", time |-> time + self.delay, id |-> n]
  <2>1. events' = events \cup {e}
    BY <1>1, <1>2
  <2> QED BY <2>1
<1>4. IsFiniteSet(events') /\ Cardinality(events') <= Cardinality(events) + 1
  BY <1>3, OneMore
<1>5. /\ present'["rqst"] = {}
      /\ present'["sch_input"] = present["sch_input"]
      /\ present'["sch_delay"] = present["sch_delay"]
      /\ present'["request"] = present["request"] /\ present'["resp"] = present["resp"]
      /\ present'["response"] = present["response"]
  BY <1>1, TriggersAre DEF IInv, Base
<1>6. PortSteps(present') + 5 * Cardinality(events') < PortSteps(present) + 5 * Cardinality(events)
  <2>1. PortSteps(present') + 6 = PortSteps(present)
    BY <1>1, <1>5 DEF PortSteps, Leads
  <2>2. Cardinality(events) \in Nat /\ Cardinality(events') \in Nat
    BY <1>4, FS_CardinalityType
  <2> QED BY <1>4, <2>1, <2>2, PortPart
<1>7. Open # {} => Open' # {}
  BY StepRequest
<1> QED BY <1>1, <1>3, <1>4, <1>5, <1>6, <1>7, PortsNearer

LEMMA CacheNears ==
  ASSUME IInv, StillToCome, IsFiniteSet(events), cache_request_or_resp
  PROVE  StillToCome' /\ IsFiniteSet(events') /\ StepsLeft' < StepsLeft
<1>1. /\ present["request"] # {} \/ present["resp"] # {}
      /\ present["rqst"] = {} /\ present["response"] = {}
      /\ "request" \in Triggers /\ "resp" \in Triggers
      /\ UNCHANGED <<self, events, req_itr, terminate, stop>>
  BY Turns, TriggersAre DEF cache_request_or_resp, IInv, Ordered
<1>3. Open # {} => Open' # {}
  <2>1. CASE present["request"] # {} /\ present["resp"] # {}
             /\ \A n : n \in Open' <=> n \in Open /\ n \notin present["resp"]
    <3>1. PICK n \in present["request"] : TRUE
      BY <2>1
    <3>2. n \in Open /\ n \in Nat
      BY OpenIs DEF IInv, Base
    <3>3. n \notin present["resp"]
      BY <3>2, UniqueNow DEF IInv
    <3> QED BY <2>1, <3>2, <3>3
  <2> QED BY <2>1, StepCache
<1>4. /\ present'["request"] = {} /\ present'["resp"] = {}
      /\ present'["sch_input"] = present["sch_input"]
      /\ present'["sch_delay"] = present["sch_delay"]
      /\ \/ present["request"] # {} /\ (present'["rqst"] = {} \/ present'["response"] = {})
         \/ present["resp"] # {} /\ present'["rqst"] = {}
  <2>1. CASE present["request"] # {}
    <3>1. PICK n \in present["request"] :
            present' = [present EXCEPT !["request"] = {}, !["resp"] = {},
                           !["rqst"] = Served(n).rqst, !["response"] = Served(n).response]
      BY <2>1 DEF cache_request_or_resp, RequestFirst
    <3>2. Served(n).rqst = {} \/ Served(n).response = {}
      BY DEF Served
    <3> QED BY <2>1, <3>1, <3>2, TriggersAre DEF IInv, Base
  <2>2. CASE present["request"] = {}
    <3>1. present' = [present EXCEPT !["request"] = {}, !["resp"] = {},
                                     !["response"] = present["resp"]]
      BY <2>2 DEF cache_request_or_resp, RequestFirst
    <3> QED BY <1>1, <2>2, <3>1, TriggersAre DEF IInv, Base
  <2> QED BY <2>1, <2>2
<1>5. PortSteps(present') < PortSteps(present)
  BY <1>1, <1>4 DEF PortSteps, Leads
<1>6. PortSteps(present') + 5 * Cardinality(events') < PortSteps(present) + 5 * Cardinality(events)
  <2>1. Cardinality(events') = Cardinality(events) /\ Cardinality(events) \in Nat
    BY <1>1, FS_CardinalityType
  <2> QED BY <1>5, <2>1, PortPart
<1> QED BY <1>1, <1>3, <1>4, <1>6, PortsNearer

\* Something is present or due until the program ends.
LEMMA TimeNears ==
  ASSUME IInv, StillToCome, IsFiniteSet(events), AdvanceTime
  PROVE  StillToCome' /\ IsFiniteSet(events') /\ StepsLeft' < StepsLeft
<1>1. PICK e \in events :
        /\ \A f \in events : e.time <= f.time
        /\ present' = [p \in Triggers |-> {f.id : f \in {g \in events : g.time = e.time /\ g.action = p}}]
        /\ events' = {f \in events : f.time # e.time}
  BY DEF AdvanceTime
<1>2. present = Quiet /\ stop = "no" /\ UNCHANGED <<self, req_itr, terminate, stop>>
  BY DEF AdvanceTime
<1>3. present["sch_input"] = {} /\ present["sch_delay"] = {} /\ present["request"] = {}
      /\ present["resp"] = {} /\ present["rqst"] = {} /\ present["response"] = {}
  BY <1>2, TriggersAre DEF Quiet
<1>4. /\ present'["request"] = {} /\ present'["resp"] = {}
      /\ present'["rqst"] = {} /\ present'["response"] = {}
  <2>1. \A g \in events : g.action # "request" /\ g.action # "resp"
                          /\ g.action # "rqst" /\ g.action # "response"
    BY DEF IInv, Base
  <2> QED BY <1>1, <2>1, TriggersAre
<1>5. PortSteps(present) = 0
  BY <1>3 DEF PortSteps, Leads
<1>6. PortSteps(present') \in Nat /\ PortSteps(present') <= 4
  BY <1>4 DEF PortSteps, Leads
<1>7. /\ IsFiniteSet(events') /\ Cardinality(events) \in Nat /\ Cardinality(events') \in Nat
      /\ Cardinality(events') + 1 <= Cardinality(events)
  <2>1. events' \subseteq events \ {e}
    BY <1>1
  <2>2. IsFiniteSet(events \ {e}) /\ Cardinality(events \ {e}) = Cardinality(events) - 1
    BY <1>1, FS_RemoveElement
  <2>3. IsFiniteSet(events') /\ Cardinality(events') <= Cardinality(events \ {e})
    BY <2>1, <2>2, FS_Subset
  <2>4. Cardinality(events) \in Nat /\ Cardinality(events') \in Nat
    BY <2>3, FS_CardinalityType
  <2> QED BY <2>2, <2>3, <2>4
<1>8. StillToCome'
  <2>1. Open # {} => Open' # {}
    BY StepTime
  <2>2. ASSUME ~terminate
        PROVE  present'["sch_input"] # {} \/ \E f \in events' : f.action = "sch_input"
    <3>1. PICK f \in events : f.action = "sch_input"
      BY <1>3, <2>2 DEF StillToCome
    <3>2. CASE f.time = e.time
      <4>1. f.id \in present'["sch_input"]
        BY <1>1, <3>1, <3>2, TriggersAre
      <4> QED BY <4>1
    <3>3. CASE f.time # e.time
      BY <1>1, <3>1, <3>3
    <3> QED BY <3>2, <3>3
  <2> QED BY <1>2, <2>1, <2>2 DEF StillToCome
<1>9. StepsLeft' < StepsLeft
  <2>1. req_itr \in Nat /\ req_itr' = req_itr
    BY <1>2, IssuePart
  <2>2. StopSteps' = StopSteps /\ StopSteps \in Nat
    BY <1>2, StopPart
  <2>3. PortSteps(present') + 5 * Cardinality(events') + 12 * req_itr
          < PortSteps(present) + 5 * Cardinality(events) + 12 * req_itr'
    BY <1>5, <1>6, <1>7, <2>1
  <2> QED BY <1>2, <1>7, <2>1, <2>2, <2>3, Nearer
<1> QED BY <1>7, <1>8, <1>9

LEMMA StopNears ==
  ASSUME IInv, StillToCome, IsFiniteSet(events), StopTag
  PROVE  StillToCome' /\ IsFiniteSet(events') /\ StepsLeft' < StepsLeft
<1>1. /\ present = Quiet /\ stop = "requested" /\ stop' = "done"
      /\ UNCHANGED <<self, time, events, present, req_itr, terminate>>
  BY DEF StopTag
<1>2. StillToCome'
  BY <1>1 DEF StillToCome, Quiet, Triggers, Level
<1>3. StopSteps = 1 /\ StopSteps' = 0
  BY <1>1, StopPart
<1>4. StepsLeft' < StepsLeft
  <2>1. PICK m \in Nat, r \in Nat, c \in Nat, p \in Nat :
          /\ m = self.max_refs /\ r = req_itr /\ c = Cardinality(events)
          /\ p = PortSteps(present)
    BY IssuePart, PortPart, FS_CardinalityType
  <2>2. StepsLeft = 12 * (m - r) + 5 * c + p + 1
    BY <1>3, <2>1 DEF StepsLeft
  <2>3. StepsLeft' = 12 * (m - r) + 5 * c + p + 0
    BY <1>1, <1>3, <2>1 DEF StepsLeft
  <2> QED BY <2>2, <2>3
<1> QED BY <1>1, <1>2, <1>4

LEMMA NextNears ==
  ASSUME IInv, StillToCome, IsFiniteSet(events), Next
  PROVE  StillToCome' /\ IsFiniteSet(events') /\ (StepsLeft' < StepsLeft \/ UNCHANGED vars)
<1>1. CASE Ended
  BY <1>1 DEF Ended, vars, StillToCome, Open, Quiet, Triggers, Level
<1>2. CASE ~Ended
  BY <1>2, InputNears, ResponseNears, DelayNears, RequestNears, CacheNears, TimeNears,
     StopNears DEF Next
<1> QED BY <1>1, <1>2

LEMMA InitToCome == ASSUME Init PROVE StillToCome /\ IsFiniteSet(events)
<1>1. events = {[action |-> "sch_input", time |-> self.rate, id |-> -1]} /\ ~terminate /\ stop = "no"
  BY DEF Init
<1>2. IsFiniteSet(events)
  BY <1>1, FS_Singleton
<1> QED BY <1>1, <1>2 DEF StillToCome

\* If anything is present, some reaction is the first that is triggered; else
\* an event is due or the stop is.
LEMMA CanGoOn == ASSUME IInv, StillToCome PROVE NeverStuck
<1> SUFFICES ASSUME stop # "done" PROVE NeverStuck
  BY DEF NeverStuck
<1>1. CASE present # Quiet
  <2>1. present \in [Triggers -> SUBSET Int]
    BY DEF IInv, Base
  <2>2. \E t \in Triggers : present[t] # {}
    BY <1>1, <2>1 DEF Quiet
  <2>3. \E t \in Triggers : Turn(t)
    BY <2>2, TriggersAre DEF Turn
  <2> QED BY <2>3 DEF NeverStuck
<1>2. CASE present = Quiet /\ stop # "no"
  BY <1>2 DEF NeverStuck
<1>3. CASE present = Quiet /\ stop = "no"
  <2>1. \A t \in Triggers : present[t] = {}
    BY <1>3 DEF Quiet
  <2>2. events # {}
    <3>1. CASE terminate
      <4>1. PICK n \in Open : TRUE
        BY <1>3, <3>1 DEF StillToCome
      <4>2. n \in Stored
        BY <2>1, <4>1, TriggersAre, OpenIs
      <4> QED BY <4>2 DEF Stored
    <3>2. CASE ~terminate
      BY <2>1, <3>2, TriggersAre DEF StillToCome
    <3> QED BY <3>1, <3>2
  <2> DEFINE T == {e.time : e \in events}
  <2>3. T \in SUBSET Nat /\ T # {}
    BY <2>2 DEF IInv, Base
  <2>4. PICK t \in T : \A j \in T : t <= j
    <3> HIDE DEF T
    <3> QED BY <2>3, LeastNatural
  <2>5. \E e \in events : \A f \in events : e.time <= f.time
    BY <2>4
  <2> QED BY <1>3, <2>5 DEF NeverStuck
<1> QED BY <1>1, <1>2, <1>3

\* The invariant with what is still to come.
Going == IInv /\ StillToCome /\ IsFiniteSet(events)

LEMMA KeepsGoing == Spec => []Going
<1>1. Init => Going
  BY InitIInv, InitToCome DEF Going
<1>2. Going /\ [Next]_vars => Going'
  <2>1. ASSUME Going, Next PROVE StillToCome' /\ IsFiniteSet(events')
    BY <2>1, NextNears DEF Going
  <2>2. ASSUME Going, UNCHANGED vars PROVE StillToCome' /\ IsFiniteSet(events')
    BY <2>2 DEF Going, vars, StillToCome, Open, Quiet, Triggers, Level
  <2>3. ASSUME Going, [Next]_vars PROVE IInv'
    BY <2>3, StepInput, StepResponse, StepDelay, StepRequest, StepCache, StepTime, StepStill
       DEF Going, Next
  <2> QED BY <2>1, <2>2, <2>3 DEF Going
<1> QED BY <1>1, <1>2, PTL DEF Spec

-----------------------------------------------------------------------------
(* The theorems *)

\* The invariant: each request is in one place, at the time that its number
\* fixes.
THEOREM Inductive == Spec => []IInv
<1>1. Init => IInv
  BY InitIInv
<1>2. IInv /\ [Next]_vars => IInv'
  BY StepInput, StepResponse, StepDelay, StepRequest, StepCache, StepTime, StepStill
     DEF Next
<1> QED BY <1>1, <1>2, PTL DEF Spec

\* No trigger is set twice in a tag, and no two events of an action meet, for
\* every rate, delay and number of requests.
THEOREM TypeCorrect == Spec => []TypeOK
<1>1. IInv => TypeOK
  BY Types
<1> QED BY <1>1, Inductive, PTL

\* A storage that answers before the next request comes has answered all of
\* them when the program ends, however many there are.
THEOREM AnswersAll == Spec => []AllAnswered
<1>1. IInv => AllAnswered
  BY DEF IInv, Stopping, AllAnswered
<1> QED BY <1>1, Inductive, PTL

\* Only the response that meets a request is lost.
THEOREM LosesOnlyCollisions == Spec => LosesOnlyOnCollision
<1>1. IInv /\ [Next]_vars =>
        [\A n \in Open \ Open' :
           \/ input_flow_resp /\ n \in received'
           \/ cache_request_or_resp /\ n \in present.resp /\ present.request # {}]_vars
  BY StepInput, StepResponse, StepDelay, StepRequest, StepCache, StepTime, StepStill
     DEF Next
<1> QED BY <1>1, Inductive, PTL DEF Spec, LosesOnlyOnCollision

\* Whatever the delay, the whole is a service that answers no request twice and
\* none with the response of another.
THEOREM Refinement == Spec => ImplementsService
<1>1. Init => Service!Init
  <2> SUFFICES ASSUME Init PROVE Service!Init
    OBVIOUS
  <2>1. Open = {}
    <3>1. IInv
      BY InitIInv
    <3>2. req_itr = 0 /\ \A n \in Open : n \in Nat /\ n < req_itr
      BY <3>1 DEF Init, IInv, Base
    <3> QED BY <3>2
  <2> QED BY <2>1 DEF Init, Service!Init
<1>2. IInv /\ [Next]_vars => [Service!Next]_Service!vars
  <2> SUFFICES ASSUME IInv, [Next]_vars PROVE [Service!Next]_Service!vars
    OBVIOUS
  <2>1. ASSUME UNCHANGED <<req_itr, received>>, \A n : n \in Open' <=> n \in Open
        PROVE  UNCHANGED Service!vars
    <3>1. Open' = Open
      BY <2>1
    <3> QED BY <2>1, <3>1 DEF Service!vars
  <2>2. CASE input_flow_sch_input
    <3>1. req_itr' = req_itr + 1 /\ received' = received /\ Open' = Open \cup {req_itr}
      BY <2>2, StepInput
    <3>2. Service!Issue
      BY <3>1 DEF Service!Issue
    <3> QED BY <3>2 DEF Service!Next
  <2>3. CASE input_flow_resp
    <3>1. /\ req_itr' = req_itr /\ received' = present["response"] /\ present["response"] # {}
          /\ Open' = Open \ present["response"]
      BY <2>3, StepResponse
    <3>2. PICK n \in present["response"] : present["response"] = {n}
      BY <3>1 DEF IInv, Timed
    <3>3. n \in Open
      BY OpenIs
    <3>4. {[context |-> m, data |-> m] : m \in received'} = {[context |-> n, data |-> n]}
      BY <3>1, <3>2
    <3>5. Service!Answer
      BY <3>1, <3>2, <3>3, <3>4 DEF Service!Answer
    <3> QED BY <3>5 DEF Service!Next
  <2>4. CASE cache_request_or_resp
    <3>1. CASE \A n : n \in Open' <=> n \in Open
      BY <2>1, <2>4, <3>1, StepCache
    <3>2. CASE /\ present["resp"] # {}
               /\ \A n : n \in Open' <=> n \in Open /\ n \notin present["resp"]
      <4>1. PICK n : present["resp"] = {n}
        <5>1. self \in Parameters
          BY DEF IInv, Base
        <5>2. \A m, k \in present["resp"] : m = k
          BY <5>1, AnswerTimesDiffer DEF IInv, Timed
        <5> QED BY <3>2, <5>2
      <4>2. n \in Open /\ Open' = Open \ {n} /\ UNCHANGED <<req_itr, received>>
        BY <2>4, <3>2, <4>1, OpenIs, StepCache
      <4>3. Service!Forget
        BY <4>2 DEF Service!Forget
      <4> QED BY <4>3 DEF Service!Next
    <3> QED BY <2>4, <3>1, <3>2, StepCache
  <2> QED BY <2>1, <2>2, <2>3, <2>4, StepDelay, StepRequest, StepTime, StepStill DEF Next
<1> QED BY <1>1, <1>2, Inductive, PTL DEF Spec, ImplementsService, Service!Spec

\* Until it ends the program has a reaction to run or a tag to go to, whatever
\* the delays: the last request is answered even if the storage's responses to
\* earlier ones were lost.
THEOREM GoesOn == Spec => []NeverStuck
<1>1. Going => NeverStuck
  BY CanGoOn DEF Going
<1> QED BY <1>1, KeepsGoing, PTL

\* Every step brings the end nearer: the number of steps left is a natural
\* number, and every step lowers it.
THEOREM ComesToAnEnd == Spec => [](StepsLeft \in Nat) /\ NearsEnd
<1>1. Going => StepsLeft \in Nat
  BY StepsLeftIs DEF Going
<1>2. Going /\ [Next]_vars => [StepsLeft' < StepsLeft]_vars
  BY NextNears DEF Going
<1> QED BY <1>1, <1>2, KeepsGoing, PTL DEF Spec, NearsEnd
====
