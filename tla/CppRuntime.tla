---- MODULE CppRuntime ----
(***************************************************************************)
(* The runtime of Lingua Franca's C++ target (external), as                *)
(* RequestResponse/MAC.lf uses it.  All delays are positive, so a tag is   *)
(* its time.  The reactions of MAC.lf are one chain: each one writes the   *)
(* trigger of the next or comes before it in its reactor, so they run in   *)
(* this order at a tag however many threads there are.                     *)
(***************************************************************************)
EXTENDS Integers, Sequences

VARIABLES
  time,      \* the logical time
  present,   \* trigger -> the value it carries now: {} absent, {v} present
  events     \* what the actions are scheduled with

Order ==
  << <<"client", "t">>,
     <<"mac_cm", "request_in">>, <<"mac", "request">>,
     <<"mul_cm", "request_in">>,
     <<"multiplier", "request">>, <<"multiplier", "request_queue">>,
     <<"mul_cm", "response_in">>, <<"mul_cm", "response_out">>,
     <<"add_cm", "request_in">>,
     <<"adder", "request">>, <<"adder", "request_queue">>,
     <<"add_cm", "response_in">>, <<"add_cm", "response_out">>,
     <<"mac_cm", "response_in">>, <<"mac_cm", "response_out">> >>

Triggers == {Order[i] : i \in DOMAIN Order}

Timer == <<"client", "t">>

Quiet == [p \in Triggers |-> {}]

\* The reaction to p is the next one to run.
Turn(p) ==
  /\ present[p] # {}
  /\ \A i, j \in DOMAIN Order : Order[i] = p /\ j < i => present[Order[j]] = {}

\* The reaction to p sets port q, or nothing.
Sets(p, q, v) == present' = [present EXCEPT ![p] = {}, ![q] = {v}]
SetsNothing(p) == present' = [present EXCEPT ![p] = {}]

\* schedule of an action: an event that the action has at this time already is
\* overwritten.
Scheduled(a, v, d) ==
  LET e == [action |-> a, time |-> time + d, value |-> v]
  IN  {f \in events : f.action = a => f.time # e.time} \cup {e}

\* Time goes on to the next event, or firing of the timer out of F.
EnterNext(F) ==
  LET T == F \cup {e.time : e \in events}
      now == CHOOSE t \in T : \A u \in T : t <= u
      due(p) == {e.value : e \in {f \in events : f.time = now /\ f.action = p}}
  IN  /\ present = Quiet /\ T # {}
      /\ time' = now
      /\ present' = [p \in Triggers |-> IF p = Timer THEN {0} \cap {now - f : f \in F} ELSE due(p)]
      /\ events' = {e \in events : e.time # now}
====
