---- MODULE LFRuntime ----
(***************************************************************************)
(* The part of the Lingua Franca runtime the reactors of base.lf rely on   *)
(* (external: only its headers are in the repository).  Logical time is a  *)
(* tag, a time and a microstep.  An action scheduled with a delay becomes  *)
(* an event at a later tag; events of one action that meet at one time     *)
(* pile up in consecutive microsteps.  At each tag the runtime runs every  *)
(* triggered reaction once, in the order that the connections of base.lf   *)
(* impose, with workers:1.  All delays are in units of one millisecond.    *)
(***************************************************************************)
EXTENDS SuperdenseTime

VARIABLES
  tag,        \* the current tag
  pending,    \* the event queue: events at later tags
  present,    \* trigger -> the value it carries now: {} absent, {v} present
  stop,       \* "no", "requested", "final" (at the stop tag), "done"
  crashed     \* the process died on a NULL dereference

rtVars == <<tag, pending, present, stop, crashed>>

Actions == {"sch_ref", "storage_req_trigger", "fetch_page"}

\* The reactions of base.lf by their trigger, in the one order in which the
\* connections and the order inside each reactor let them run at a tag.
Level ==
  [sch_ref |-> 1, batch_request |-> 2, storage_req_trigger |-> 3,
   workstream_req |-> 4, fetch_page |-> 5, task_result |-> 6,
   workstream_response |-> 7, batch_response |-> 8]

Triggers == DOMAIN Level

Quiet == [t \in Triggers |-> {}]

\* The reaction to t runs now: it is triggered and no earlier one is.
Turn(t) ==
  /\ ~crashed
  /\ present[t] # {}
  /\ \A u \in Triggers : Level[u] < Level[t] => present[u] = {}

\* The events of action a that are queued for time t.
Piled(a, t) == {e \in pending : e.action = a /\ e.time = t}

\* lf_schedule(a, delay) with payload id: the event queue afterwards.
Scheduled(a, id, delay) ==
  LET t == tag.time + delay
      m == IF delay = 0 THEN tag.micro + 1 ELSE 0
  IN  pending \cup {[action |-> a, id |-> id, time |-> t,
                     micro |-> FreeMicro(Piled(a, t), m)]}

\* lf_request_stop: the stop tag is the next microstep, the first call wins.
StopRequested == IF stop = "no" THEN "requested" ELSE stop

At(t, m) == {e \in pending : e.time = t /\ e.micro = m}

EnterTag(t, m) ==
  /\ tag' = [time |-> t, micro |-> m]
  /\ pending' = pending \ At(t, m)
  /\ present' = [x \in Triggers |->
                   {e.id : e \in {f \in At(t, m) : f.action = x}}]
  /\ UNCHANGED crashed

\* All reactions of the tag have run: the runtime goes to the next tag.
AdvanceTag ==
  /\ ~crashed /\ present = Quiet /\ stop = "no"
  /\ \E e \in pending :
       /\ \A f \in pending : NotAfter(e, f)
       /\ EnterTag(e.time, e.micro)
  /\ UNCHANGED stop

\* A stop was requested: the last tag is the next microstep, and whatever is
\* queued beyond it is never processed.
AdvanceToStopTag ==
  /\ ~crashed /\ present = Quiet /\ stop = "requested"
  /\ EnterTag(tag.time, tag.micro + 1)
  /\ stop' = "final"

\* The reactions to shutdown only print the queue statistics.
Shutdown ==
  /\ ~crashed /\ present = Quiet /\ stop = "final"
  /\ stop' = "done"
  /\ UNCHANGED <<tag, pending, present, crashed>>
====
