---- MODULE CxtMgr ----
(***************************************************************************)
(* CGenericsProposal/src/CxtMgr.lf: a client asks a service for a sum      *)
(* periodically; the service answers each request after a random delay, so *)
(* in any order.  The manager around the service keeps the pending         *)
(* requests in a fixed number of slots and tells them apart by the tag at  *)
(* which they were issued.  A request is its context, the client's counter *)
(* (the numbers to add are computed from it).                              *)
(***************************************************************************)
EXTENDS SuperdenseTime

CONSTANTS
  Slots,               \* length of the array pending (10)
  Period,              \* of the client's timer (100 ms)
  MinDelay, MaxDelay,  \* of the service: random() % 400 + 100 ms
  Timeout              \* target property timeout (1 s)

ASSUME CxtMgrAssumption ==
  /\ Slots \in Nat \ {0} /\ Period \in Nat \ {0} /\ Timeout \in Nat
  /\ MinDelay \in Nat \ {0} /\ MaxDelay \in Nat

VARIABLES
  tag,       \* the current tag
  events,    \* the event queue: the service's action pending, a tagged request
  present,   \* trigger -> the value it carries now: {} absent, {v} present
  done,      \* the timeout was reached
  counter,   \* of the client
  slots,     \* pending of the manager: tagged requests
  printed    \* the last response that the client printed

vars == <<tag, events, present, done, counter, slots, printed>>

SlotIds == 1 .. Slots

NEVER_TAG == [time |-> -1, micro |-> 0]

\* The reactions by their trigger, in the order in which the connections and
\* the order inside each reactor let them run at a tag.
Level ==
  [t |-> 1, request |-> 2, in |-> 3, pending |-> 4, out |-> 5, response |-> 6]

Triggers == DOMAIN Level

Quiet == [p \in Triggers |-> {}]

Turn(t) ==
  /\ present[t] # {}
  /\ \A p \in Triggers : Level[p] < Level[t] => present[p] = {}

\* The timer fires at time 0.
Init ==
  /\ tag = [time |-> 0, micro |-> 0]
  /\ events = {}
  /\ present = [Quiet EXCEPT !.t = {0}]
  /\ done = FALSE
  /\ counter = 0
  /\ slots = [i \in SlotIds |-> [request |-> 0, tag |-> NEVER_TAG]]
  /\ printed = {}

\* counter++.
Incremented(c) == c + 1

\* reaction (t) of the client.
client_t ==
  /\ Turn("t")
  /\ present' = [present EXCEPT !.t = {}, !.request = {counter}]
  /\ counter' = Incremented(counter)
  /\ UNCHANGED <<tag, events, done, slots, printed>>

Free == {i \in SlotIds : slots[i].tag = NEVER_TAG}

\* The slot that the loop over pending stops at; the mutant takes the first
\* slot, free or not.
FirstFreeAny(S) == 1
FirstFree(S) == CHOOSE i \in S : \A j \in S : i <= j

\* reaction (request) of the manager.  A request that finds no slot is dropped
\* with an error message.
manager_request ==
  /\ Turn("request")
  /\ \E n \in present.request :
       LET i == FirstFree(Free)
           s == [request |-> n, tag |-> tag]
       IN  IF Free # {}
           THEN /\ slots' = [slots EXCEPT ![i] = s]
                /\ present' = [present EXCEPT !.request = {}, !.in = {s}]
           ELSE /\ present' = [present EXCEPT !.request = {}]
                /\ UNCHANGED slots
  /\ UNCHANGED <<tag, events, done, counter, printed>>

\* reaction (in) of the service: lf_schedule_copy of the tagged request.
service_in ==
  /\ Turn("in")
  /\ \E s \in present.in, d \in MinDelay .. MaxDelay :
       LET t == tag.time + d
       IN  events' = events \cup
             {[time |-> t, micro |-> FreeMicro({e \in events : e.time = t}, 0), call |-> s]}
  /\ present' = [present EXCEPT !.in = {}]
  /\ UNCHANGED <<tag, done, counter, slots, printed>>

Sum(n) == n + 42

\* reaction (pending) of the service.
service_pending ==
  /\ Turn("pending")
  /\ \E s \in present.pending :
       present' = [present EXCEPT !.pending = {},
         !.out = {[response |-> [context |-> s.request, data |-> Sum(s.request)],
                   tag |-> s.tag]}]
  /\ UNCHANGED <<tag, events, done, counter, slots, printed>>

\* The slots that a response with this tag belongs to.
Matching(t) == {i \in SlotIds : slots[i].tag = t}

\* The slot as it is left by a response; the mutant does not reset it.
ResetNot(slot) == slot
Reset(slot) == [slot EXCEPT !.tag = NEVER_TAG]

\* reaction (service.out) of the manager.  A response that finds no slot is
\* dropped with an error message.
manager_out ==
  /\ Turn("out")
  /\ \E r \in present.out :
       LET M == Matching(r.tag)
           i == CHOOSE k \in M : \A j \in M : k <= j
       IN  IF M # {}
           THEN /\ slots' = [slots EXCEPT ![i] = Reset(@)]
                /\ present' = [present EXCEPT !.out = {}, !.response = {r.response}]
           ELSE /\ present' = [present EXCEPT !.out = {}]
                /\ UNCHANGED slots
  /\ UNCHANGED <<tag, events, done, counter, printed>>

\* reaction (m.response) of the client.
client_response ==
  /\ Turn("response")
  /\ printed' = present.response
  /\ present' = [present EXCEPT !.response = {}]
  /\ UNCHANGED <<tag, events, done, counter, slots>>

\* The next firing of the timer, after counter firings.
NextFiring == [time |-> counter * Period, micro |-> 0]

At(t) == {e \in events : e.time = t.time /\ e.micro = t.micro}

StopTag == [time |-> Timeout, micro |-> 0]

\* The runtime goes to the next tag that has an event, if it is not beyond the
\* stop tag.
AdvanceTag ==
  /\ present = Quiet /\ ~done
  /\ \E t \in {NextFiring} \cup {[time |-> e.time, micro |-> e.micro] : e \in events} :
       /\ NotAfter(t, NextFiring) /\ \A e \in events : NotAfter(t, e)
       /\ NotAfter(t, StopTag)
       /\ tag' = t
       /\ events' = events \ At(t)
       /\ present' = [Quiet EXCEPT !.t = IF t = NextFiring THEN {0} ELSE {},
                                   !.pending = {e.call : e \in At(t)}]
  /\ UNCHANGED <<done, counter, slots, printed>>

\* Nothing is left to do up to the stop tag; what is queued beyond it is lost.
ReachTimeout ==
  /\ present = Quiet /\ ~done
  /\ ~NotAfter(NextFiring, StopTag)
  /\ \A e \in events : ~NotAfter(e, StopTag)
  /\ done' = TRUE
  /\ UNCHANGED <<tag, events, present, counter, slots, printed>>

Ended == done /\ UNCHANGED vars

Next ==
  \/ client_t \/ client_response
  \/ manager_request \/ manager_out
  \/ service_in \/ service_pending
  \/ AdvanceTag \/ ReachTimeout \/ Ended

Spec == Init /\ [][Next]_vars

-----------------------------------------------------------------------------
(* Properties *)

Tag == [time : Nat, micro : Nat]
Issued == 0 .. counter - 1
Call == [request : Issued, tag : Tag]
Response == [context : Issued, data : Nat]

\* Type correctness: one value at most on every port, a slot holds a tagged
\* request or NEVER_TAG, and all contexts are of requests that were issued.
TypeOK ==
  /\ tag \in Tag /\ done \in BOOLEAN /\ counter \in Nat
  /\ events \subseteq [time : Nat, micro : Nat, call : Call] /\ IsFiniteSet(events)
  /\ DOMAIN present = Triggers
  /\ present.t \subseteq {0} /\ present.request \subseteq Issued
  /\ present.in \subseteq Call /\ present.pending \subseteq Call
  /\ present.out \subseteq [response : Response, tag : Tag]
  /\ present.response \subseteq Response
  /\ \A p \in Triggers : \A v, w \in present[p] : v = w
  /\ slots \in [SlotIds -> [request : Nat, tag : Tag \cup {NEVER_TAG}]]
  /\ printed \subseteq Response

Used == SlotIds \ Free

\* The tags of the requests that the service is working on or has answered at
\* this tag.
EventTags == {e.call.tag : e \in events}
PortTags == {s.tag : s \in present.in \cup present.pending \cup present.out}

\* The slots in use are those of the requests in the service: no slot is taken
\* twice or freed by another request's response, so "Pending requests not
\* found" is never reached; and one request is in one place of the service.
SlotsMatch ==
  /\ {slots[i].tag : i \in Used} = EventTags \cup PortTags
  /\ \A i, j \in Used : slots[i].tag = slots[j].tag => i = j
  /\ EventTags \cap PortTags = {}
  /\ \A e, f \in events : e.call.tag = f.call.tag => e = f

\* A request finds a free slot when the manager looks for one: "Maximum number
\* of pending requests exceeded" is never reached.
NeverFull == Turn("request") => Free # {}

\* No request is pending for longer than the service's longest delay.
AnswersInTime == \A i \in Used : tag.time <= slots[i].tag.time + MaxDelay

\* The calls that are open: on the way to the manager, in a slot, or on the way
\* back.
OpenCalls ==
  present.request \cup {slots[i].request : i \in Used}
    \cup {r.context : r \in present.response}

\* The client sees every call answered once, with its own context and sum: the
\* manager implements the service of calls that forgets none.
Calls ==
  INSTANCE CallService WITH
    Result <- Sum,
    Lossy <- FALSE,
    issued <- counter,
    open <- OpenCalls,
    answer <- printed

ImplementsCalls == Calls!Spec

-----------------------------------------------------------------------------
(* The inductive invariant: what the safety invariants above rest on *)

\* The service answers a request before Slots more are issued: 499 ms against
\* ten periods of 100 ms in the code.
FastEnough == MaxDelay < Slots * Period

\* A port carries a value only after the reactions up to its writer have run.
PortsFollow ==
  /\ present.request # {} => present.t = {}
  /\ present.in # {} => present.t = {} /\ present.request = {}
  /\ present.out # {} =>
       /\ present.t = {} /\ present.request = {}
       /\ present.in = {} /\ present.pending = {}
  /\ present.response # {} =>
       /\ present.t = {} /\ present.request = {}
       /\ present.in = {} /\ present.pending = {} /\ present.out = {}

FiringTag(n) == [time |-> n * Period, micro |-> 0]

\* The timer fires at the multiples of Period, and a request is on its way to
\* the manager only at the tag of its firing.
Clock ==
  /\ present.t # {} => tag = FiringTag(counter)
  /\ present.t = {} => tag.time < counter * Period
  /\ \A n \in present.request : n = counter - 1 /\ tag = FiringTag(n)
  /\ present.in # {} => tag = FiringTag(counter - 1)

\* Every request is tagged with the firing it was issued at.
Tagged ==
  /\ \A i \in Used : slots[i].tag = FiringTag(slots[i].request)
  /\ \A e \in events : e.call.tag = FiringTag(e.call.request)
  /\ \A s \in present.in \cup present.pending : s.tag = FiringTag(s.request)
  /\ \A r \in present.out :
       /\ r.tag = FiringTag(r.response.context)
       /\ r.response.data = Sum(r.response.context)
  /\ \A r \in present.response : r.data = Sum(r.context)

\* The request on the way to the manager is in no slot yet, the one on the way
\* back in none any more, and the one on the way to the service is new there.
Fresh ==
  /\ \A i \in Used : slots[i].request \notin present.request
  /\ \A i \in Used : \A r \in present.response : slots[i].request # r.context
  /\ \A s \in present.in : s.request = counter - 1
  /\ \A s \in present.in, p \in present.pending : p.request # s.request

\* Events are due at different tags in the future, and not too late.
Deadlines ==
  /\ \A e \in events :
       /\ NotAfter(tag, e) /\ ~NotAfter(e, tag)
       /\ e.time <= e.call.tag.time + MaxDelay
  /\ \A e, f \in events : e.time = f.time /\ e.micro = f.micro => e = f

IInv ==
  /\ TypeOK /\ SlotsMatch /\ AnswersInTime
  /\ PortsFollow /\ Clock /\ Tagged /\ Fresh /\ Deadlines
====
