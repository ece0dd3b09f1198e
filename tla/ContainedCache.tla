---- MODULE ContainedCache ----
(***************************************************************************)
(* lf_contained_reactor_bug/src/obj_passing_okay.lf: an input flow sends   *)
(* requests at a fixed rate to a cache, which answers every other one      *)
(* itself and has the storage it contains answer the rest after a delay.   *)
(* One reaction of the cache handles its requests and the storage's        *)
(* responses.  A request is its id.                                        *)
(***************************************************************************)
EXTENDS Integers, FiniteSets

CONSTANT Parameters   \* of the reactors: max_refs, rate and delay

ASSUME ParametersAssumption ==
  \A p \in Parameters : {p.max_refs, p.rate, p.delay} \subseteq Nat \ {0}

VARIABLES
  self,        \* the parameters of this program
  time,        \* the logical time; rate and delay are positive, so it is the tag
  events,      \* the event queue: sch_input (id -1), sch_delay with a request
  present,     \* trigger -> the request it carries now: {} absent
  req_itr,     \* of the input flow
  terminate,
  fetch,       \* of the cache
  stop,        \* "no", lf_request_stop was called: "requested", then "done"
  received     \* the last response that the input flow got

vars == <<self, time, events, present, req_itr, terminate, fetch, stop, received>>

\* Reactions run after those of a lower level; the others are independent.
Level ==
  [sch_input |-> 1, sch_delay |-> 1, request |-> 2, resp |-> 2,
   rqst |-> 3, response |-> 3]

Triggers == DOMAIN Level

Quiet == [p \in Triggers |-> {}]

Turn(t) ==
  /\ present[t] # {}
  /\ \A p \in Triggers : Level[p] < Level[t] => present[p] = {}

\* The reaction (startup) of the input flow schedules sch_input.
Init ==
  /\ self \in Parameters
  /\ time = 0
  /\ events = {[action |-> "sch_input", time |-> self.rate, id |-> -1]}
  /\ present = Quiet
  /\ req_itr = 0 /\ terminate = FALSE
  /\ fetch = TRUE
  /\ stop = "no"
  /\ received = {}

\* Whether another request follows n of them; the mutant sends one too many.
MoreRefsLate(n) == n <= self.max_refs
MoreRefs(n) == n < self.max_refs

\* reaction (sch_input) of the input flow.
input_flow_sch_input ==
  /\ Turn("sch_input")
  /\ present' = [present EXCEPT !.sch_input = {}, !.request = {req_itr}]
  /\ req_itr' = req_itr + 1
  /\ IF MoreRefs(req_itr')
     THEN /\ events' = events \cup
               {[action |-> "sch_input", time |-> time + self.rate, id |-> -1]}
          /\ UNCHANGED terminate
     ELSE terminate' = TRUE /\ UNCHANGED events
  /\ UNCHANGED <<self, time, fetch, stop, received>>

\* Whether a response ends the program; the mutants never stop, or at once.
StopsNever == FALSE
StopsAlways == TRUE
StopsNow == terminate

\* reaction (resp) of the input flow.
input_flow_resp ==
  /\ Turn("response")
  /\ received' = present.response
  /\ stop' = IF StopsNow THEN "requested" ELSE stop
  /\ present' = [present EXCEPT !.response = {}]
  /\ UNCHANGED <<self, time, events, req_itr, terminate, fetch>>

\* reaction (sch_delay) of the storage.
storage_sch_delay ==
  /\ Turn("sch_delay")
  /\ present' = [present EXCEPT !.sch_delay = {}, !.resp = present.sch_delay]
  /\ UNCHANGED <<self, time, events, req_itr, terminate, fetch, stop, received>>

\* reaction (rqst) of the storage: lf_schedule_copy of the request.
storage_rqst ==
  /\ Turn("rqst")
  /\ events' = events \cup
       {[action |-> "sch_delay", time |-> time + self.delay, id |-> n] : n \in present.rqst}
  /\ present' = [present EXCEPT !.rqst = {}]
  /\ UNCHANGED <<self, time, req_itr, terminate, fetch, stop, received>>

\* The cache's outputs for the request n; the mutant answers what it fetches.
ServedTwice(n) == [rqst |-> IF fetch THEN {n} ELSE {}, response |-> {n}]
Served(n) == [rqst |-> IF fetch THEN {n} ELSE {}, response |-> IF fetch THEN {} ELSE {n}]

\* Which of its two inputs the cache looks at; the mutant prefers the storage.
RequestLast == present.resp = {}
RequestFirst == present.request # {}

\* reaction (request, strg.resp) of the cache.
cache_request_or_resp ==
  /\ Turn("request") \/ Turn("resp")
  /\ IF RequestFirst
     THEN /\ \E n \in present.request :
               present' = [present EXCEPT !.request = {}, !.resp = {},
                 !.rqst = Served(n).rqst, !.response = Served(n).response]
          /\ fetch' = ~fetch
     ELSE /\ present' = [present EXCEPT !.request = {}, !.resp = {},
                                       !.response = present.resp]
          /\ UNCHANGED fetch
  /\ UNCHANGED <<self, time, events, req_itr, terminate, stop, received>>

\* The runtime goes on to the next tag.
AdvanceTime ==
  /\ present = Quiet /\ stop = "no"
  /\ \E e \in events :
       /\ \A f \in events : e.time <= f.time
       /\ time' = e.time
       /\ present' = [p \in Triggers |-> {f.id : f \in {g \in events : g.time = e.time /\ g.action = p}}]
       /\ events' = {f \in events : f.time # e.time}
  /\ UNCHANGED <<self, req_itr, terminate, fetch, stop, received>>

\* At the stop tag the events that are left are dropped.
StopTag ==
  /\ present = Quiet /\ stop = "requested"
  /\ stop' = "done"
  /\ UNCHANGED <<self, time, events, present, req_itr, terminate, fetch, received>>

\* The program has ended; or, with keepalive, it waits for events that never
\* come.
Ended ==
  /\ present = Quiet
  /\ stop = "done" \/ (stop = "no" /\ events = {})
  /\ UNCHANGED vars

Next ==
  \/ input_flow_sch_input \/ input_flow_resp
  \/ storage_sch_delay \/ storage_rqst
  \/ cache_request_or_resp
  \/ AdvanceTime \/ StopTag \/ Ended

\* A program always takes its next reaction or tag in the end.
Spec == Init /\ [][Next]_vars /\ WF_vars(Next)

-----------------------------------------------------------------------------
(* Properties *)

\* The requests that were issued and not answered yet.
Open ==
  (UNION {present[p] : p \in Triggers \ {"sch_input"}})
    \cup {e.id : e \in {f \in events : f.action = "sch_delay"}}

\* Type correctness: one request at a trigger, and one event of an action at a
\* time.
TypeOK ==
  /\ self \in Parameters /\ time \in Nat
  /\ events \subseteq [action : {"sch_input", "sch_delay"}, time : Nat,
                       id : -1 .. self.max_refs - 1]
  /\ \A e, f \in events : e.action = f.action /\ e.time = f.time => e = f
  /\ DOMAIN present = Triggers
  /\ \A p \in Triggers : \A m, n \in present[p] : m = n
  /\ Open \subseteq 0 .. req_itr - 1
  /\ req_itr \in 0 .. self.max_refs /\ terminate \in BOOLEAN /\ fetch \in BOOLEAN
  /\ stop \in {"no", "requested", "done"}
  /\ received \subseteq 0 .. req_itr - 1

\* A storage that answers before the next request comes, as the one of 1 ms
\* does, loses nothing: when the program ends, all requests were sent and
\* answered.
AllAnswered ==
  self.delay < self.rate /\ stop = "done" => req_itr = self.max_refs /\ Open = {}

\* A slower storage loses only the response that arrives together with a
\* request: the cache does not look at it.
LosesOnlyOnCollision ==
  [][\A n \in Open \ Open' :
       \/ input_flow_resp /\ n \in received'
       \/ cache_request_or_resp /\ n \in present.resp /\ present.request # {}]_vars

\* Whatever the storage's delay, no request is answered twice or with the
\* response of another.
Service ==
  INSTANCE CallService WITH
    Result <- LAMBDA n : n,
    Lossy <- TRUE,
    issued <- req_itr,
    open <- Open,
    answer <- {[context |-> n, data |-> n] : n \in received}

ImplementsService == Service!Spec

\* With keepalive the program ends only through lf_request_stop; it always does.
Terminates == <>(stop = "done")

-----------------------------------------------------------------------------
(* The way to the end: what Terminates rests on *)

\* The next request is due as long as there is one, from the last one on a
\* request is unanswered until a response stops the program, and nothing is left
\* to run when it has ended.
StillToCome ==
  /\ ~terminate => present["sch_input"] # {} \/ \E e \in events : e.action = "sch_input"
  /\ terminate /\ stop = "no" => Open # {}
  /\ stop = "done" => present = Quiet

\* Until it ends, the program has a reaction to run or a tag to go to; with
\* keepalive it would else wait for ever.
NeverStuck ==
  stop # "done" =>
    \/ \E t \in Triggers : Turn(t)
    \/ /\ present = Quiet
       /\ stop = "no" => \E e \in events : \A f \in events : e.time <= f.time

\* How many steps can be left: a request takes at most 12 from its issue on, an
\* event 5, a value at a trigger so many.
Leads(values, n) == IF values = {} THEN 0 ELSE n

PortSteps(p) ==
  Leads(p["sch_input"], 1) + Leads(p["sch_delay"], 3) + Leads(p["request"], 7)
  + Leads(p["resp"], 2) + Leads(p["rqst"], 6) + Leads(p["response"], 1)
StopSteps == [no |-> 2, requested |-> 1, done |-> 0][stop]

StepsLeft ==
  12 * (self.max_refs - req_itr) + 5 * Cardinality(events) + PortSteps(present) + StopSteps

\* Every step brings the end nearer.
NearsEnd == [][StepsLeft' < StepsLeft]_vars
====
