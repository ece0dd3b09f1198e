---- MODULE MAC ----
(***************************************************************************)
(* RequestResponse/MAC.lf: a client asks periodically what                 *)
(* n * (n + 1) + (n + 2) is; the MACService has two other services compute *)
(* the product and the sum, each after a random delay of its own.          *)
(***************************************************************************)
EXTENDS Arithmetic

CONSTANTS
  Period,   \* of the client's timer (100 ms)
  Calls     \* bound: the timer of the model stops after that many firings

ASSUME TimerAssumption == Period \in Nat \ {0} /\ Calls \in Nat \ {0}

VARIABLES
  counter,   \* of the client
  printed    \* the last result that the client printed, with its context

vars == <<time, present, events, uid_counter, context_buffer, counter, printed>>

Init ==
  /\ time = 0
  /\ present = [Quiet EXCEPT ![Timer] = {0}]
  /\ events = {}
  /\ ContextInit
  /\ counter = 0
  /\ printed = {}

MACData(n) == [factor1 |-> n, factor2 |-> n + 1, summand |-> n + 2]

\* reaction (t) of the client.
client_t ==
  /\ Turn(Timer)
  /\ Sets(Timer, <<"mac_cm", "request_in">>,
          [request |-> NewRequest("mac", MACData(counter)), context |-> MACData(counter)])
  /\ Counts("mac")
  /\ counter' = counter + 1
  /\ UNCHANGED <<time, events, context_buffer, printed>>

\* reaction (mac_cm.response_out) of the client.
client_response ==
  /\ Turn(<<"mac_cm", "response_out">>)
  /\ \E m \in present[<<"mac_cm", "response_out">>] :
       printed' = {[context |-> m.context, data |-> m.response.data]}
  /\ SetsNothing(<<"mac_cm", "response_out">>)
  /\ UNCHANGED <<time, events, uid_counter, context_buffer, counter>>

\* The timer's next firing, as long as the bound lets it fire.
Firings == {n * Period : n \in {counter} \ {Calls}}

\* The runtime goes on to the next tag.
AdvanceTime ==
  /\ EnterNext(Firings)
  /\ UNCHANGED <<uid_counter, context_buffer, counter, printed>>

\* Nothing is left of the calls that the bound allows.
Ended ==
  /\ present = Quiet /\ events = {} /\ counter = Calls
  /\ UNCHANGED vars

Next ==
  \/ client_t \/ client_response \/ AdvanceTime \/ Ended
  \/ ManagerStep /\ UNCHANGED <<counter, printed>>
  \/ ArithmeticStep /\ UNCHANGED <<counter, printed>>

Spec == Init /\ [][Next]_vars

-----------------------------------------------------------------------------
(* Properties *)

\* The manager that knows a message at trigger p, which carries its context
\* where the manager is about to store it or has just found it.
ManagerOf ==
  [mac_cm |-> "mac_cm", mac |-> "mac_cm", mul_cm |-> "mul_cm",
   multiplier |-> "mul_cm", add_cm |-> "add_cm", adder |-> "add_cm"]

ContextAt(p, v) ==
  IF p[2] \in {"request_in", "response_out"} THEN v.context
  ELSE context_buffer[ManagerOf[p[1]]][v.uid]

\* The data of the call that message v at p is about, and the call's number.
DataAt(p, v) ==
  IF ManagerOf[p[1]] = "mac_cm" THEN ContextAt(p, v) ELSE ContextAt(p, v).data

CallAt(p, v) == DataAt(p, v).factor1

\* The request or response in message v at p.
Payload(p, v) ==
  CASE p[2] = "request_in" -> v.request
    [] p[2] = "response_out" -> v.response
    [] OTHER -> v

\* A property of all messages on the ports and in the event queue.
ForAllMessages(P(_, _)) ==
  /\ \A p \in Triggers \ {Timer} : \A v \in present[p] : P(p, v)
  /\ \A e \in events : P(e.action, e.value)

Product(d) == d.factor1 * d.factor2

\* What a message at p has to carry for a call with data d.
Expected(p, d) ==
  CASE p \in {<<"mac_cm", "request_in">>, <<"mac", "request">>} -> d
    [] p \in {<<"mul_cm", "request_in">>} \cup {<<"multiplier", q>> : q \in {"request", "request_queue"}}
         -> <<d.factor1, d.factor2>>
    [] p \in {<<"mul_cm", "response_in">>, <<"mul_cm", "response_out">>} -> Product(d)
    [] p \in {<<"add_cm", "request_in">>} \cup {<<"adder", q>> : q \in {"request", "request_queue"}}
         -> <<Product(d), d.summand>>
    [] OTHER -> Product(d) + d.summand

OpenCalls ==
  (UNION {{CallAt(p, v) : v \in present[p]} : p \in Triggers \ {Timer}})
    \cup {CallAt(e.action, e.value) : e \in events}

\* Type correctness: one value at most at every trigger, and ids that were
\* handed out.
TypeOK ==
  /\ time \in Nat /\ counter \in 0 .. Calls
  /\ uid_counter \in [{"mac", "pair"} -> Nat \ {0}]
  /\ DOMAIN present = Triggers /\ present[Timer] \subseteq {0}
  /\ \A p \in Triggers : \A v, w \in present[p] : v = w
  /\ DOMAIN context_buffer = Managers
  /\ DOMAIN context_buffer.mac_cm \subseteq 1 .. uid_counter.mac - 1
  /\ \A cm \in {"mul_cm", "add_cm"} :
       DOMAIN context_buffer[cm] \subseteq 1 .. uid_counter.pair - 1
  /\ ForAllMessages(LAMBDA p, v : Payload(p, v).uid \in Nat \ {0})
  /\ \A e, f \in events : e.action = f.action /\ e.time = f.time => e = f

\* Every message has its context stored where it will be looked for, under its
\* own id: the context is that of a call of the client, and the message carries
\* what that call is to have computed so far.  So the client is given its own
\* context with the right result, in whatever order the services answer.
ContextsMatch ==
  ForAllMessages(LAMBDA p, v :
    /\ p[2] \in {"request_in", "response_out"}
         \/ v.uid \in DOMAIN context_buffer[ManagerOf[p[1]]]
    /\ CallAt(p, v) \in 0 .. counter - 1
    /\ DataAt(p, v) = MACData(CallAt(p, v))
    /\ Payload(p, v).data = Expected(p, DataAt(p, v)))

\* A call that is not lost is answered within two of the longest delays.
AnswersInTime ==
  \A n \in OpenCalls : time <= n * Period + 2 * MaxDelay

\* A call is given up only when it is answered, or when another one of the same
\* service is scheduled for the same tag: schedule overwrites it then.
LosesOnlyOnCollision ==
  [][\A n \in OpenCalls \ OpenCalls' :
       \/ client_response /\ \E a \in printed' : a.context.factor1 = n
       \/ \E e \in events, f \in events' :
            /\ CallAt(e.action, e.value) = n
            /\ f.action = e.action /\ f.time = e.time /\ f \notin events]_vars

\* To the client the whole is a service of calls that may forget some: no call
\* is answered twice, or with another call's context or result.
Service ==
  INSTANCE CallService WITH
    Result <- LAMBDA n : n * (n + 1) + (n + 2),
    Lossy <- TRUE,
    issued <- counter,
    open <- OpenCalls,
    answer <- {[context |-> a.context.factor1, data |-> a.data] : a \in printed}

ImplementsService == Service!Spec
====
