---- MODULE Arithmetic ----
(***************************************************************************)
(* RequestResponse/AddService.lf, MultiplyService.lf and the MACService of *)
(* MAC.lf, which multiplies with the one and adds with the other.          *)
(***************************************************************************)
EXTENDS ContextManager

CONSTANTS MinDelay, MaxDelay   \* rand() % 400 + 100: 100 to 499 ms

ASSUME DelayAssumption == MinDelay \in Nat \ {0} /\ MaxDelay \in Nat

\* The delays a service draws from; the mutant is one too wide.
DelaysWide == MinDelay .. MaxDelay + 1
Delays == MinDelay .. MaxDelay

Services == {"multiplier", "adder"}

\* Where the services' response is connected to.
Response == [multiplier |-> <<"mul_cm", "response_in">>, adder |-> <<"add_cm", "response_in">>]

Computed(s, pair) == IF s = "multiplier" THEN pair[1] * pair[2] ELSE pair[1] + pair[2]

\* reaction (request) of a service.
service_request(s) ==
  /\ Turn(<<s, "request">>)
  /\ \E r \in present[<<s, "request">>], d \in Delays :
       events' = Scheduled(<<s, "request_queue">>, r, d)
  /\ SetsNothing(<<s, "request">>)
  /\ UNCHANGED <<time, uid_counter, context_buffer>>

\* reaction (request_queue) of a service.
service_request_queue(s) ==
  /\ Turn(<<s, "request_queue">>)
  /\ \E r \in present[<<s, "request_queue">>] :
       Sets(<<s, "request_queue">>, Response[s], MakeResponse(r, Computed(s, r.data)))
  /\ UNCHANGED <<time, events, uid_counter, context_buffer>>

\* reaction (request) of MACService: the request itself is the context.
mac_request ==
  /\ Turn(<<"mac", "request">>)
  /\ \E r \in present[<<"mac", "request">>] :
       Sets(<<"mac", "request">>, <<"mul_cm", "request_in">>,
            [request |-> NewRequest("pair", <<r.data.factor1, r.data.factor2>>),
             context |-> r])
  /\ Counts("pair")
  /\ UNCHANGED <<time, events, context_buffer>>

\* reaction (mul_cm.response_out).
mac_mul_response_out ==
  /\ Turn(<<"mul_cm", "response_out">>)
  /\ \E m \in present[<<"mul_cm", "response_out">>] :
       Sets(<<"mul_cm", "response_out">>, <<"add_cm", "request_in">>,
            [request |-> NewRequest("pair", <<m.response.data, m.context.data.summand>>),
             context |-> m.context])
  /\ Counts("pair")
  /\ UNCHANGED <<time, events, context_buffer>>

\* The response to the original request; the mutant answers under the id of the
\* addition.
OriginalResponseToSum(m) == MakeResponse(m.response, m.response.data)
OriginalResponse(m) == MakeResponse(m.context, m.response.data)

\* reaction (add_cm.response_out).
mac_add_response_out ==
  /\ Turn(<<"add_cm", "response_out">>)
  /\ \E m \in present[<<"add_cm", "response_out">>] :
       Sets(<<"add_cm", "response_out">>, <<"mac_cm", "response_in">>, OriginalResponse(m))
  /\ UNCHANGED <<time, events, uid_counter, context_buffer>>

ArithmeticStep ==
  \/ \E s \in Services : service_request(s) \/ service_request_queue(s)
  \/ mac_request \/ mac_mul_response_out \/ mac_add_response_out
====
