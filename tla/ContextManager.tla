---- MODULE ContextManager ----
(***************************************************************************)
(* RequestResponse/request_response.hh and ContextManager.lf: requests     *)
(* carry a unique id, their responses the same one, and a context manager  *)
(* keeps the context of each request under its id.                         *)
(***************************************************************************)
EXTENDS CppRuntime

VARIABLES
  uid_counter,     \* type of requests -> the next id: Request<T>::uid_counter
  context_buffer   \* context manager -> id -> context

Managers == {"mac_cm", "mul_cm", "add_cm"}

\* Where the managers' request_out is connected to; response_out is read by the
\* reactor that contains the manager.
RequestOut ==
  [mac_cm |-> <<"mac", "request">>,
   mul_cm |-> <<"multiplier", "request">>,
   add_cm |-> <<"adder", "request">>]

ContextInit ==
  /\ uid_counter = [mac |-> 1, pair |-> 1]
  /\ context_buffer = [cm \in Managers |-> [u \in {} |-> {}]]

\* fetch_add; the mutant only reads.
CountedNot(u) == u
Counted(u) == u + 1

\* The constructor of Request<T>: type stands for T.
NewRequest(type, data) == [uid |-> uid_counter[type], data |-> data]
Counts(type) == uid_counter' = [uid_counter EXCEPT ![type] = Counted(@)]

MakeResponse(request, data) == [uid |-> request.uid, data |-> data]

\* context_buffer[uid] = context.
Stored(b, uid, context) ==
  [u \in DOMAIN b \cup {uid} |-> IF u = uid THEN context ELSE b[u]]

\* The value that operator[] adds for an unknown id: all zeros.
NoData == [factor1 |-> 0, factor2 |-> 0, summand |-> 0]
Default(cm) == IF cm = "mac_cm" THEN NoData ELSE [uid |-> 0, data |-> NoData]

\* reaction (request_in).
request_in(cm) ==
  /\ Turn(<<cm, "request_in">>)
  /\ \E m \in present[<<cm, "request_in">>] :
       /\ context_buffer' = [context_buffer EXCEPT ![cm] = Stored(@, m.request.uid, m.context)]
       /\ Sets(<<cm, "request_in">>, RequestOut[cm], m.request)
  /\ UNCHANGED <<time, events, uid_counter>>

\* reaction (response_in).  The context stays in the buffer.
response_in(cm) ==
  /\ Turn(<<cm, "response_in">>)
  /\ \E r \in present[<<cm, "response_in">>] :
       LET b == context_buffer[cm]
           context == IF r.uid \in DOMAIN b THEN b[r.uid] ELSE Default(cm)
       IN  /\ context_buffer' = [context_buffer EXCEPT ![cm] = Stored(@, r.uid, context)]
           /\ Sets(<<cm, "response_in">>, <<cm, "response_out">>,
                   [response |-> r, context |-> context])
  /\ UNCHANGED <<time, events, uid_counter>>

ManagerStep == \E cm \in Managers : request_in(cm) \/ response_in(cm)
====
