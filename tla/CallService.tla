---- MODULE CallService ----
(***************************************************************************)
(* What a context manager promises the client it serves: every answer      *)
(* belongs to one open call, carries that call's own context and result,   *)
(* and comes once, whatever the order in which the calls are answered.  A  *)
(* lossy service may forget calls; a service that is not never does.       *)
(***************************************************************************)
EXTENDS Integers

CONSTANTS
  Result(_),   \* what call n has to return
  Lossy        \* whether a call may be forgotten

VARIABLES
  issued,    \* number of calls: 0 .. issued-1
  open,      \* the calls that are to be answered
  answer     \* the last answer: {[context, data]}, {} at first

vars == <<issued, open, answer>>

Init == issued = 0 /\ open = {} /\ answer = {}

Issue ==
  /\ issued' = issued + 1
  /\ open' = open \cup {issued}
  /\ UNCHANGED answer

Answer ==
  \E n \in open :
    /\ open' = open \ {n}
    /\ answer' = {[context |-> n, data |-> Result(n)]}
    /\ UNCHANGED issued

Forget ==
  /\ Lossy
  /\ \E n \in open : open' = open \ {n}
  /\ UNCHANGED <<issued, answer>>

Next == Issue \/ Answer \/ Forget

Spec == Init /\ [][Next]_vars
====
