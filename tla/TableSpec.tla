---- MODULE TableSpec ----
(***************************************************************************)
(* What hashmap.h gives its users: a table of at most Capacity keys that   *)
(* returns the value put last for a key, and that dies when a put does not *)
(* fit.  That the key is there is a precondition of get: for another key a *)
(* full table dies, and one that is not full returns any value, although   *)
(* the comments at get say that it crashes (CrashesOnMissing in            *)
(* PointerMap).                                                            *)
(***************************************************************************)
EXTENDS Integers, FiniteSets

CONSTANTS Keys, Values, Capacity

VARIABLES
  f,        \* key -> the value put last
  ret,      \* what the last get returned: {v}, {} at first
  crashed

vars == <<f, ret, crashed>>

Init == f = [k \in {} |-> k] /\ ret = {} /\ crashed = FALSE

Put(k, v) ==
  /\ k \in DOMAIN f \/ Cardinality(DOMAIN f) < Capacity
  /\ f' = [x \in DOMAIN f \cup {k} |-> IF x = k THEN v ELSE f[x]]
  /\ UNCHANGED <<ret, crashed>>

Get(k) ==
  /\ k \in DOMAIN f \/ Cardinality(DOMAIN f) < Capacity
  /\ \E v \in Values :
       /\ k \in DOMAIN f => v = f[k]
       /\ ret' = {v}
  /\ UNCHANGED <<f, crashed>>

Overflow(k) ==
  /\ k \notin DOMAIN f /\ Cardinality(DOMAIN f) = Capacity
  /\ crashed' = TRUE
  /\ UNCHANGED <<f, ret>>

Next ==
  /\ ~crashed
  /\ \E k \in Keys : (\E v \in Values : Put(k, v)) \/ Get(k) \/ Overflow(k)

Spec == Init /\ [][Next]_vars
====
