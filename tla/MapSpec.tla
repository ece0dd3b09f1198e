---- MODULE MapSpec ----
(***************************************************************************)
(* What the users of utils/map.c rely on: a map from keys to values that   *)
(* keeps the first value inserted for a key until the key is erased.       *)
(***************************************************************************)
CONSTANTS Keys, Values

VARIABLES
  f,      \* the entries: key -> value
  ret     \* what the last call returned: {v} for a value or true, {} otherwise

vars == <<f, ret>>

Value(k) == {f[x] : x \in DOMAIN f \cap {k}}

Init == f = [k \in {} |-> k] /\ ret = {}

Insert(k, v) ==
  /\ f' = [x \in DOMAIN f \cup {k} |-> IF x \in DOMAIN f THEN f[x] ELSE v]
  /\ ret' = IF k \in DOMAIN f THEN {} ELSE {v}

Erase(k) ==
  /\ f' = [x \in DOMAIN f \ {k} |-> f[x]]
  /\ ret' = Value(k)

Find(k) ==
  /\ ret' = Value(k)
  /\ UNCHANGED f

Next ==
  \E k \in Keys : (\E v \in Values : Insert(k, v)) \/ Erase(k) \/ Find(k)

Spec == Init /\ [][Next]_vars
====
