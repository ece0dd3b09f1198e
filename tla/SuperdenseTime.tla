---- MODULE SuperdenseTime ----
(***************************************************************************)
(* The logical time of Lingua Franca programs in C (external): tags are    *)
(* pairs of a time and a microstep, ordered lexicographically, and events  *)
(* of one action that meet at one time take consecutive microsteps.        *)
(***************************************************************************)
EXTENDS Integers, FiniteSets

\* Tags, and records with the fields of a tag, in their order.
NotAfter(e, f) == e.time < f.time \/ (e.time = f.time /\ e.micro <= f.micro)

\* The first microstep from m on that no piled event has.
FreeMicro(P, m) ==
  CHOOSE k \in m .. m + Cardinality(P) :
    /\ \A e \in P : e.micro # k
    /\ \A j \in m .. k - 1 : \E e \in P : e.micro = j
====
