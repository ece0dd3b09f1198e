---- MODULE MCPointerMap ----
(* TLC instances of PointerMap; the constants are in the .cfg files. *)
EXTENDS PointerMap
====
