---- MODULE MCHashMap ----
(* TLC instances of HashMap; the constants are in the .cfg files. *)
EXTENDS HashMap
====
