---- MODULE MCEventQueue ----
(* TLC instances of EventQueue; the constants are in the .cfg files. *)
EXTENDS EventQueue
====
