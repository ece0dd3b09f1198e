---- MODULE MCMAC ----
(* TLC instances of MAC; the constants are in the .cfg files. *)
EXTENDS MAC
====
