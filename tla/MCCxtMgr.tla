---- MODULE MCCxtMgr ----
(* TLC instances of CxtMgr; the constants are in the .cfg files. *)
EXTENDS CxtMgr
====
