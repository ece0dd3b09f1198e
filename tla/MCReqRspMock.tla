---- MODULE MCReqRspMock ----
(* TLC instances of ReqRspMock; the constants are in the .cfg files. *)
EXTENDS ReqRspMock
====
