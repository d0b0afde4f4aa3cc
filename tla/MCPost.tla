------------------------------- MODULE MCPost -------------------------------
(* A handler, a goroutine it leaves behind, a broadcaster; channels of one.  *)
EXTENDS PostStream
=============================================================================
