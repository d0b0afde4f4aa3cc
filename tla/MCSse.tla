------------------------------- MODULE MCSse -------------------------------
(* Two goroutines that call Start, so two attempts and two sessions, one     *)
(* request, and a pinger that fills a queue of one place.                    *)
EXTENDS Sse
=============================================================================
