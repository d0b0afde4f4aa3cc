---------------------------- MODULE MCHttpClient ----------------------------
(* One goroutine that sends requests and two that initialize; two sessions,  *)
(* one of which the server forgets, and one connection that breaks.          *)
EXTENDS HttpClient
=============================================================================
