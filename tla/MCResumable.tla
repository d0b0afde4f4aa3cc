---------------------------- MODULE MCResumable ----------------------------
(* ResumableStream with a few connections and messages. *)
EXTENDS ResumableStream
=============================================================================
