------------------------------ MODULE MCStdio ------------------------------
(* Stdio with one worker, a queue of one and a few requests. *)
EXTENDS Stdio

\* Ids the session's own requests do not have.
OwnCalls   == {11, 12, 13}
NoRequests == {}

\* Ids that count up from 1, like the session's; mcp-go's client counts so.
FirstIds      == {1, 2}
FirstCalls    == {1, 2, 3}
FirstRequests == {4}
=============================================================================
