------------------------------ MODULE MCTasks ------------------------------
(* Tasks on a small instance. *)
EXTENDS Tasks

CONSTANTS t1, t2, s1, s2, none, r1, r2

OneTask     == {t1}
TwoTasks    == {t1, t2}
TwoSessions == {s1, s2}
NoSessions  == {none}
OneRequest  == {r1}
TwoRequests == {r1, r2}
=============================================================================
