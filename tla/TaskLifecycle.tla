--------------------------- MODULE TaskLifecycle ---------------------------
(***************************************************************************)
(* What the task facility promises: a task starts working while fewer than *)
(* the limit work, and ends at most once, for good, with an outcome that   *)
(* fits its final status.  Tasks implements this specification.            *)
(***************************************************************************)
EXTENDS Naturals, FiniteSets

CONSTANTS TaskIds, Limit   \* Limit = 0: no limit

VARIABLES state, outcome

lifecycleVars == <<state, outcome>>

\* The outcomes that go with a final status.
OutcomesOf(final) ==
  CASE final = "completed" -> {"result", "toolError"}
    [] final = "failed"    -> {"error"}
    [] final = "cancelled" -> {"canceled"}

LifecycleInit ==
  /\ state = [t \in TaskIds |-> "none"]
  /\ outcome = [t \in TaskIds |-> "nothing"]

Start(t) ==
  /\ state[t] = "none"
  /\ Limit > 0 => Cardinality({u \in TaskIds : state[u] = "working"}) < Limit
  /\ state' = [state EXCEPT ![t] = "working"]
  /\ UNCHANGED outcome

Finish(t, final, o) ==
  /\ state[t] = "working"
  /\ o \in OutcomesOf(final)
  /\ state' = [state EXCEPT ![t] = final]
  /\ outcome' = [outcome EXCEPT ![t] = o]

LifecycleNext ==
  \E t \in TaskIds :
    \/ Start(t)
    \/ \E final \in {"completed", "failed", "cancelled"} :
         \E o \in OutcomesOf(final) : Finish(t, final, o)

LifecycleSpec == LifecycleInit /\ [][LifecycleNext]_lifecycleVars
=============================================================================
