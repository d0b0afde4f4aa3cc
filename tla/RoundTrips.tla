----------------------------- MODULE RoundTrips -----------------------------
(***************************************************************************)
(* Multi round-trip requests (client/mrtr.go, server/mrtr.go): a handler   *)
(* that needs input asks for it in its result, and is called again with    *)
(* the answers and the state it gave.                                      *)
(*                                                                         *)
(* Either the client drives the loop (multiRoundTrip), and its answers     *)
(* travel with a request of its own, or, for a client of an earlier        *)
(* protocol version, the server does (resolveMultiRoundTrip), and asks for *)
(* each answer in a request to the client.  Both ask everything at once,   *)
(* each request in a goroutine.                                            *)
(***************************************************************************)
EXTENDS Integers, FiniteSets

CONSTANTS
  Ids,               \* keys of input requests
  MaxRoundTrips,     \* maxInputRoundTrips, maxLegacyInputRoundTrips
  MaxLoadShedding    \* maxLoadSheddingRoundTrips

VARIABLES
  driver,        \* "client", "manual" (a client that leaves it to its caller), "server"
  pc,            \* what the loop is doing
  calls,         \* how often the handler has been called
  loadShedding,  \* results in a row that asked for nothing
  asked,         \* what the handler's last result that asked for anything asked for
  askedAt,       \* history: the call of the handler that returned it
  state,         \* requestState of the next call: the call that gave it
  answers,       \* inputResponses: the call that asked for each, 0 if absent
  helper,        \* the goroutine of each input request
  gathered,      \* what the goroutines have answered
  failed         \* firstErr is set and the context of the others cancelled

vars == <<driver, pc, calls, loadShedding, asked, askedAt, state, answers, helper,
          gathered, failed>>

NoAnswers == [i \in Ids |-> 0]
NoHelpers == [i \in Ids |-> "none"]

Init ==
  /\ driver \in {"client", "manual", "server"}
  /\ pc = "handling" /\ calls = 1 /\ loadShedding = 0
  /\ asked = {} /\ askedAt = 0 /\ state = 0
  /\ answers = NoAnswers /\ helper = NoHelpers /\ gathered = NoAnswers
  /\ failed = FALSE

-----------------------------------------------------------------------------
(* The handler, and what the loop makes of its result.                      *)

\* A final result, or an error.
Finishes ==
  /\ pc = "handling"
  /\ pc' = "over"
  /\ UNCHANGED <<driver, calls, loadShedding, asked, askedAt, state, answers, helper,
                 gathered, failed>>

\* Input is needed: the attempts are counted before it is asked for.
NeedsInput(ids) ==
  /\ pc = "handling" /\ ids # {} /\ driver # "manual"
  /\ loadShedding' = 0
  /\ asked' = ids /\ askedAt' = calls
  /\ IF calls >= (IF driver = "server" THEN MaxRoundTrips + 1 ELSE MaxRoundTrips)
       THEN pc' = "over" /\ UNCHANGED helper
       ELSE /\ pc' = "fulfilling"
            /\ helper' = [i \in Ids |-> IF i \in ids THEN "asking" ELSE "none"]
  /\ gathered' = NoAnswers /\ failed' = FALSE
  /\ UNCHANGED <<driver, calls, state, answers>>

\* No input is asked for: the server sheds load.  The client calls again with
\* the answers it has, a few times; the server cannot ask its client to.
ShedsLoad ==
  /\ pc = "handling" /\ driver # "manual"
  /\ loadShedding' = loadShedding + 1
  /\ IF driver = "server" \/ loadShedding' >= MaxLoadShedding \/ calls >= MaxRoundTrips
       THEN pc' = "over" /\ UNCHANGED <<calls, state>>
       ELSE calls' = calls + 1 /\ state' = calls /\ UNCHANGED pc
  /\ UNCHANGED <<driver, asked, askedAt, answers, helper, gathered, failed>>

\* The result is left to the caller of the client.
LeavesToCaller ==
  /\ pc = "handling" /\ driver = "manual"
  /\ pc' = "over"
  /\ UNCHANGED <<driver, calls, loadShedding, asked, askedAt, state, answers, helper,
                 gathered, failed>>

-----------------------------------------------------------------------------
(* fulfillInputRequests.                                                    *)

Answers(i) ==
  /\ helper[i] = "asking"
  /\ helper' = [helper EXCEPT ![i] = "over"]
  /\ gathered' = [gathered EXCEPT ![i] = askedAt]
  /\ UNCHANGED <<driver, pc, calls, loadShedding, asked, askedAt, state, answers, failed>>

\* The first that fails cancels the others, which may have their answer yet.
Fails(i) ==
  /\ helper[i] = "asking"
  /\ helper' = [helper EXCEPT ![i] = "over"]
  /\ failed' = TRUE
  /\ UNCHANGED <<driver, pc, calls, loadShedding, asked, askedAt, state, answers, gathered>>

\* Mutant: the call goes on with the first answers there are.
CallsAgain_Early ==
  /\ pc = "fulfilling" /\ gathered # NoAnswers
  /\ IF failed
       THEN pc' = "over" /\ UNCHANGED <<calls, state, answers>>
       ELSE /\ pc' = "handling" /\ calls' = calls + 1
            /\ state' = calls /\ answers' = gathered
  /\ UNCHANGED <<driver, loadShedding, asked, askedAt, helper, gathered, failed>>

\* All of them are waited for.
CallsAgain ==
  /\ pc = "fulfilling" /\ \A i \in Ids : helper[i] # "asking"
  /\ IF failed
       THEN pc' = "over" /\ UNCHANGED <<calls, state, answers>>
       ELSE /\ pc' = "handling" /\ calls' = calls + 1
            /\ state' = calls /\ answers' = gathered
  /\ UNCHANGED <<driver, loadShedding, asked, askedAt, helper, gathered, failed>>
-----------------------------------------------------------------------------
Next ==
  \/ Finishes \/ ShedsLoad \/ LeavesToCaller
  \/ \E ids \in SUBSET Ids : NeedsInput(ids)
  \/ \E i \in Ids : Answers(i) \/ Fails(i)
  \/ CallsAgain

Spec == Init /\ [][Next]_vars
-----------------------------------------------------------------------------
TypeOK ==
  /\ driver \in {"client", "manual", "server"}
  /\ pc \in {"handling", "fulfilling", "over"}
  /\ calls \in Nat /\ loadShedding \in 0..MaxLoadShedding
  /\ asked \subseteq Ids /\ askedAt \in Nat /\ state \in Nat
  /\ answers \in [Ids -> Nat] /\ gathered \in [Ids -> Nat]
  /\ helper \in [Ids -> {"none", "asking", "over"}] /\ failed \in BOOLEAN

\* Whenever the handler is called again, it has the state of its last result,
\* and answers to all that it asked for last and to nothing else, also when
\* it shed load in between; no goroutine still asks when it is called or when
\* the call returns; and the loop ends: a handler that never has enough is
\* called a bounded number of times.
AnswersComplete ==
  /\ pc = "handling" =>
       /\ state = calls - 1
       /\ \A i \in Ids : answers[i] = IF i \in asked THEN askedAt ELSE 0
  /\ pc \in {"handling", "over"} => \A i \in Ids : helper[i] # "asking"
  /\ calls <= MaxRoundTrips + 1
=============================================================================
