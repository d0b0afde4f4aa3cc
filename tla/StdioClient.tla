---------------------------- MODULE StdioClient ----------------------------
(***************************************************************************)
(* The stdio transport of the client (client/transport/stdio.go).          *)
(*                                                                         *)
(* Start spawns the server and a reader of its output, SendRequest writes  *)
(* to its input and waits on a channel that the reader answers through,    *)
(* and Close lets go of it all.  The three run in any order, and the       *)
(* server may die.                                                         *)
(***************************************************************************)
EXTENDS Integers, Sequences

CONSTANTS
  Starters, Closers,   \* calls of Start and of Close
  Requests             \* calls of SendRequest, each with an id of its own

Calls == Starters \union Closers

VARIABLES
  isCommand,       \* the server is a child process, else a pair of streams
  call,            \* what each call of Start or Close is doing
  done,            \* the done channel is closed
  started, resourcesReady,
  child,           \* "none", "running", "dead", or "reaped"
  cleanup,         \* closeCleanupOnce: "none", "running" or "done"
  request,         \* what each call of SendRequest is doing
  responses,       \* the requests that have an entry in the map
  answer,          \* the requests whose channel holds the response
  stdin, stdout,   \* requests the server has not answered; lines not read
  reader, current, \* readResponses, and the response in its hands
  closeCalled      \* history: Close was called by the application

vars == <<isCommand, call, done, started, resourcesReady, child, cleanup, request,
          responses, answer, stdin, stdout, reader, current, closeCalled>>

procVars == <<isCommand, call, started, resourcesReady, child, cleanup, closeCalled>>
requestVars == <<request, responses, answer, stdin>>
readerVars == <<stdout, reader, current>>

Init ==
  /\ isCommand \in BOOLEAN
  /\ call = [c \in Calls |-> "idle"]
  /\ done = FALSE /\ started = FALSE /\ resourcesReady = ~isCommand
  /\ child = IF isCommand THEN "none" ELSE "running"
  /\ cleanup = "none"
  /\ request = [r \in Requests |-> "idle"]
  /\ responses = {} /\ answer = {} /\ stdin = {} /\ stdout = <<>>
  /\ reader = "none" /\ current = {} /\ closeCalled = FALSE

-----------------------------------------------------------------------------
(* Start.                                                                   *)

Start(c) ==
  /\ call[c] = "idle"
  /\ IF done \/ started
       THEN call' = [call EXCEPT ![c] = "over"] /\ UNCHANGED started
       ELSE /\ call' = [call EXCEPT ![c] = IF isCommand THEN "spawning" ELSE "published"]
            /\ started' = TRUE
  /\ UNCHANGED <<isCommand, done, resourcesReady, child, cleanup, closeCalled,
                 requestVars, readerVars>>

\* The command cannot be started, or Close was seen in time: Start may be
\* called again.
SpawnFails(c) ==
  /\ call[c] = "spawning"
  /\ call' = [call EXCEPT ![c] = "over"]
  /\ started' = FALSE
  /\ UNCHANGED <<isCommand, done, resourcesReady, child, cleanup, closeCalled,
                 requestVars, readerVars>>

Spawn(c) ==
  /\ call[c] = "spawning"
  /\ call' = [call EXCEPT ![c] = "publishing"]
  /\ child' = "running"
  /\ UNCHANGED <<isCommand, done, started, resourcesReady, cleanup, closeCalled,
                 requestVars, readerVars>>

Publish(c) ==
  /\ call[c] = "publishing"
  /\ call' = [call EXCEPT ![c] = "published"]
  /\ resourcesReady' = TRUE
  /\ UNCHANGED <<isCommand, done, started, child, cleanup, closeCalled,
                 requestVars, readerVars>>

\* Mutant: Start trusts what it saw before it spawned the server.
StartReader_Unchecked(c) ==
  /\ call[c] = "published"
  /\ call' = [call EXCEPT ![c] = "over"]
  /\ reader' = "checking"
  /\ UNCHANGED <<isCommand, done, started, resourcesReady, child, cleanup, closeCalled,
                 requestVars, stdout, current>>

\* A Close that came too early for what was published is made up for.
StartReader(c) ==
  /\ call[c] = "published"
  /\ IF done
       THEN call' = [call EXCEPT ![c] = "closing"] /\ UNCHANGED reader
       ELSE call' = [call EXCEPT ![c] = "over"] /\ reader' = "checking"
  /\ UNCHANGED <<isCommand, done, started, resourcesReady, child, cleanup, closeCalled,
                 requestVars, stdout, current>>

-----------------------------------------------------------------------------
(* Close.                                                                   *)

Close(c) ==
  /\ call[c] = "idle" /\ closeCalled' = TRUE
  /\ call' = [call EXCEPT ![c] = "closing"]
  /\ done' = TRUE
  /\ UNCHANGED <<isCommand, started, resourcesReady, child, cleanup, requestVars, readerVars>>

\* The first to get there cleans up, and the others wait for it.  What is not
\* published yet is left to Start.
Cleanup(c) ==
  /\ call[c] = "closing" /\ (~resourcesReady \/ cleanup # "running")
  /\ call' = [call EXCEPT ![c] =
                IF resourcesReady /\ cleanup = "none" THEN "cleaning" ELSE "over"]
  /\ cleanup' = IF resourcesReady /\ cleanup = "none" THEN "running" ELSE cleanup
  /\ UNCHANGED <<isCommand, done, started, resourcesReady, child, closeCalled,
                 requestVars, readerVars>>

\* The server's input is closed, and a child process waited for, which a signal
\* and then a kill help to its end (ServerDies).
CleanedUp(c) ==
  /\ call[c] = "cleaning" /\ (isCommand => child = "reaped")
  /\ call' = [call EXCEPT ![c] = "over"]
  /\ cleanup' = "done"
  /\ UNCHANGED <<isCommand, done, started, resourcesReady, child, closeCalled,
                 requestVars, readerVars>>

\* The child has not exited in the time that is left to it after the kill: the
\* call that cleans up returns ErrChildShutdownTimeout, or the error it met
\* before.  The last select may find both the exit and the timer.
GivesUp(c) ==
  /\ call[c] = "cleaning" /\ isCommand
  /\ call' = [call EXCEPT ![c] = "gaveUp"]
  /\ cleanup' = "done"
  /\ UNCHANGED <<isCommand, done, started, resourcesReady, child, closeCalled,
                 requestVars, readerVars>>

\* The goroutine of the clean-up, which calls Wait and outlives a call that gives
\* up.  Wait closes the child's output.
WaitReturns ==
  /\ isCommand /\ cleanup # "none" /\ child = "dead"
  /\ child' = "reaped"
  /\ UNCHANGED <<isCommand, call, done, started, resourcesReady, cleanup, closeCalled,
                 requestVars, readerVars>>

-----------------------------------------------------------------------------
(* SendRequest.                                                             *)

SendRequest(r) ==
  /\ request[r] = "idle"
  /\ IF done \/ ~resourcesReady
       THEN request' = [request EXCEPT ![r] = "failed"] /\ UNCHANGED responses
       ELSE /\ request' = [request EXCEPT ![r] = "registered"]
            /\ responses' = responses \union {r}
  /\ UNCHANGED <<procVars, done, answer, stdin, readerVars>>

\* The request is written, or cannot be.
Write(r) ==
  /\ request[r] = "registered"
  /\ \/ /\ child = "running" /\ cleanup # "done"
        /\ request' = [request EXCEPT ![r] = "waiting"]
        /\ stdin' = stdin \union {r}
        /\ UNCHANGED responses
     \/ /\ child # "running" \/ cleanup # "none"
        /\ request' = [request EXCEPT ![r] = "failed"]
        /\ responses' = responses \ {r}
        /\ UNCHANGED stdin
  /\ UNCHANGED <<procVars, done, answer, readerVars>>

Answered(r) ==
  /\ request[r] = "waiting" /\ r \in answer
  /\ request' = [request EXCEPT ![r] = "answered"]
  /\ answer' = answer \ {r}
  /\ UNCHANGED <<procVars, done, responses, stdin, readerVars>>

Cancelled(r) ==
  /\ request[r] = "waiting"
  /\ request' = [request EXCEPT ![r] = "cancelled"]
  /\ responses' = responses \ {r}
  /\ UNCHANGED <<procVars, done, answer, stdin, readerVars>>

\* The transport is closed: a response that is there is taken all the same.
SeesDone(r) ==
  /\ request[r] = "waiting" /\ done /\ r \notin answer
  /\ request' = [request EXCEPT ![r] = "leaving"]
  /\ UNCHANGED <<procVars, done, responses, answer, stdin, readerVars>>

Leaves(r) ==
  /\ request[r] = "leaving"
  /\ request' = [request EXCEPT ![r] = "closed"]
  /\ responses' = responses \ {r}
  /\ UNCHANGED <<procVars, done, answer, stdin, readerVars>>

-----------------------------------------------------------------------------
(* The server, and readResponses.                                           *)

ServerAnswers ==
  /\ child = "running"
  /\ \E r \in stdin : stdin' = stdin \ {r} /\ stdout' = Append(stdout, r)
  /\ UNCHANGED <<procVars, done, request, responses, answer, reader, current>>

ServerDies ==
  /\ child = "running" /\ child' = "dead"
  /\ UNCHANGED <<isCommand, call, started, resourcesReady, cleanup, closeCalled, done,
                 requestVars, readerVars>>

ReaderChecks ==
  /\ reader = "checking"
  /\ reader' = IF done THEN "over" ELSE "reading"
  /\ UNCHANGED <<procVars, done, requestVars, stdout, current>>

\* A line: the response of a request that waits, or that no longer does.
ReaderReads ==
  /\ reader = "reading" /\ stdout # <<>>
  /\ stdout' = Tail(stdout)
  /\ IF Head(stdout) \in responses
       THEN reader' = "answering" /\ current' = {Head(stdout)}
       ELSE reader' = "checking" /\ UNCHANGED current
  /\ UNCHANGED <<procVars, done, requestVars>>

\* The channel has room for the one response there is.
ReaderAnswers ==
  /\ reader = "answering" /\ reader' = "deleting"
  /\ answer' = answer \union current
  /\ UNCHANGED <<procVars, done, request, responses, stdin, stdout, current>>

ReaderDeletes ==
  /\ reader = "deleting" /\ reader' = "checking"
  /\ responses' = responses \ current /\ current' = {}
  /\ UNCHANGED <<procVars, done, request, answer, stdin, stdout>>

\* The output ends with the server, what it wrote being read before, or when
\* the clean-up closes it.
ReaderEnds ==
  /\ reader = "reading" /\ child # "running"
  /\ stdout = <<>> \/ child = "reaped"
  /\ reader' = "over" /\ done' = TRUE
  /\ UNCHANGED <<procVars, requestVars, stdout, current>>

-----------------------------------------------------------------------------
Starting(c) == Start(c) \/ SpawnFails(c) \/ Spawn(c) \/ Publish(c) \/ StartReader(c)
Requesting(r) ==
  SendRequest(r) \/ Write(r) \/ Answered(r) \/ Cancelled(r) \/ SeesDone(r) \/ Leaves(r)
Reading == ReaderChecks \/ ReaderReads \/ ReaderAnswers \/ ReaderDeletes \/ ReaderEnds

Next ==
  \/ \E c \in Starters : Starting(c)
  \/ \E c \in Closers : Close(c)
  \/ \E c \in Calls : Cleanup(c) \/ CleanedUp(c) \/ GivesUp(c)
  \/ WaitReturns
  \/ \E r \in Requests : Requesting(r)
  \/ ServerAnswers \/ ServerDies \/ Reading

Spec == Init /\ [][Next]_vars
-----------------------------------------------------------------------------
TypeOK ==
  /\ isCommand \in BOOLEAN /\ done \in BOOLEAN /\ started \in BOOLEAN
  /\ resourcesReady \in BOOLEAN /\ closeCalled \in BOOLEAN
  /\ call \in [Calls -> {"idle", "spawning", "publishing", "published", "closing",
                         "cleaning", "gaveUp", "over"}]
  /\ child \in {"none", "running", "dead", "reaped"}
  /\ cleanup \in {"none", "running", "done"}
  /\ request \in [Requests -> {"idle", "registered", "waiting", "leaving", "answered",
                               "cancelled", "closed", "failed"}]
  /\ responses \subseteq Requests /\ answer \subseteq Requests
  /\ stdin \subseteq Requests /\ stdout \in Seq(Requests)
  /\ reader \in {"none", "checking", "reading", "answering", "deleting", "over"}
  /\ current \subseteq Requests

Over == \A c \in Calls :
          call[c] \in {"over", "gaveUp"} \/ (c \in Starters /\ call[c] = "idle")

\* Close leaves nothing behind, however it races Start, which may be about to
\* publish a child process that Close cannot see: once both have returned, the
\* process has been waited for, or the call that cleaned up has said that it gave
\* up on a process that outlived the kill.  The map keeps no entry of a call that
\* has returned.  And a response that was read before the server died is
\* returned, not replaced by the error of a closed transport.
LetsGo ==
  /\ closeCalled /\ Over /\ isCommand =>
       child \in {"none", "reaped"} \/ \E c \in Calls : call[c] = "gaveUp"
  /\ \A r \in responses :
       request[r] \in {"registered", "waiting", "leaving"} \/ r \in current
  /\ ~closeCalled => \A r \in answer : request[r] # "closed"
=============================================================================
