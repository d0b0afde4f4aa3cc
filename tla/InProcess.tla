----------------------------- MODULE InProcess -----------------------------
(***************************************************************************)
(* The in-process transport (client/transport/inprocess.go), which hands   *)
(* requests to an MCPServer of the same process.                           *)
(*                                                                         *)
(* Start registers a session with the server.  That calls hooks of the     *)
(* application, which may take their time and may close the transport, so  *)
(* no lock is held meanwhile.                                              *)
(***************************************************************************)
EXTENDS Integers

CONSTANTS
  Starters, Closers   \* calls of Start and of Close

VARIABLES
  closed, started, starting,
  session,        \* a session has been published by Start
  registered,     \* the server has the session
  hooks,          \* OnRegisterSession calls less OnUnregisterSession calls
  done,           \* the done channel is closed
  call,           \* what each call is doing
  forwarders,     \* goroutines that forward notifications to the client
  result          \* history: what each call of Start returned

vars == <<closed, started, starting, session, registered, hooks, done, call,
          forwarders, result>>

Init ==
  /\ closed = FALSE /\ started = FALSE /\ starting = FALSE /\ session = FALSE
  /\ registered = FALSE /\ hooks = 0 /\ done = FALSE /\ forwarders = 0
  /\ call = [c \in Starters \union Closers |-> "idle"]
  /\ result = [c \in Starters |-> "none"]

\* UnregisterSession calls the hook if it removes the session.
UnregisterSession ==
  /\ registered' = FALSE
  /\ hooks' = IF registered THEN hooks - 1 ELSE hooks

Returns(c, r) ==
  /\ call' = [call EXCEPT ![c] = "over"]
  /\ result' = [result EXCEPT ![c] = r]

-----------------------------------------------------------------------------
\* A call that finds another one starting waits for it, and looks again.
Start(c) ==
  /\ call[c] = "idle" /\ ~(starting /\ ~closed /\ ~started)
  /\ CASE closed -> Returns(c, "closed") /\ UNCHANGED starting
       [] started /\ ~closed -> Returns(c, "ok") /\ UNCHANGED starting
       [] OTHER -> /\ starting' = TRUE
                   /\ call' = [call EXCEPT ![c] = "registering"]
                   /\ UNCHANGED result
  /\ UNCHANGED <<closed, started, session, registered, hooks, done, forwarders>>

\* The context of a call that waits ends.
GivesUp(c) ==
  /\ call[c] = "idle" /\ starting /\ ~closed /\ ~started
  /\ Returns(c, "error")
  /\ UNCHANGED <<closed, started, starting, session, registered, hooks, done, forwarders>>

RegisterSession(c) ==
  /\ call[c] = "registering"
  /\ call' = [call EXCEPT ![c] = IF registered THEN "failed" ELSE "registered"]
  /\ registered' = TRUE
  /\ hooks' = IF registered THEN hooks ELSE hooks + 1
  /\ UNCHANGED <<closed, started, starting, session, done, forwarders, result>>

\* Mutant: closed is not looked at again after the hooks.
PublishSession_Unchecked(c) ==
  /\ call[c] \in {"registered", "failed"}
  /\ starting' = FALSE
  /\ IF call[c] = "failed"
       THEN Returns(c, "error") /\ UNCHANGED <<session, started>>
       ELSE /\ session' = TRUE /\ started' = TRUE
            /\ call' = [call EXCEPT ![c] = "forwarding"]
            /\ UNCHANGED result
  /\ UNCHANGED <<closed, registered, hooks, done, forwarders>>

\* The session is published unless the transport was closed meanwhile.
PublishSession(c) ==
  /\ call[c] \in {"registered", "failed"}
  /\ starting' = FALSE
  /\ CASE call[c] = "failed" -> Returns(c, "error") /\ UNCHANGED <<session, started>>
       [] call[c] = "registered" /\ closed ->
            /\ call' = [call EXCEPT ![c] = "unregistering"]
            /\ UNCHANGED <<session, started, result>>
       [] OTHER -> /\ session' = TRUE /\ started' = TRUE
                   /\ call' = [call EXCEPT ![c] = "forwarding"]
                   /\ UNCHANGED result
  /\ UNCHANGED <<closed, registered, hooks, done, forwarders>>

StartUnregisters(c) ==
  /\ c \in Starters /\ call[c] = "unregistering"
  /\ UnregisterSession
  /\ Returns(c, "closed")
  /\ UNCHANGED <<closed, started, starting, session, done, forwarders>>

Forward(c) ==
  /\ call[c] = "forwarding"
  /\ forwarders' = forwarders + 1
  /\ Returns(c, "ok")
  /\ UNCHANGED <<closed, started, starting, session, registered, hooks, done>>

\* forwardNotifications ends with done.
ForwarderEnds ==
  /\ forwarders > 0 /\ done
  /\ forwarders' = forwarders - 1
  /\ UNCHANGED <<closed, started, starting, session, registered, hooks, done, call, result>>

-----------------------------------------------------------------------------
\* Close unregisters the session that it finds published.
Close(c) ==
  /\ call[c] = "idle" /\ closed' = TRUE
  /\ call' = [call EXCEPT ![c] = IF session THEN "closing" ELSE "closing nothing"]
  /\ UNCHANGED <<started, starting, session, registered, hooks, done, forwarders, result>>

CloseDone(c) ==
  /\ call[c] \in {"closing", "closing nothing"}
  /\ done' = TRUE
  /\ call' = [call EXCEPT ![c] = IF @ = "closing" THEN "unregistering" ELSE "over"]
  /\ UNCHANGED <<closed, started, starting, session, registered, hooks, forwarders, result>>

CloseUnregisters(c) ==
  /\ c \in Closers /\ call[c] = "unregistering"
  /\ UnregisterSession
  /\ call' = [call EXCEPT ![c] = "over"]
  /\ UNCHANGED <<closed, started, starting, session, done, forwarders, result>>
-----------------------------------------------------------------------------
Starting(c) ==
  \/ Start(c) \/ GivesUp(c) \/ RegisterSession(c) \/ PublishSession(c)
  \/ StartUnregisters(c) \/ Forward(c)

Closing(c) == Close(c) \/ CloseDone(c) \/ CloseUnregisters(c)

Next ==
  \/ \E c \in Starters : Starting(c)
  \/ \E c \in Closers : Closing(c)
  \/ ForwarderEnds

Spec == Init /\ [][Next]_vars
-----------------------------------------------------------------------------
TypeOK ==
  /\ closed \in BOOLEAN /\ started \in BOOLEAN /\ starting \in BOOLEAN
  /\ session \in BOOLEAN /\ registered \in BOOLEAN /\ done \in BOOLEAN
  /\ hooks \in Int /\ forwarders \in Nat
  /\ call \in [Starters \union Closers ->
                 {"idle", "registering", "registered", "failed", "unregistering",
                  "forwarding", "closing", "closing nothing", "over"}]
  /\ result \in [Starters -> {"none", "ok", "closed", "error"}]

Over == \A c \in Starters \union Closers :
          call[c] = "over" \/ (c \in Starters /\ call[c] = "idle")

\* Close leaves nothing behind, even when a hook of Start calls it: once the
\* calls have returned, the server has no session of a closed transport, each
\* registration was announced once and taken back once, and there is one
\* forwarder at most, and none of a transport that failed to start.
LetsGo ==
  /\ closed /\ Over => ~registered
  /\ hooks = IF registered THEN 1 ELSE 0
  /\ forwarders <= 1
  /\ forwarders > 0 => session
=============================================================================
