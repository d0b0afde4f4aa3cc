---------------------------- MODULE HttpSessions ----------------------------
(***************************************************************************)
(* Who knows a session of the streamable HTTP server (server/              *)
(* streamable_http.go, server/session.go).                                 *)
(*                                                                         *)
(* A session is an id.  The object that stands for it is made anew by each *)
(* request that finds none, and kept in two maps, neither of which is      *)
(* locked together with the other: sessions, whose objects receive         *)
(* broadcasts, and activeSessions, which GETs listen on and answers are    *)
(* routed by.  initialize, GETs, POSTs, DELETE, the idle sweeper and       *)
(* CloseSessions enter and remove objects concurrently, mostly by id and   *)
(* whatever the object.  This module follows the entries of one id.        *)
(***************************************************************************)
EXTENDS Integers, FiniteSets

CONSTANTS
  Gets, Posts,    \* the GETs, numbered, and POSTs with the id; each has its own object
  InitPost,     \* the POST of initialize, and its object
  Cleaners,       \* DELETEs, sweeps, calls of CloseSessions, numbered
  None,
  EventStore      \* whether there is one: sessions then outlive their GETs

Objects == Gets \union Posts \union {InitPost}

VARIABLES
  sessions,       \* MCPServer.sessions: the object of the id, or None
  activeSessions, \* the object of the id, or None
  closed,         \* objects whose done channel is closed
  terminated,     \* the session id manager
  init, get, post, cleaner,
  object,         \* the object that a GET or a POST works with
  sender,         \* a goroutine of each POST that sends through trySend
  owns,           \* ownsRegistration of each POST
  hooks           \* OnRegisterSession calls less OnUnregisterSession calls

vars == <<sessions, activeSessions, closed, terminated, init, get, post,
          cleaner, object, sender, owns, hooks>>

Init ==
  /\ sessions = None /\ activeSessions = None
  /\ closed = {} /\ terminated = FALSE /\ hooks = 0
  /\ init = "handling"
  /\ get = [g \in Gets |-> "none"] /\ post = [p \in Posts |-> "none"]
  /\ cleaner = [c \in Cleaners |-> "none"]
  /\ object = [r \in Gets \union Posts |-> None]
  /\ sender = [p \in Posts |-> "none"] /\ owns = [p \in Posts |-> FALSE]

-----------------------------------------------------------------------------
(* The registry of the MCP server: server/session.go.                       *)

\* RegisterSession fails when the id is registered.
RegisterSession(o) ==
  IF sessions = None THEN sessions' = o /\ hooks' = hooks + 1
                     ELSE UNCHANGED <<sessions, hooks>>

\* UnregisterSession removes whichever object is there.
UnregisterSession ==
  /\ sessions' = None
  /\ hooks' = IF sessions = None THEN hooks ELSE hooks - 1

-----------------------------------------------------------------------------
(* initialize: from the response on the client knows the id.                *)

InitRespond ==
  /\ init = "handling" /\ init' = "responded"
  /\ UNCHANGED <<sessions, activeSessions, closed, terminated, get, post,
                 cleaner, object, sender, owns, hooks>>

\* It registers unless a GET already has.
InitCheck ==
  /\ init = "responded"
  /\ init' = IF sessions = None THEN "absent" ELSE "done"
  /\ UNCHANGED <<sessions, activeSessions, closed, terminated, get, post,
                 cleaner, object, sender, owns, hooks>>

InitStore ==
  /\ init = "absent" /\ init' = "stored"
  /\ activeSessions' = InitPost
  /\ UNCHANGED <<sessions, closed, terminated, get, post, cleaner, object,
                 sender, owns, hooks>>

InitRegister ==
  /\ init = "stored" /\ init' = "done"
  /\ RegisterSession(InitPost)
  /\ activeSessions' = IF sessions = None THEN activeSessions ELSE None
  /\ UNCHANGED <<closed, terminated, get, post, cleaner, object, sender, owns>>

-----------------------------------------------------------------------------
(* GET, which no one validates the id of.                                   *)

Get(g) ==
  /\ get[g] = "none" /\ init # "handling"
  /\ \A h \in Gets : h < g => get[h] # "none"
  /\ IF activeSessions = None
       THEN /\ activeSessions' = g
            /\ object' = [object EXCEPT ![g] = g]
            /\ get' = [get EXCEPT ![g] = "created"]
       ELSE /\ object' = [object EXCEPT ![g] = activeSessions]
            /\ get' = [get EXCEPT ![g] = "sharing"]
            /\ UNCHANGED activeSessions
  /\ UNCHANGED <<sessions, closed, terminated, init, post, cleaner, sender,
                 owns, hooks>>

\* Mutant: a session that is registered already is taken for its own.
GetRegister_Replaces(g) ==
  /\ get[g] = "created"
  /\ sessions' = g /\ hooks' = hooks + 1
  /\ get' = [get EXCEPT ![g] = "listening"]
  /\ UNCHANGED <<activeSessions, closed, terminated, init, post, cleaner, object,
                 sender, owns>>

\* The GET that made the object registers it, or answers 400.
GetRegister(g) ==
  /\ get[g] = "created"
  /\ RegisterSession(g)
  /\ IF sessions = None
       THEN /\ get' = [get EXCEPT ![g] = "listening"]
            /\ UNCHANGED activeSessions
       ELSE /\ get' = [get EXCEPT ![g] = "over"]
            /\ activeSessions' = None
  /\ UNCHANGED <<closed, terminated, init, post, cleaner, object, sender, owns>>

\* The connection ends, or done is closed.  Only the GET that registered the
\* session removes it, by its id, and only without an event store.
GetEnds(g) ==
  /\ get[g] \in {"listening", "sharing"}
  /\ IF get[g] = "listening" /\ ~EventStore
       THEN /\ activeSessions' = None
            /\ get' = [get EXCEPT ![g] = "leaving"]
       ELSE /\ get' = [get EXCEPT ![g] = "over"]
            /\ UNCHANGED activeSessions
  /\ UNCHANGED <<sessions, closed, terminated, init, post, cleaner, object,
                 sender, owns, hooks>>

GetUnregister(g) ==
  /\ get[g] = "leaving"
  /\ get' = [get EXCEPT ![g] = "over"]
  /\ UnregisterSession
  /\ UNCHANGED <<activeSessions, closed, terminated, init, post, cleaner,
                 object, sender, owns>>

-----------------------------------------------------------------------------
(* POST of another request.                                                 *)

\* The id is validated, and the object is the registered one ...
Post(p) ==
  /\ post[p] = "none" /\ init # "handling" /\ ~terminated
  /\ IF sessions # None
       THEN /\ object' = [object EXCEPT ![p] = sessions]
            /\ post' = [post EXCEPT ![p] = "running"]
       ELSE /\ post' = [post EXCEPT ![p] = "unregistered"]
            /\ UNCHANGED object
  /\ UNCHANGED <<sessions, activeSessions, closed, terminated, init, get,
                 cleaner, sender, owns, hooks>>

\* ... or the active one, or its own.
PostLookup(p) ==
  /\ post[p] = "unregistered"
  /\ object' = [object EXCEPT ![p] = IF activeSessions # None THEN activeSessions ELSE p]
  /\ post' = [post EXCEPT ![p] = "running"]
  /\ UNCHANGED <<sessions, activeSessions, closed, terminated, init, get,
                 cleaner, sender, owns, hooks>>

\* trySend looks at done, then registers the POST's object if there is none,
\* perhaps after the POST has returned.
TrySend(p) ==
  /\ post[p] = "running" /\ sender[p] = "none"
  /\ sender' = [sender EXCEPT ![p] = "checked"]
  /\ UNCHANGED <<sessions, activeSessions, closed, terminated, init, get, post,
                 cleaner, object, owns, hooks>>

PostRegister(p) ==
  /\ sender[p] = "checked"
  /\ sender' = [sender EXCEPT ![p] = IF post[p] = "over" THEN "late" ELSE "registered"]
  /\ IF activeSessions = None
       THEN activeSessions' = object[p] /\ owns' = [owns EXCEPT ![p] = TRUE]
       ELSE UNCHANGED <<activeSessions, owns>>
  /\ UNCHANGED <<sessions, closed, terminated, init, get, post, cleaner, object, hooks>>

\* Only the POST that stored the object removes it, if it is still there.
PostReturns(p) ==
  /\ post[p] = "running"
  /\ post' = [post EXCEPT ![p] = "over"]
  /\ activeSessions' = IF owns[p] /\ activeSessions = object[p] THEN None
                                                                ELSE activeSessions
  /\ UNCHANGED <<sessions, closed, terminated, init, get, cleaner, object,
                 sender, owns, hooks>>

-----------------------------------------------------------------------------
(* DELETE, the sweeper, and CloseSessions.                                  *)

IsNext(c) == cleaner[c] = "none" /\ \A d \in Cleaners : d < c => cleaner[d] # "none"

\* The id is terminated, and the state cleaned up after.
Terminate(c) ==
  /\ IsNext(c) /\ init # "handling"
  /\ terminated' = TRUE
  /\ cleaner' = [cleaner EXCEPT ![c] = "terminated"]
  /\ UNCHANGED <<sessions, activeSessions, closed, init, get, post, object,
                 sender, owns, hooks>>

\* CloseSessions closes done of the object it finds, whose GETs end.
CloseSessions(c) ==
  /\ IsNext(c) /\ activeSessions # None
  /\ closed' = closed \union {activeSessions}
  /\ terminated' = TRUE
  /\ cleaner' = [cleaner EXCEPT ![c] = "terminated"]
  /\ UNCHANGED <<sessions, activeSessions, init, get, post, object, sender,
                 owns, hooks>>

CleanupUnregister(c) ==
  /\ cleaner[c] = "terminated"
  /\ UnregisterSession
  /\ cleaner' = [cleaner EXCEPT ![c] = "unregistered"]
  /\ UNCHANGED <<activeSessions, closed, terminated, init, get, post, object,
                 sender, owns>>

CleanupDelete(c) ==
  /\ cleaner[c] = "unregistered"
  /\ activeSessions' = None
  /\ cleaner' = [cleaner EXCEPT ![c] = "over"]
  /\ UNCHANGED <<sessions, closed, terminated, init, get, post, object, sender,
                 owns, hooks>>

-----------------------------------------------------------------------------
Initializing == InitRespond \/ InitCheck \/ InitStore \/ InitRegister
Getting(g) == Get(g) \/ GetRegister(g) \/ GetEnds(g) \/ GetUnregister(g)
Posting(p) == Post(p) \/ PostLookup(p) \/ TrySend(p) \/ PostRegister(p) \/ PostReturns(p)
Cleaning(c) ==
  Terminate(c) \/ CloseSessions(c) \/ CleanupUnregister(c) \/ CleanupDelete(c)

Next ==
  \/ Initializing
  \/ \E g \in Gets : Getting(g)
  \/ \E p \in Posts : Posting(p)
  \/ \E c \in Cleaners : Cleaning(c)

Spec == Init /\ [][Next]_vars
-----------------------------------------------------------------------------
TypeOK ==
  /\ sessions \in Objects \union {None} /\ activeSessions \in Objects \union {None}
  /\ closed \subseteq Objects /\ terminated \in BOOLEAN
  /\ init \in {"handling", "responded", "absent", "stored", "done"}
  /\ get \in [Gets -> {"none", "created", "listening", "sharing", "leaving", "over"}]
  /\ post \in [Posts -> {"none", "unregistered", "running", "over"}]
  /\ cleaner \in [Cleaners -> {"none", "terminated", "unregistered", "over"}]
  /\ object \in [Gets \union Posts -> Objects \union {None}]
  /\ sender \in [Posts -> {"none", "checked", "registered", "late"}]
  /\ owns \in [Posts -> BOOLEAN]
  /\ hooks \in Nat

\* The object is looked after: the GET that made it is not over, or a POST
\* that put it there will remove it, or never will (a goroutine that was late).
LookedAfter(o) ==
  \/ o \in Gets /\ get[o] # "over"
  \/ \E p \in Posts : owns[p] /\ object[p] = o /\ (post[p] # "over" \/ sender[p] = "late")

\* Nothing is left behind, however GETs, POSTs, initialize and clean-ups
\* remove one another's entries: the server broadcasts to no object of a GET
\* that is over, and routes no answer to one, or to one of a POST that has
\* returned; and OnRegisterSession and OnUnregisterSession are called in pairs.
LeavesNothing ==
  /\ hooks = IF sessions = None THEN 0 ELSE 1
  /\ sessions \notin Posts
  /\ ~EventStore =>
       /\ sessions \in Gets => get[sessions] \in {"listening", "leaving"}
       /\ activeSessions \in Gets \union Posts => LookedAfter(activeSessions)
=============================================================================
