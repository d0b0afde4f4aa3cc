------------------------------ MODULE Registry ------------------------------
(***************************************************************************)
(* What a client knows of a server's tools, resources, resource templates  *)
(* or prompts (server/server.go, server/session.go, client/client.go).     *)
(*                                                                         *)
(* The application adds and removes items at any time, for everyone or for *)
(* one session.  The client lists them page by page, and is sent a         *)
(* notification after a change, through a channel that drops what does not *)
(* fit.  A cursor is a position in the order of the items, not a snapshot, *)
(* and a page reads the items of everyone and those of the session one     *)
(* after the other.                                                        *)
(***************************************************************************)
EXTENDS Integers, Sequences, FiniteSets

CONSTANTS
  Kinds,         \* among "tools", "resources", "templates", "prompts"
  Items,         \* integers: the keys of the maps, in order
  NameOf,        \* the display name of a resource or template, which may repeat
  MaxVersion,    \* bound: the definitions an item may have
  Changers,      \* goroutines of the application, numbered
  PageLimit,     \* paginationLimit, or 0 if there is none
  ChannelCap,    \* capacity of the notification channel
  MaxChanges,    \* bound: changes of the registry
  MaxLogs        \* bound: other notifications

VARIABLES
  kind,          \* what is listed
  capability,    \* "none", "silent", or "listChanged"
  items,         \* s.tools, s.resources, s.resourceTemplates or s.prompts
  taskTools,     \* s.taskTools
  sessionItems,  \* the session's own
  changer,       \* what each goroutine of the application is doing
  notifications, \* the session's channel
  client,        \* the listing of the client
  view,          \* what the client's last listing returned
  (* history and bounds *)
  again,         \* the client was notified since it began its last listing
  dropped,       \* a change whose notification was dropped, none being queued
  stayed,        \* items there since the listing began, per map
  changes, logs

vars == <<kind, capability, items, taskTools, sessionItems, changer, notifications,
          client, view, again, dropped, stayed, changes, logs>>

Versions == 1..MaxVersion
Absent == [i \in Items |-> 0]
Present(map) == {i \in Items : map[i] # 0}
ClientIdle == [pc |-> "idle", cursor |-> 0, collected |-> <<>>, base |-> Absent]

Init ==
  /\ kind \in Kinds
  /\ capability \in {"none", "silent", "listChanged"}
  /\ items = Absent /\ taskTools = Absent /\ sessionItems = Absent
  /\ changer = [c \in Changers |-> [pc |-> "idle", copy |-> Absent]]
  /\ notifications = <<>> /\ client = ClientIdle /\ view = Absent
  /\ again = TRUE /\ dropped = FALSE
  /\ stayed = [all |-> {}, session |-> {}]
  /\ changes = 0 /\ logs = 0

-----------------------------------------------------------------------------
(* The maps of the server: AddTools, SetTools, DeleteTools and their like.  *)

Entered(map, batch, v) == [i \in Items |-> IF i \in batch THEN v ELSE map[i]]
Removed(map, batch) == Entered(map, batch, 0)

\* implicitlyRegisterCapabilities leaves a capability that is there alone.
Implicitly(default) == IF capability = "none" THEN default ELSE capability
DefaultOf == IF kind = "tools" THEN "listChanged" ELSE "silent"

\* Which of the idle goroutines makes the next change makes no difference.
IsNext(c) ==
  /\ changes < MaxChanges
  /\ changer[c].pc = "idle" /\ \A d \in Changers : d < c => changer[d].pc # "idle"

\* A change is made under the lock, and announced after it.
Change(c, map, tasks, announced) ==
  /\ changes' = changes + 1
  /\ items' = map /\ taskTools' = tasks
  /\ stayed' = [stayed EXCEPT !.all = @ \intersect (Present(map) \union Present(tasks))]
  /\ changer' = [changer EXCEPT ![c].pc = IF announced THEN "changed" ELSE "idle"]
  /\ UNCHANGED <<kind, sessionItems, notifications, client, view, again, dropped, logs>>

Add(c) ==
  /\ capability' = Implicitly(DefaultOf)
  /\ \E batch \in SUBSET Items \ {{}}, v \in Versions :
       Change(c, Entered(items, batch, v), taskTools, TRUE)

Set(c) ==
  /\ capability' = Implicitly(DefaultOf)
  /\ \E batch \in SUBSET Items, v \in Versions :
       Change(c, Entered(Absent, batch, v), taskTools, TRUE)

\* Nothing is announced when nothing was removed.
Delete(c) ==
  /\ \E batch \in SUBSET Items :
       Change(c, Removed(items, batch), taskTools, batch \intersect Present(items) # {})
  /\ UNCHANGED capability

\* A tool is a regular one or a task tool: a batch with one that is the other
\* panics before it changes anything.
AddTools(c) ==
  /\ kind = "tools" /\ Add(c)
  /\ Present(items') \intersect Present(taskTools) = {}

SetTools(c) ==
  /\ kind = "tools" /\ Set(c)
  /\ Present(items') \intersect Present(taskTools) = {}

AddTaskTools(c) ==
  /\ kind = "tools"
  /\ capability' = Implicitly("listChanged")
  /\ \E batch \in SUBSET Items \ {{}}, v \in Versions :
       /\ batch \intersect Present(items) = {}
       /\ Change(c, items, Entered(taskTools, batch, v), TRUE)

DeleteTools(c) == kind = "tools" /\ Delete(c)

AddResources(c) == kind = "resources" /\ Add(c)
SetResources(c) == kind = "resources" /\ Set(c)
DeleteResources(c) == kind = "resources" /\ Delete(c)

\* Templates cannot be deleted one by one.
AddResourceTemplates(c) == kind = "templates" /\ Add(c)
SetResourceTemplates(c) == kind = "templates" /\ Set(c)

AddPrompts(c) == kind = "prompts" /\ Add(c)
SetPrompts(c) == kind = "prompts" /\ Set(c)
DeletePrompts(c) == kind = "prompts" /\ Delete(c)

-----------------------------------------------------------------------------
(* The maps of the session: AddSessionTools, DeleteSessionTools, and the    *)
(* same of resources and templates.  There are no prompts of a session.     *)

\* The map is read, ...
ReadSessionItems(c, registers) ==
  /\ kind # "prompts" /\ IsNext(c)
  /\ changes' = changes + 1
  /\ capability' = IF registers THEN Implicitly("listChanged") ELSE capability
  /\ changer' = [changer EXCEPT ![c] = [pc |-> IF registers THEN "adding" ELSE "deleting",
                                        copy |-> sessionItems]]
  /\ UNCHANGED <<kind, items, taskTools, sessionItems, notifications, client, view,
                 again, dropped, stayed, logs>>

\* ... and the changed copy stored, over whatever was stored meanwhile.
StoreSessionItems(c, map) ==
  /\ sessionItems' = map
  /\ stayed' = [stayed EXCEPT !.session = @ \intersect Present(map)]
  /\ changer' = [changer EXCEPT ![c] = [pc |-> "changed", copy |-> Absent]]
  /\ UNCHANGED <<kind, capability, items, taskTools, notifications, client, view,
                 again, dropped, changes, logs>>

AddSessionItems(c) ==
  /\ changer[c].pc = "adding"
  /\ \E batch \in SUBSET Items \ {{}}, v \in Versions :
       StoreSessionItems(c, Entered(changer[c].copy, batch, v))

\* Tools are stored and announced even if none was removed.
DeleteSessionItems(c) ==
  /\ changer[c].pc = "deleting"
  /\ \E batch \in SUBSET Items \ {{}} :
       /\ kind # "tools" => batch \intersect Present(changer[c].copy) # {}
       /\ StoreSessionItems(c, Removed(changer[c].copy, batch))

\* Nothing to delete, or a definition that is not valid.
LeaveSessionItems(c) ==
  /\ changer[c].pc \in {"adding", "deleting"}
  /\ changer' = [changer EXCEPT ![c] = [pc |-> "idle", copy |-> Absent]]
  /\ UNCHANGED <<kind, capability, items, taskTools, sessionItems, notifications, client,
                 view, again, dropped, stayed, changes, logs>>

-----------------------------------------------------------------------------
(* Notifications: broadcastToSession, sendNotificationToSpecificClient.     *)

IsQueued == \E n \in 1..Len(notifications) : notifications[n] = "list_changed"

\* The channel is never waited for.
Offer(n) ==
  IF Len(notifications) < ChannelCap
    THEN notifications' = Append(notifications, n) /\ UNCHANGED dropped
    ELSE /\ dropped' = (dropped \/ (n = "list_changed" /\ ~IsQueued))
         /\ UNCHANGED notifications

Announce(c) ==
  /\ changer[c].pc = "changed"
  /\ changer' = [changer EXCEPT ![c].pc = "idle"]
  /\ IF capability = "listChanged" THEN Offer("list_changed")
                                   ELSE UNCHANGED <<notifications, dropped>>
  /\ UNCHANGED <<kind, capability, items, taskTools, sessionItems, client, view, again,
                 stayed, changes, logs>>

\* Log messages, progress and so on take up the channel too.
SendLogMessage ==
  /\ logs < MaxLogs /\ logs' = logs + 1
  /\ Offer("log")
  /\ UNCHANGED <<kind, capability, items, taskTools, sessionItems, changer, client, view,
                 again, stayed, changes>>

Receive ==
  /\ notifications # <<>>
  /\ notifications' = Tail(notifications)
  /\ again' = (again \/ Head(notifications) = "list_changed")
  /\ UNCHANGED <<kind, capability, items, taskTools, sessionItems, changer, client, view,
                 dropped, stayed, changes, logs>>

-----------------------------------------------------------------------------
(* A listing of the client: ListTools, which follows the cursors, and       *)
(* filteredTools with listByPagination for each page.                       *)

\* Tools, prompts and tasks have unique names: the key of their maps.
Name(i) == IF kind \in {"tools", "prompts"} THEN i ELSE NameOf[i]

\* comparePageKey: the name, then the key.
After(i, j) == Name(j) < Name(i) \/ (Name(j) = Name(i) /\ j < i)

Merged(base, own) == [i \in Items |-> IF own[i] # 0 THEN own[i] ELSE base[i]]
Base == Merged(taskTools, items)

List ==
  /\ client.pc = "idle" /\ again
  /\ client' = [ClientIdle EXCEPT !.pc = "listing"]
  /\ again' = FALSE
  /\ stayed' = [all |-> Present(Base), session |-> Present(sessionItems)]
  /\ UNCHANGED <<kind, capability, items, taskTools, sessionItems, changer,
                 notifications, view, dropped, changes, logs>>

\* Mutant: a cursor is a name only, as it once was.
RestOf_ByName(map, cursor) ==
  {i \in Present(map) : cursor # 0 => Name(cursor) < Name(i)}

\* The items after the cursor.
RestOf(map, cursor) == {i \in Present(map) : cursor # 0 => After(i, cursor)}

\* A page has the first of the rest, sorted, as many as the limit allows.
IsFull(page) == PageLimit > 0 /\ Len(page) = PageLimit
IsPage(page, rest) ==
  /\ \A m, n \in DOMAIN page : m < n => After(page[n], page[m])
  /\ \A i \in rest : \/ \E n \in DOMAIN page : page[n] = i
                    \/ (IsFull(page) /\ \A n \in DOMAIN page : After(i, page[n]))

\* The items of everyone are copied under the lock ...
ReadBase ==
  /\ client.pc = "listing"
  /\ client' = [client EXCEPT !.pc = "merging", !.base = Base]
  /\ UNCHANGED <<kind, capability, items, taskTools, sessionItems, changer,
                 notifications, view, again, dropped, stayed, changes, logs>>

\* ... and the session's merged in.  A full page has a cursor, even the last.
Page ==
  LET map == Merged(client.base, sessionItems)
      rest == RestOf(map, client.cursor)
  IN
  /\ client.pc = "merging"
  /\ \E size \in 0..Cardinality(rest) : \E page \in [1..size -> rest] :
       LET all == client.collected \o [n \in 1..size |-> <<page[n], map[page[n]]>>] IN
       /\ IsPage(page, rest) /\ (PageLimit > 0 => size <= PageLimit)
       /\ client' = IF IsFull(page)
                      THEN [client EXCEPT !.pc = "listing", !.base = Absent,
                                          !.cursor = page[size], !.collected = all]
                      ELSE [client EXCEPT !.pc = "listed", !.base = Absent, !.collected = all]
  /\ UNCHANGED <<kind, capability, items, taskTools, sessionItems, changer,
                 notifications, view, again, dropped, stayed, changes, logs>>

Listed ==
  /\ client.pc = "listed"
  /\ view' = [i \in Items |->
       IF \E n \in 1..Len(client.collected) : client.collected[n][1] = i
         THEN client.collected[CHOOSE n \in 1..Len(client.collected) :
                                 client.collected[n][1] = i][2]
         ELSE 0]
  /\ client' = ClientIdle
  /\ UNCHANGED <<kind, capability, items, taskTools, sessionItems, changer,
                 notifications, again, dropped, stayed, changes, logs>>

-----------------------------------------------------------------------------
Changing(c) ==
  /\ IsNext(c)
  /\ \/ AddTools(c) \/ SetTools(c) \/ AddTaskTools(c) \/ DeleteTools(c)
     \/ AddResources(c) \/ SetResources(c) \/ DeleteResources(c)
     \/ AddResourceTemplates(c) \/ SetResourceTemplates(c)
     \/ AddPrompts(c) \/ SetPrompts(c) \/ DeletePrompts(c)

ChangingSession(c) ==
  \/ \E registers \in BOOLEAN : ReadSessionItems(c, registers)
  \/ AddSessionItems(c) \/ DeleteSessionItems(c) \/ LeaveSessionItems(c)

Listing == List \/ ReadBase \/ Page \/ Listed

Next ==
  \/ \E c \in Changers : Changing(c) \/ ChangingSession(c) \/ Announce(c)
  \/ SendLogMessage \/ Receive \/ Listing

Spec == Init /\ [][Next]_vars
-----------------------------------------------------------------------------
Maps == [Items -> 0..MaxVersion]

TypeOK ==
  /\ kind \in Kinds /\ capability \in {"none", "silent", "listChanged"}
  /\ items \in Maps /\ taskTools \in Maps /\ sessionItems \in Maps /\ view \in Maps
  /\ Present(items) \intersect Present(taskTools) = {}
  /\ changer \in [Changers -> [pc : {"idle", "adding", "deleting", "changed"}, copy : Maps]]
  /\ notifications \in Seq({"list_changed", "log"}) /\ Len(notifications) <= ChannelCap
  /\ client.pc \in {"idle", "listing", "merging", "listed"}
  /\ client.cursor \in Items \union {0} /\ client.base \in Maps
  /\ client.collected \in Seq(Items \X Versions)
  /\ again \in BOOLEAN /\ dropped \in BOOLEAN
  /\ stayed \in [all : SUBSET Items, session : SUBSET Items]
  /\ changes \in 0..MaxChanges /\ logs \in 0..MaxLogs

Quiet ==
  /\ \A c \in Changers : changer[c].pc # "changed"
  /\ ~IsQueued /\ ~again /\ client.pc = "idle"

\* However the pages of a listing interleave with the changes, it returns each
\* item that was there all along, and none twice; and a client that lists
\* again when it is notified knows every item, in its last definition, once
\* there is nothing left to do, unless its channel was full of other things.
ClientSeesTheRegistry ==
  /\ client.pc = "listed" =>
       LET listed == client.collected IN
       /\ \A n \in 1..Len(listed), m \in 1..Len(listed) :
            n < m => After(listed[m][1], listed[n][1])
       /\ stayed.all \union stayed.session
            \subseteq {listed[n][1] : n \in 1..Len(listed)}
  /\ Quiet /\ ~dropped /\ capability = "listChanged" =>
       view = Merged(Base, sessionItems)
=============================================================================
