------------------------------- MODULE Calls --------------------------------
(***************************************************************************)
(* How the server serves a request (server/request_handler.go, hooks.go,   *)
(* and the handlers of server/server.go): the checks before a handler, the *)
(* search for the tool, resource or prompt it names, the filters, the      *)
(* handler, and the hooks around it.                                       *)
(*                                                                         *)
(* One client lists and then calls one name, while the application changes *)
(* what the name stands for.  The server has several places to look a name *)
(* up in, here layers, and does not look at them all at once: other        *)
(* changes come between the looks.                                         *)
(***************************************************************************)
EXTENDS Integers, Sequences, FiniteSets

CONSTANTS
  Items,         \* [support : {"none", "optional", "required"}, visible : BOOLEAN]:
                 \* how they run, and whether the filters let them pass
  MaxCalls,      \* bound: requests of the client
  MaxMoves       \* bound: changes of the layers

VARIABLES
  family,        \* "tools", "resources", "prompts", or "others"
  layers,        \* what the name stands for: at most one item in each layer
  options,       \* of the server
  caller,        \* the client's session, as far as requests change it
  message,       \* the request being served
  listed,        \* what the client was last shown, and whether it is still so
  served, moves  \* bounds

vars == <<family, layers, options, caller, message, listed, served, moves>>

LayerNames == {"session", "regular", "task", "sessionTemplate", "template"}
Private == {"session", "sessionTemplate"}
LayersOf == [tools |-> {"session", "regular", "task"},
             resources |-> LayerNames \ {"task"},
             prompts |-> {"regular"}, others |-> {}]

\* What a family has of an item: only tools run as tasks, and resources have
\* no filters.
ItemsOf(f) == {item \in Items : (f # "tools" => item.support = "none")
                                /\ (f = "resources" => item.visible)}

MethodsOf == [
  tools |-> {"tools/list", "tools/call"},
  resources |-> {"resources/list", "resources/templates/list", "resources/read"},
  prompts |-> {"prompts/list", "prompts/get"},
  others |-> {"initialize", "ping", "server/discover", "subscriptions/listen",
              "logging/setLevel", "resources/subscribe", "resources/unsubscribe",
              "tasks/get", "tasks/list", "tasks/result", "tasks/cancel",
              "completion/complete"}]
Capabilities == {"tools", "resources", "subscribe", "prompts", "logging", "tasks",
                 "completions"}
\* subscribe is a field of the capability resources.
OptionSets == [capabilities : {{}, {"resources"}, Capabilities},
               recovery : {{}, {"tools", "resources"}}]

NoMessage == [pc |-> "idle", method |-> "none", modern |-> FALSE, task |-> FALSE,
              looks |-> 0, found |-> {}, hooks |-> <<>>, outcome |-> "none",
              ran |-> {}, during |-> {}, moved |-> FALSE]

Init ==
  /\ family \in {"tools", "resources", "prompts", "others"}
  /\ options \in OptionSets
  /\ family # "others" => options.capabilities # {"resources"}
  /\ layers \in {l \in [LayersOf[family] -> {{}} \union {{item} : item \in ItemsOf(family)}] :
                   family = "tools" => l["regular"] = {} \/ l["task"] = {}}
  /\ caller \in [session : {"none", "plain", "full"}, initialized : BOOLEAN,
                 level : {FALSE}, subscribed : {FALSE}]
  /\ caller.session = "none" => ~caller.initialized
  /\ family # "others" => caller.session = "full" /\ caller.initialized
  /\ message = NoMessage
  /\ listed = [items |-> {}, current |-> FALSE]
  /\ served = 0 /\ moves = 0

-----------------------------------------------------------------------------
(* The application.                                                         *)

Entries(ls) == {[layer |-> l, item |-> item] : l \in ls, item \in Items}
There(map) == {e \in Entries(DOMAIN map) : e.item \in map[e.layer]}

\* handleReadResource holds resourcesMu while it searches.
Locked(layer) == message.pc = "looking" /\ family = "resources" /\ layer \notin Private

\* Adding registers the capability.  A name is a regular tool or a task tool.
Change(layer, items) ==
  /\ moves < MaxMoves /\ moves' = moves + 1
  /\ layers[layer] # items /\ ~Locked(layer)
  /\ layer = "regular" /\ family = "tools" /\ items # {} => layers["task"] = {}
  /\ layer = "task" /\ items # {} => layers["regular"] = {}
  /\ layers' = [layers EXCEPT ![layer] = items]
  /\ options' = IF items = {} \/ layer \in Private THEN options
                ELSE [options EXCEPT !.capabilities = @ \union {family}]
  /\ message' = [message EXCEPT !.moved = TRUE, !.during = @ \union There(layers')]
  /\ listed' = [listed EXCEPT !.current = FALSE]
  /\ UNCHANGED <<family, caller, served>>

-----------------------------------------------------------------------------
(* HandleMessage.                                                           *)

Receive(method, modern, task) ==
  /\ message.pc \in {"idle", "answered"} /\ served < MaxCalls
  /\ served' = served + 1
  /\ message' = [NoMessage EXCEPT !.pc = "received", !.method = method,
                                  !.modern = modern, !.task = task,
                                  !.during = There(layers)]
  /\ UNCHANGED <<family, layers, options, caller, listed, moves>>

\* hooks.beforeX of the method X calls OnBeforeAny, then the method's own hooks;
\* hooks.afterX calls OnSuccess first; hooks.onError has none of a method's own.
BeforeHooks == <<"before">>
AfterHooks == <<"success">>
ErrorHooks == <<"error">>

Answer(outcome, hooks) ==
  /\ message' = [message EXCEPT !.pc = "answered", !.outcome = outcome,
                                !.hooks = @ \o hooks]
  /\ UNCHANGED <<family, layers, options, listed, served, moves>>

\* What is not JSON-RPC, refused by OnRequestInitialization, of a version the
\* server does not have, or contradicted by its headers; and methods it does
\* not know.
Reject ==
  /\ message.pc = "received"
  /\ Answer("rejected", <<>>) /\ UNCHANGED caller

\* A modern request stands in for the handshake.
Accept ==
  /\ message.pc = "received"
  /\ message' = [message EXCEPT !.pc = "accepted"]
  /\ caller' = IF message.modern /\ caller.session # "none"
                 THEN [caller EXCEPT !.initialized = TRUE] ELSE caller
  /\ UNCHANGED <<family, layers, options, listed, served, moves>>

Era == IF message.modern THEN "modern" ELSE "legacy"

\* A method of its own era, of an enabled capability, and well-formed, goes to
\* its handler; the hooks are told of an error in any other case.
Dispatch(method, eras, capabilities) ==
  /\ message.pc = "accepted" /\ message.method = method
  /\ IF Era \in eras /\ capabilities \subseteq options.capabilities
       THEN \/ Answer("unparsable", ErrorHooks)
            \/ /\ message' = [message EXCEPT !.pc = "entered", !.hooks = BeforeHooks]
               /\ UNCHANGED <<family, layers, options, listed, served, moves>>
       ELSE Answer("unavailable", ErrorHooks)
  /\ UNCHANGED caller

Eras == {"legacy", "modern"}
DispatchInitialize == Dispatch("initialize", {"legacy"}, {})
DispatchPing == Dispatch("ping", {"legacy"}, {})
DispatchDiscover == Dispatch("server/discover", {"modern"}, {})
DispatchSubscriptionsListen == Dispatch("subscriptions/listen", {"modern"}, {})
DispatchSetLevel == Dispatch("logging/setLevel", {"legacy"}, {"logging"})
DispatchListResources == Dispatch("resources/list", Eras, {"resources"})
DispatchListResourceTemplates == Dispatch("resources/templates/list", Eras, {"resources"})
DispatchReadResource == Dispatch("resources/read", Eras, {"resources"})
DispatchSubscribe == Dispatch("resources/subscribe", {"legacy"}, {"resources"})
DispatchUnsubscribe == Dispatch("resources/unsubscribe", {"legacy"}, {"resources"})
DispatchListPrompts == Dispatch("prompts/list", Eras, {"prompts"})
DispatchGetPrompt == Dispatch("prompts/get", Eras, {"prompts"})
DispatchListTools == Dispatch("tools/list", Eras, {"tools"})
DispatchCallTool == Dispatch("tools/call", Eras, {"tools"})
DispatchGetTask == Dispatch("tasks/get", Eras, {"tasks"})
DispatchListTasks == Dispatch("tasks/list", {"legacy"}, {"tasks"})
DispatchTaskResult == Dispatch("tasks/result", {"legacy"}, {"tasks"})
DispatchCancelTask == Dispatch("tasks/cancel", Eras, {"tasks"})
DispatchComplete == Dispatch("completion/complete", Eras, {"completions"})

DispatchAny ==
  \/ DispatchInitialize \/ DispatchPing \/ DispatchDiscover \/ DispatchSubscriptionsListen
  \/ DispatchSetLevel \/ DispatchListResources \/ DispatchListResourceTemplates
  \/ DispatchReadResource \/ DispatchSubscribe \/ DispatchUnsubscribe \/ DispatchListPrompts
  \/ DispatchGetPrompt \/ DispatchListTools \/ DispatchCallTool \/ DispatchGetTask
  \/ DispatchListTasks \/ DispatchTaskResult \/ DispatchCancelTask \/ DispatchComplete

-----------------------------------------------------------------------------
(* The handlers of one step.                                                *)

Return(outcome) ==
  /\ message.pc \notin {"answered", "panicked"}
  /\ Answer(outcome, IF outcome \in {"result", "toolError", "task"} THEN AfterHooks
                                                                   ELSE ErrorHooks)

At(pc, method) == message.pc = pc /\ message.method = method

\* The level goes to the session, which must be initialized and keep one.
HandleSetLevel(valid) ==
  /\ At("entered", "logging/setLevel")
  /\ IF caller.initialized /\ caller.session = "full" /\ valid
       THEN Return("result") /\ caller' = [caller EXCEPT !.level = TRUE]
       ELSE Return("failed") /\ UNCHANGED caller

\* SubscribeToResourceErr may refuse.
HandleSubscribe(valid) ==
  /\ At("entered", "resources/subscribe")
  /\ IF "subscribe" \in options.capabilities /\ valid
       THEN \/ /\ Return("result")
               /\ caller' = [caller EXCEPT !.subscribed = (@ \/ caller.session = "full")]
            \/ caller.session = "full" /\ Return("failed") /\ UNCHANGED caller
       ELSE Return("failed") /\ UNCHANGED caller

HandleUnsubscribe(valid) ==
  /\ At("entered", "resources/unsubscribe")
  /\ IF "subscribe" \in options.capabilities /\ valid
       THEN Return("result") /\ caller' = [caller EXCEPT !.subscribed = FALSE]
       ELSE Return("failed") /\ UNCHANGED caller

\* The provider answers, or fails, or the reference is of no known type.
HandleComplete ==
  /\ At("entered", "completion/complete")
  /\ (Return("result") \/ Return("failed")) /\ UNCHANGED caller

HandlePing == At("entered", "ping") /\ Return("result") /\ UNCHANGED caller

\* What is modelled elsewhere: the handshake, discovery, tasks, subscriptions.
HandleOthers ==
  /\ message.pc = "entered"
  /\ message.method \in {"server/discover", "subscriptions/listen", "tasks/get",
                         "tasks/list", "tasks/result", "tasks/cancel"}
  /\ (Return("result") \/ Return("failed")) /\ UNCHANGED caller

HandleInitialize ==
  /\ At("entered", "initialize") /\ Return("result")
  /\ caller' = IF caller.session = "none" THEN caller
               ELSE [caller EXCEPT !.initialized = TRUE]

-----------------------------------------------------------------------------
(* Lists and calls.  Both look at several layers, one after the other.      *)

Looks == [
  tools |-> <<{"session"}, {"regular", "task"}>>,
  resources |-> <<{"session"}, {"regular"}, {"sessionTemplate"}, {"template"}>>,
  prompts |-> <<{"regular"}>>, others |-> <<>>]

\* Everyone's items first, then those of the session, which override them.
ListLooks(method) ==
  CASE method = "tools/list" -> <<{"regular", "task"}, {"session"}>>
    [] method = "resources/list" -> <<{"regular"}, {"session"}>>
    [] method = "resources/templates/list" -> <<{"template"}, {"sessionTemplate"}>>
    [] OTHER -> <<{"regular"}>>

Lists == {"tools/list", "resources/list", "resources/templates/list", "prompts/list"}

Begin ==
  /\ message.pc = "entered" /\ family # "others"
  /\ message' = [message EXCEPT !.pc = IF message.method \in Lists THEN "listing"
                                                                  ELSE "looking"]
  /\ UNCHANGED <<family, layers, options, caller, listed, served, moves>>

In(ls) == {e \in There(layers) : e.layer \in ls}

ListLook(method) ==
  LET looks == ListLooks(message.method)
      seen == In(looks[message.looks + 1])
  IN
  /\ At("listing", method) /\ message.looks < Len(looks)
  /\ message' = [message EXCEPT !.looks = @ + 1, !.found = IF seen = {} THEN @ ELSE seen]
  /\ UNCHANGED <<family, layers, options, caller, listed, served, moves>>

ListTools == ListLook("tools/list")
ListResources == ListLook("resources/list")
ListResourceTemplates == ListLook("resources/templates/list")
ListPrompts == ListLook("prompts/list")

Passes(e) == e.item.visible

\* The page, of what passes the filters; or the cursor is not one.
ListPage ==
  /\ message.pc = "listing" /\ message.looks = Len(ListLooks(message.method))
  /\ \/ /\ listed' = [items |-> {e \in message.found : Passes(e)}, current |-> ~message.moved]
        /\ message' = [message EXCEPT !.pc = "answered", !.outcome = "result",
                                      !.hooks = @ \o AfterHooks]
        /\ UNCHANGED <<family, layers, options, caller, served, moves>>
     \/ Return("failed") /\ UNCHANGED caller

\* The search ends at the first layer that has the name.
Look(method) ==
  /\ At("looking", method)
  /\ message.found = {} /\ message.looks < Len(Looks[family])
  /\ message' = [message EXCEPT !.looks = @ + 1, !.found = In(Looks[family][message.looks + 1])]
  /\ UNCHANGED <<family, layers, options, caller, listed, served, moves>>

LookForTool == Look("tools/call")
LookForResource == Look("resources/read")
LookForPrompt == Look("prompts/get")

NotThere ==
  /\ message.pc = "looking" /\ message.found = {} /\ message.looks = Len(Looks[family])
  /\ Return("notFound") /\ UNCHANGED caller

Found(e) == message.pc = "looking" /\ e \in message.found

\* passesToolFilters, passesPromptFilters
FilteredOut ==
  /\ \E e \in message.found : Found(e) /\ ~Passes(e)
  /\ Return("notFound") /\ UNCHANGED caller

\* shouldExecuteAsTask: the call asks for a task, and the tool can be one.
TaskWanted(e) == message.task /\ e.item.support \in {"optional", "required"}

\* A tool that must run as a task does not run otherwise, nor does a task tool.
CannotRun ==
  /\ \E e \in message.found :
       /\ Found(e) /\ Passes(e) /\ ~TaskWanted(e)
       /\ e.item.support = "required" \/ e.layer = "task"
  /\ Return("refused") /\ UNCHANGED caller

Proceed ==
  /\ \E e \in message.found :
       /\ Found(e) /\ Passes(e)
       /\ \/ TaskWanted(e) /\ message' = [message EXCEPT !.pc = "again", !.looks = 0,
                                                         !.found = {}]
          \/ /\ ~TaskWanted(e) /\ e.item.support # "required" /\ e.layer # "task"
             /\ message' = [message EXCEPT !.pc = "running", !.ran = {e}]
  /\ UNCHANGED <<family, layers, options, caller, listed, served, moves>>

\* Mutant: the server's tools take precedence.
LookAgain_ServerFirst ==
  /\ message.pc = "again" /\ message.looks < 2
  /\ LET own == In({"session"}) IN
     message' = [message EXCEPT !.looks = @ + 1,
       !.found = IF message.looks = 0 THEN In({"regular", "task"})
                 ELSE IF @ # {} THEN @ ELSE own]
  /\ UNCHANGED <<family, layers, options, caller, listed, served, moves>>

\* handleTaskAugmentedToolCall looks the tool up once more: the server's first,
\* then the session's own, which takes precedence.
LookAgain ==
  /\ message.pc = "again" /\ message.looks < 2
  /\ LET own == In({"session"}) IN
     message' = [message EXCEPT !.looks = @ + 1,
       !.found = IF message.looks = 0 THEN In({"regular", "task"})
                 ELSE IF own = {} THEN @ ELSE own]
  /\ UNCHANGED <<family, layers, options, caller, listed, served, moves>>

\* What it finds now has to support tasks, unless it is a task tool; the
\* filters are not asked again.  The limit of tasks may refuse it.
StartTask ==
  /\ message.pc = "again" /\ message.looks = 2
  /\ IF \E e \in message.found : e.layer = "task" \/ e.item.support # "none"
       THEN \/ /\ message' = [message EXCEPT !.pc = "answered", !.outcome = "task",
                                !.ran = message.found, !.hooks = @ \o AfterHooks]
               /\ UNCHANGED <<family, layers, options, listed, served, moves>>
            \/ Return("failed")
       ELSE Return(IF message.found = {} THEN "notFound" ELSE "refused")
  /\ UNCHANGED caller

\* The arguments do not fit the schema.
InvalidArguments ==
  /\ At("running", "tools/call")
  /\ message' = [message EXCEPT !.pc = "answered", !.outcome = "toolError", !.ran = {},
                                !.hooks = @ \o AfterHooks]
  /\ UNCHANGED <<family, layers, options, caller, listed, served, moves>>

HandlerReturns(method, outcome) ==
  /\ At("running", method)
  /\ Return(outcome) /\ UNCHANGED caller

\* A result or an error, or neither, which is an error, for tools and prompts
\* after the rounds of a request for input.  A tool's result that does not fit
\* its schema, or is too long, becomes a tool error.
ToolReturns == \E outcome \in {"result", "toolError", "failed"} :
  HandlerReturns("tools/call", outcome)
ResourceReturns == \E outcome \in {"result", "failed"} :
  HandlerReturns("resources/read", outcome)
PromptReturns == \E outcome \in {"result", "failed"} :
  HandlerReturns("prompts/get", outcome)

\* There is no recovery for prompts.
HandlerPanics ==
  /\ message.pc = "running"
  /\ IF family \in options.recovery THEN Return("failed")
     ELSE /\ message' = [message EXCEPT !.pc = "panicked"]
          /\ UNCHANGED <<family, layers, options, listed, served, moves>>
  /\ UNCHANGED caller

-----------------------------------------------------------------------------
Next ==
  \/ \E layer \in LayersOf[family] :
       \E items \in {{}} \union {{item} : item \in ItemsOf(family)} : Change(layer, items)
  \/ \E method \in MethodsOf[family], modern \in BOOLEAN, task \in BOOLEAN :
       (task => method = "tools/call") /\ Receive(method, modern, task)
  \/ Reject \/ Accept \/ DispatchAny
  \/ (\E valid \in BOOLEAN : HandleSetLevel(valid) \/ HandleSubscribe(valid)
                             \/ HandleUnsubscribe(valid))
  \/ HandleComplete \/ HandlePing \/ HandleOthers \/ HandleInitialize
  \/ Begin \/ ListTools \/ ListResources \/ ListResourceTemplates \/ ListPrompts \/ ListPage
  \/ LookForTool \/ LookForResource \/ LookForPrompt
  \/ NotThere \/ FilteredOut \/ CannotRun \/ Proceed \/ LookAgain \/ StartTask
  \/ InvalidArguments \/ ToolReturns \/ ResourceReturns \/ PromptReturns \/ HandlerPanics

Spec == Init /\ [][Next]_vars
-----------------------------------------------------------------------------
TypeOK ==
  /\ options \in OptionSets \/ options.capabilities \subseteq Capabilities
  /\ layers \in [LayersOf[family] -> SUBSET Items]
  /\ \A l \in LayersOf[family] : Cardinality(layers[l]) <= 1
  /\ caller \in [session : {"none", "plain", "full"}, initialized : BOOLEAN,
                 level : BOOLEAN, subscribed : BOOLEAN]
  /\ message.found \subseteq Entries(LayerNames) /\ message.ran \subseteq message.during
  /\ listed.items \subseteq Entries(LayerNames)

\* The hooks come in pairs (hooks.go): a request that reached its handler and
\* is answered had one OnBeforeAny, and then one OnSuccess or OnError, as the
\* answer is; one refused for its era, its capability or its form has OnError.
HooksPaired ==
  /\ message.pc = "answered" =>
       CASE message.outcome = "rejected" -> message.hooks = <<>>
         [] message.outcome \in {"unparsable", "unavailable"} -> message.hooks = <<"error">>
         [] message.outcome \in {"result", "toolError", "task"} ->
              message.hooks = <<"before", "success">>
         [] OTHER -> message.hooks = <<"before", "error">>
  /\ message.pc = "panicked" => message.hooks = <<"before">> /\ family \notin options.recovery

\* What the name stands for: the first layer that has it.
Effective ==
  LET order == Looks[family]
      with == {i \in DOMAIN order : In(order[i]) # {}}
  IN IF with = {} THEN {} ELSE In(order[CHOOSE i \in with : \A j \in with : i <= j])

IsCall == message.method \in {"tools/call", "resources/read", "prompts/get"}

\* A call that runs something runs what was there while it was served, and not
\* what the filters hide, unless it ran as a task, for which the tool is looked
\* up once more.  If nothing changed meanwhile, it runs what the name stands
\* for, or is refused as that calls for; and the list and the call agree: what
\* is not on it is not found, and what is on it is (filteredTools and
\* passesToolFilters, handleToolCall and handleTaskAugmentedToolCall).
CallsAsListed ==
  message.pc = "answered" /\ IsCall =>
    /\ message.ran \subseteq message.during
    /\ \A e \in message.ran : message.outcome # "task" \/ ~message.moved => Passes(e)
    /\ \A e \in message.ran :
         IF message.outcome = "task" THEN e.layer = "task" \/ TaskWanted(e)
                                     ELSE e.layer # "task" /\ e.item.support # "required"
    /\ ~message.moved =>
         /\ message.ran \subseteq Effective
         /\ message.outcome = "notFound" <=>
              message.hooks # <<>> /\ Head(message.hooks) = "before"
              /\ \A e \in Effective : ~Passes(e)
    /\ listed.current /\ family # "resources" =>
         IF listed.items = {} THEN message.ran = {}
                              ELSE message.outcome # "notFound" /\ message.ran \subseteq listed.items

Served == HooksPaired /\ CallsAsListed
=============================================================================
