--------------------------- MODULE PartsTheorems ----------------------------
(***************************************************************************)
(* The invariants of the run over the small components (MCParts), as       *)
(* theorems of that specification: what PartsProofs proves of a component  *)
(* with variables of its own holds of it in the slots, since a behavior of *)
(* MCParts whose `part' is the component is a behavior of the component.   *)
(***************************************************************************)
EXTENDS MCParts, SequenceTheorems, FiniteSetTheorems, WellFoundedInduction, TLAPS

-----------------------------------------------------------------------------
(* Calls, Subscriptions, Arguments and Content are proved in the slots     *)
(* themselves: an instance between would only double their many operators. *)
(* Of Calls, slot1 is the family of the request, slot2 what its name       *)
(* stands for, slot3 the request being served, slot4 its sender, slot5 the *)
(* server's options, slot6 what the client was shown; slot7 and slot8      *)
(* count.                                                                  *)
CallItem == CL!Entries(CL!LayerNames)
HookRuns == {<<>>, <<"before">>, <<"error">>, <<"before", "success">>, <<"before", "error">>}
CallMethods == CL!MethodsOf["tools"] \union CL!MethodsOf["resources"]
                 \union CL!MethodsOf["prompts"] \union CL!MethodsOf["others"]
ReturnedOutcomes == {"result", "toolError", "task", "failed", "notFound", "refused"}
InHandler == {"entered", "listing", "looking", "again", "running"}

Messages ==
  [pc : {"idle", "received", "accepted", "panicked", "answered"} \union InHandler,
   method : CallMethods \union {"none"}, modern : BOOLEAN, task : BOOLEAN, looks : Nat,
   found : SUBSET CallItem, hooks : HookRuns,
   outcome : {"none", "rejected", "unparsable", "unavailable"} \union ReturnedOutcomes,
   ran : SUBSET CallItem, during : SUBSET CallItem, moved : BOOLEAN]
CallerSessions ==
  [session : {"none", "plain", "full"}, initialized : BOOLEAN, level : BOOLEAN,
   subscribed : BOOLEAN]

CallsTypes ==
  /\ slot1 \in {"tools", "resources", "prompts", "others"}
  /\ slot5 \in [capabilities : SUBSET CL!Capabilities, recovery : SUBSET {"tools", "resources"}]
  /\ slot2 \in [CL!LayersOf[slot1] -> {{}} \union {{item} : item \in CallItems}]
  /\ slot1 = "tools" => slot2["regular"] = {} \/ slot2["task"] = {}
  /\ slot4 \in CallerSessions
  /\ slot3 \in Messages
  /\ slot3.pc # "idle" => slot3.method \in CL!MethodsOf[slot1]
  /\ slot6 \in [items : SUBSET CallItem, current : BOOLEAN]

HooksInv ==
  /\ slot3.pc \in {"idle", "received", "accepted"} => slot3.hooks = <<>>
  /\ slot3.pc \in InHandler => slot3.hooks = <<"before">>
  /\ CL!HooksPaired

\* What is found, or has run, was there; and it is one item.
FoundInv ==
  /\ slot3.pc # "idle" => CL!There(slot2) \subseteq slot3.during
  /\ slot3.found \subseteq slot3.during /\ slot3.ran \subseteq slot3.during
  /\ \A e \in slot3.found, f \in slot3.found : e = f
  /\ slot3.pc = "looking" =>
       slot3.looks <= Len(CL!Looks[slot1]) /\ CL!IsCall
  /\ slot3.pc \in {"received", "accepted", "entered"} =>
       slot3.looks = 0 /\ slot3.found = {}
  /\ slot3.task => slot3.method = "tools/call"
  /\ slot3.pc = "listing" => slot3.method \in CL!Lists
  /\ slot3.pc \in {"again", "running"} => CL!IsCall
  /\ slot3.pc = "again" => slot3.task /\ slot1 = "tools"

\* As long as nothing has changed, it is what the name stands for.
UnmovedInv ==
  ~slot3.moved =>
    /\ slot3.pc = "looking" =>
         /\ \A j \in DOMAIN CL!Looks[slot1] :
              j < slot3.looks => CL!In(CL!Looks[slot1][j]) = {}
         /\ slot3.found = IF slot3.looks = 0 THEN {}
                            ELSE CL!In(CL!Looks[slot1][slot3.looks])
    /\ slot3.pc = "listing" /\ slot1 = "tools" =>
         /\ slot3.looks = 0 => slot3.found = {}
         /\ slot3.looks = 1 => slot3.found = CL!In({"regular", "task"})
         /\ slot3.looks = 2 => slot3.found = CL!Effective
    /\ slot3.pc = "listing" /\ slot1 = "prompts" =>
         /\ slot3.looks = 0 => slot3.found = {}
         /\ slot3.looks = 1 => slot3.found = CL!Effective
    /\ slot3.pc = "again" =>
         /\ slot3.looks = 1 => slot3.found = CL!In({"regular", "task"})
         /\ slot3.looks = 2 => slot3.found = CL!Effective
         /\ \E e \in CL!Effective : CL!Passes(e)
    /\ slot3.pc = "running" =>
         slot3.ran \subseteq CL!Effective /\ \E e \in CL!Effective : CL!Passes(e)

RanInv ==
  /\ slot3.pc \notin {"running", "answered", "panicked"} => slot3.ran = {}
  /\ slot3.pc = "running" =>
       \A e \in slot3.ran :
         CL!Passes(e) /\ e.layer # "task" /\ e.item.support # "required"

\* An answer, but for what was listed.
AnswerInv ==
  slot3.pc = "answered" /\ CL!IsCall =>
    /\ \A e \in slot3.ran : slot3.outcome # "task" \/ ~slot3.moved => CL!Passes(e)
    /\ \A e \in slot3.ran :
         IF slot3.outcome = "task" THEN e.layer = "task" \/ CL!TaskWanted(e)
                                     ELSE e.layer # "task" /\ e.item.support # "required"
    /\ ~slot3.moved =>
         /\ slot3.ran \subseteq CL!Effective
         /\ slot3.outcome = "notFound" <=>
              /\ slot3.hooks # <<>> /\ Head(slot3.hooks) = "before"
              /\ \A e \in CL!Effective : ~CL!Passes(e)

\* What was listed and is still so is what a call would find.
ListedInv ==
  slot6.current =>
    /\ ~slot3.moved
    /\ slot1 \in {"tools", "prompts"} => slot6.items = {e \in CL!Effective : CL!Passes(e)}

CallsInv ==
  CallsTypes /\ HooksInv /\ FoundInv /\ UnmovedInv /\ RanInv /\ AnswerInv /\ ListedInv

-----------------------------------------------------------------------------
\* The first layer that has the name.
LEMMA EffectiveIs ==
  ASSUME NEW i \in DOMAIN CL!Looks[slot1], DOMAIN CL!Looks[slot1] \subseteq Nat,
         CL!In(CL!Looks[slot1][i]) # {},
         \A j \in DOMAIN CL!Looks[slot1] : j < i => CL!In(CL!Looks[slot1][j]) = {}
  PROVE  CL!Effective = CL!In(CL!Looks[slot1][i])
  <1> DEFINE order == CL!Looks[slot1]
             with == {k \in DOMAIN order : CL!In(order[k]) # {}}
             c == CHOOSE k \in with : \A j \in with : k <= j
  <1>1. i \in with /\ \A j \in with : i <= j
    OBVIOUS
  <1>2. c \in with /\ \A j \in with : c <= j
    BY <1>1
  <1>3. c = i
    BY <1>1, <1>2
  <1>4. CL!Effective = IF with = {} THEN {} ELSE CL!In(order[c])
    BY DEF CL!Effective
  <1> QED BY <1>1, <1>3, <1>4

LEMMA EffectiveNone ==
  ASSUME \A j \in DOMAIN CL!Looks[slot1] : CL!In(CL!Looks[slot1][j]) = {}
  PROVE  CL!Effective = {}
  BY DEF CL!Effective

LEMMA LooksAre ==
  /\ CL!Looks["tools"] = <<{"session"}, {"regular", "task"}>>
  /\ CL!Looks["resources"] = <<{"session"}, {"regular"}, {"sessionTemplate"}, {"template"}>>
  /\ CL!Looks["prompts"] = <<{"regular"}>>
  /\ CL!Looks["others"] = <<>>
  BY DEF CL!Looks

LEMMA LooksCount ==
  ASSUME slot1 \in {"tools", "resources", "prompts", "others"}
  PROVE  /\ DOMAIN CL!Looks[slot1] = 1..Len(CL!Looks[slot1])
         /\ Len(CL!Looks[slot1]) \in Nat
  BY LooksAre

LEMMA EffectiveTool ==
  ASSUME slot1 = "tools"
  PROVE  CL!Effective = IF CL!In({"session"}) = {} THEN CL!In({"regular", "task"})
                                                  ELSE CL!In({"session"})
  <1>1. /\ DOMAIN CL!Looks[slot1] = 1..2 /\ CL!Looks[slot1][1] = {"session"}
        /\ CL!Looks[slot1][2] = {"regular", "task"}
    BY LooksAre
  <1>2. CASE CL!In({"session"}) # {}
    BY <1>1, <1>2, EffectiveIs
  <1>3. CASE CL!In({"session"}) = {} /\ CL!In({"regular", "task"}) # {}
    <2>1. \A j \in DOMAIN CL!Looks[slot1] : j < 2 => j = 1
      BY <1>1
    <2> QED BY <1>1, <1>3, <2>1, EffectiveIs
  <1>4. CASE CL!In({"session"}) = {} /\ CL!In({"regular", "task"}) = {}
    <2>1. \A j \in DOMAIN CL!Looks[slot1] : j = 1 \/ j = 2
      BY <1>1
    <2> QED BY <1>1, <1>4, <2>1, EffectiveNone
  <1> QED BY <1>2, <1>3, <1>4

LEMMA EffectivePrompt ==
  ASSUME slot1 = "prompts"
  PROVE  CL!Effective = CL!In({"regular"})
  <1>1. DOMAIN CL!Looks[slot1] = 1..1 /\ CL!Looks[slot1][1] = {"regular"}
    BY LooksAre
  <1>2. CASE CL!In({"regular"}) # {}
    BY <1>1, <1>2, EffectiveIs
  <1>3. CASE CL!In({"regular"}) = {}
    <2>1. \A j \in DOMAIN CL!Looks[slot1] : j = 1
      BY <1>1
    <2> QED BY <1>1, <1>3, <2>1, EffectiveNone
  <1> QED BY <1>2, <1>3

\* What stands in a layer is one item.
LookAt == {{"session"}, {"regular", "task"}, {"regular"}, {"task"}, {"template"},
           {"sessionTemplate"}}
LEMMA OneFound ==
  ASSUME CallsTypes, NEW ls \in LookAt
  PROVE  /\ CL!In(ls) \subseteq CL!There(slot2)
         /\ CL!In(ls) \subseteq CallItem
         /\ \A e \in CL!In(ls), f \in CL!In(ls) : e = f
  <1>1. CL!In(ls) \subseteq CL!There(slot2)
    BY DEF CL!In
  <1>2. DOMAIN slot2 = CL!LayersOf[slot1] /\ CL!LayersOf[slot1] \subseteq CL!LayerNames
    BY DEF CallsTypes, CL!LayersOf, CL!LayerNames
  <1>3. \A e \in CL!There(slot2) :
           /\ e = [layer |-> e.layer, item |-> e.item] /\ e.layer \in DOMAIN slot2
           /\ e.item \in slot2[e.layer] /\ e.item \in CallItems
    BY DEF CL!There, CL!Entries
  <1>4. \A e \in CL!There(slot2) : e \in CallItem
    BY <1>2, <1>3 DEF CallItem, CL!Entries
  <1>5. ASSUME NEW e \in CL!In(ls), NEW f \in CL!In(ls) PROVE e = f
    <2>1. e.layer \in ls /\ f.layer \in ls /\ e \in CL!There(slot2) /\ f \in CL!There(slot2)
      BY DEF CL!In
    <2>2. \A l \in DOMAIN slot2 : slot2[l] \in {{}} \union {{item} : item \in CallItems}
      BY DEF CallsTypes
    <2>3. e.layer = f.layer
      <3>1. CASE ls = {"regular", "task"}
        <4>1. e.layer = "task" \/ f.layer = "task" => slot1 = "tools"
          BY <1>2, <1>3, <2>1 DEF CL!LayersOf, CL!LayerNames, CallsTypes
        <4> QED BY <1>3, <2>1, <3>1, <4>1 DEF CallsTypes
      <3> QED BY <2>1, <3>1 DEF LookAt
    <2>4. e.item = f.item
      BY <1>3, <2>1, <2>2, <2>3
    <2> QED BY <1>3, <2>1, <2>3, <2>4
  <1> QED BY <1>1, <1>4, <1>5

LEMMA LooksOneByOne ==
  ASSUME slot1 \in {"tools", "resources", "prompts", "others"},
         NEW i \in DOMAIN CL!Looks[slot1]
  PROVE  CL!Looks[slot1][i] \in LookAt
  BY LooksAre DEF LookAt

LEMMA LayersSame ==
  ASSUME UNCHANGED <<slot1, slot2>>
  PROVE  /\ \A ls : CL!In(ls)' = CL!In(ls)
         /\ CL!Effective' = CL!Effective /\ CL!There(slot2)' = CL!There(slot2)
  <1>1. CL!There(slot2)' = CL!There(slot2)
    BY DEF CL!There
  <1>2. \A ls : CL!In(ls)' = CL!In(ls)
    BY DEF CL!In, CL!There
  <1>3. CL!Effective' = CL!Effective
    BY DEF CL!Effective, CL!In, CL!There
  <1> QED BY <1>1, <1>2, <1>3

LEMMA MessageMoves ==
  ASSUME CallsInv, UNCHANGED <<slot1, slot2, slot5, slot6>>, slot4' \in CallerSessions,
         slot3' \in Messages, slot3'.pc # "idle" => slot3'.method \in CL!MethodsOf[slot1],
         slot6.current => ~slot3'.moved,
         HooksInv', FoundInv', UnmovedInv', RanInv', AnswerInv'
  PROVE  CallsInv'
  <1>1. CallsTypes /\ ListedInv
    BY DEF CallsInv
  <1>2. CallsTypes'
    BY <1>1 DEF CallsTypes
  <1>3. ListedInv'
    BY <1>1, LayersSame DEF ListedInv, CL!Passes
  <1> QED BY <1>2, <1>3 DEF CallsInv

LEMMA MessageTypes == CallsInv =>
  /\ slot3 \in Messages /\ slot4 \in CallerSessions
  /\ slot1 \in {"tools", "resources", "prompts", "others"}
  /\ (slot3.pc # "idle" => slot3.method \in CL!MethodsOf[slot1])
  /\ (slot6.current => ~slot3.moved)
  BY DEF CallsInv, CallsTypes, ListedInv

LEMMA CallChanges ==
  ASSUME CallsInv, NEW layer \in CL!LayersOf[slot1],
         NEW them \in {{}} \union {{item} : item \in CL!ItemsOf(slot1)},
         CL!Change(layer, them)
  PROVE  CallsInv'
  <1>0. /\ CallsTypes /\ HooksInv /\ FoundInv /\ UnmovedInv /\ RanInv /\ AnswerInv
        /\ slot3 \in Messages
    BY DEF CallsInv, CallsTypes
  <1>1. /\ slot2' = [slot2 EXCEPT ![layer] = them]
        /\ UNCHANGED <<slot1, slot4, slot7>>
        /\ slot3' = [slot3 EXCEPT !.moved = TRUE, !.during = @ \union CL!There(slot2')]
        /\ slot6' = [slot6 EXCEPT !.current = FALSE]
        /\ slot5' = IF them = {} \/ layer \in CL!Private THEN slot5
                      ELSE [slot5 EXCEPT !.capabilities = @ \union {slot1}]
        /\ layer = "regular" /\ slot1 = "tools" /\ them # {} => slot2["task"] = {}
        /\ layer = "task" /\ them # {} => slot2["regular"] = {}
    BY DEF CL!Change
  <1>2. them \in {{}} \union {{item} : item \in CallItems}
    BY DEF CL!ItemsOf
  <1>3. slot2' \in [CL!LayersOf[slot1] -> {{}} \union {{item} : item \in CallItems}]
    BY <1>0, <1>1, <1>2 DEF CallsTypes
  <1>4. slot1 \in CL!Capabilities
    BY <1>0 DEF CallsTypes, CL!LayersOf, CL!Capabilities
  <1>5. slot5' \in [capabilities : SUBSET CL!Capabilities,
                      recovery : SUBSET {"tools", "resources"}]
        /\ slot5'.recovery = slot5.recovery
    BY <1>0, <1>1, <1>4 DEF CallsTypes
  <1>6. slot1 = "tools" => slot2'["regular"] = {} \/ slot2'["task"] = {}
    <2>1. slot1 = "tools" => "regular" \in DOMAIN slot2 /\ "task" \in DOMAIN slot2
      BY <1>0 DEF CallsTypes, CL!LayersOf
    <2> QED BY <1>0, <1>1, <2>1 DEF CallsTypes
  <1>7. CL!There(slot2') \subseteq CallItem
    <2>1. DOMAIN slot2' = CL!LayersOf[slot1] /\ CL!LayersOf[slot1] \subseteq CL!LayerNames
      BY <1>0, <1>3 DEF CallsTypes, CL!LayersOf, CL!LayerNames
    <2> QED BY <2>1 DEF CL!There, CL!Entries, CallItem
  <1>8. PICK new : new = CL!There(slot2')
    OBVIOUS
  <1>9. /\ slot3' \in Messages /\ slot3'.moved
        /\ slot3'.during = slot3.during \union new
        /\ slot3'.pc = slot3.pc /\ slot3'.method = slot3.method
        /\ slot3'.task = slot3.task /\ slot3'.looks = slot3.looks
        /\ slot3'.found = slot3.found /\ slot3'.hooks = slot3.hooks
        /\ slot3'.outcome = slot3.outcome /\ slot3'.ran = slot3.ran
    BY <1>0, <1>1, <1>7, <1>8 DEF Messages
  <1>10. CallsTypes'
    BY <1>0, <1>1, <1>3, <1>5, <1>6, <1>9 DEF CallsTypes
  <1>11. HooksInv'
    BY <1>0, <1>1, <1>5, <1>9 DEF HooksInv, CL!HooksPaired
  <1>12. FoundInv'
    BY <1>0, <1>1, <1>8, <1>9 DEF FoundInv, CL!IsCall
  <1>13. UnmovedInv' /\ RanInv'
    BY <1>0, <1>9 DEF UnmovedInv, RanInv, CL!Passes
  <1>14. AnswerInv'
    BY <1>0, <1>9 DEF AnswerInv, CL!IsCall, CL!Passes, CL!TaskWanted
  <1>15. ListedInv'
    <2>1. slot6'.current = FALSE
      BY <1>0, <1>1 DEF CallsTypes
    <2> QED BY <2>1 DEF ListedInv
  <1> QED BY <1>10, <1>11, <1>12, <1>13, <1>14, <1>15 DEF CallsInv

LEMMA CallReceived ==
  ASSUME CallsInv, NEW method \in CL!MethodsOf[slot1], NEW isModern \in BOOLEAN,
         NEW task \in BOOLEAN, task => method = "tools/call", CL!Receive(method, isModern, task)
  PROVE  CallsInv'
  <1>0. CallsTypes
    BY DEF CallsInv
  <1>1. UNCHANGED <<slot1, slot2, slot5, slot4, slot6, slot8>>
        /\ slot3' = [CL!NoMessage EXCEPT !.pc = "received", !.method = method,
                         !.modern = isModern, !.task = task, !.during = CL!There(slot2)]
    BY DEF CL!Receive
  <1>2. CL!There(slot2) \subseteq CallItem
    <2>1. DOMAIN slot2 = CL!LayersOf[slot1] /\ CL!LayersOf[slot1] \subseteq CL!LayerNames
      BY <1>0 DEF CallsTypes, CL!LayersOf, CL!LayerNames
    <2> QED BY <2>1 DEF CL!There, CL!Entries, CallItem
  <1>3. method \in CallMethods
    BY <1>0 DEF CallsTypes, CallMethods
  <1>4. PICK there : there = CL!There(slot2)
    OBVIOUS
  <1>5. /\ slot3' \in Messages /\ slot3'.pc = "received" /\ slot3'.method = method
        /\ slot3'.during = there /\ slot3'.found = {} /\ slot3'.ran = {}
        /\ slot3'.hooks = <<>> /\ ~slot3'.moved /\ slot3'.looks = 0
        /\ slot3'.task = task
    BY <1>1, <1>2, <1>3, <1>4 DEF Messages, CL!NoMessage, HookRuns
  <1>6. HooksInv' /\ FoundInv' /\ UnmovedInv' /\ RanInv' /\ AnswerInv'
    BY <1>1, <1>4, <1>5, LayersSame DEF HooksInv, FoundInv, UnmovedInv, RanInv, AnswerInv, InHandler,
       CL!HooksPaired
  <1> QED BY <1>1, <1>5, <1>6, MessageTypes, MessageMoves

\* Before the handler of the method, the request is refused or goes on.
LEMMA CallRefused ==
  ASSUME CallsInv, slot3.pc \in {"received", "accepted"},
         NEW outcome \in {"rejected", "unparsable", "unavailable"},
         CL!Answer(outcome, IF outcome = "rejected" THEN <<>> ELSE CL!ErrorHooks), UNCHANGED slot4
  PROVE  CallsInv'
  <1>0. /\ CallsTypes /\ HooksInv /\ FoundInv /\ RanInv /\ slot3 \in Messages
    BY DEF CallsInv, CallsTypes
  <1>1. /\ UNCHANGED <<slot1, slot2, slot5, slot6, slot7, slot8, slot4>>
        /\ slot3' = [slot3 EXCEPT !.pc = "answered", !.outcome = outcome,
             !.hooks = @ \o (IF outcome = "rejected" THEN <<>> ELSE CL!ErrorHooks)]
    BY DEF CL!Answer
  <1>2. slot3.hooks = <<>> /\ slot3.ran = {}
    BY <1>0 DEF HooksInv, RanInv
  <1>3. slot3.hooks \o (IF outcome = "rejected" THEN <<>> ELSE CL!ErrorHooks)
          = IF outcome = "rejected" THEN <<>> ELSE <<"error">>
    BY <1>2 DEF CL!ErrorHooks
  <1>4. PICK hooks1 : hooks1 = IF outcome = "rejected" THEN <<>> ELSE <<"error">>
    OBVIOUS
  <1>5. slot3' = [slot3 EXCEPT !.pc = "answered", !.outcome = outcome, !.hooks = hooks1]
    BY <1>0, <1>1, <1>3, <1>4
  <1>6. hooks1 \in HookRuns
    BY <1>4 DEF HookRuns
  <1>7. /\ slot3' \in Messages /\ slot3'.pc = "answered" /\ slot3'.outcome = outcome
        /\ slot3'.hooks = hooks1 /\ slot3'.ran = {} /\ slot3'.method = slot3.method /\ slot3'.task = slot3.task
        /\ slot3'.found = slot3.found /\ slot3'.during = slot3.during
        /\ slot3'.moved = slot3.moved
    BY <1>0, <1>2, <1>5, <1>6 DEF Messages
  <1>8. HooksInv'
    BY <1>4, <1>7 DEF HooksInv, CL!HooksPaired, InHandler
  <1>9. FoundInv' /\ UnmovedInv' /\ RanInv'
    BY <1>0, <1>1, <1>7, LayersSame DEF FoundInv, UnmovedInv, RanInv, CL!IsCall
  <1>10. AnswerInv'
    <2>1. ~(hooks1 # <<>> /\ Head(hooks1) = "before")
      BY <1>4
    <2> QED BY <1>7, <2>1 DEF AnswerInv
  <1> QED BY <1>0, <1>1, <1>7, <1>8, <1>9, <1>10, MessageTypes, MessageMoves

LEMMA CallAccepted == ASSUME CallsInv, CL!Accept PROVE CallsInv'
  <1>0. /\ CallsTypes /\ HooksInv /\ FoundInv /\ RanInv /\ slot3 \in Messages
    BY DEF CallsInv, CallsTypes
  <1>1. /\ UNCHANGED <<slot1, slot2, slot5, slot6, slot7, slot8>>
        /\ slot3.pc = "received" /\ slot3' = [slot3 EXCEPT !.pc = "accepted"]
    BY DEF CL!Accept
  <1>2. slot4' \in CallerSessions
    BY <1>0 DEF CL!Accept, CallsTypes, CallerSessions
  <1>3. /\ slot3' \in Messages /\ slot3'.pc = "accepted"
        /\ slot3'.hooks = slot3.hooks /\ slot3'.ran = slot3.ran
        /\ slot3'.method = slot3.method /\ slot3'.task = slot3.task /\ slot3'.looks = slot3.looks
        /\ slot3'.found = slot3.found /\ slot3'.during = slot3.during
        /\ slot3'.moved = slot3.moved
    BY <1>0, <1>1 DEF Messages
  <1>4. HooksInv' /\ FoundInv' /\ UnmovedInv' /\ RanInv' /\ AnswerInv'
    BY <1>0, <1>1, <1>3, LayersSame DEF HooksInv, FoundInv, UnmovedInv, RanInv, AnswerInv, InHandler,
       CL!HooksPaired
  <1> QED BY <1>0, <1>1, <1>2, <1>3, <1>4, MessageTypes, MessageMoves

LEMMA CallDispatched ==
  ASSUME CallsInv, NEW method, NEW eras, NEW capabilities,
         CL!Dispatch(method, eras, capabilities)
  PROVE  CallsInv'
  <1>0. /\ CallsTypes /\ HooksInv /\ FoundInv /\ RanInv /\ slot3 \in Messages
    BY DEF CallsInv, CallsTypes
  <1>1. slot3.pc = "accepted" /\ UNCHANGED slot4
    BY DEF CL!Dispatch
  <1>2. CASE CL!Answer("unparsable", CL!ErrorHooks) \/ CL!Answer("unavailable", CL!ErrorHooks)
    BY <1>1, <1>2, CallRefused
  <1>3. CASE /\ slot3' = [slot3 EXCEPT !.pc = "entered", !.hooks = CL!BeforeHooks]
             /\ UNCHANGED <<slot1, slot2, slot5, slot6, slot7, slot8>>
    <2>1. /\ slot3' \in Messages /\ slot3'.pc = "entered"
          /\ slot3'.hooks = <<"before">> /\ slot3'.ran = slot3.ran
          /\ slot3'.method = slot3.method /\ slot3'.task = slot3.task /\ slot3'.looks = slot3.looks
          /\ slot3'.found = slot3.found /\ slot3'.during = slot3.during
          /\ slot3'.moved = slot3.moved
      BY <1>0, <1>3 DEF Messages, InHandler, HookRuns, CL!BeforeHooks
    <2>2. HooksInv' /\ FoundInv' /\ UnmovedInv' /\ RanInv' /\ AnswerInv'
      BY <1>0, <1>1, <1>3, <2>1, LayersSame DEF HooksInv, FoundInv, UnmovedInv, RanInv, AnswerInv,
         InHandler, CL!HooksPaired
    <2> QED BY <1>0, <1>1, <1>3, <2>1, <2>2, MessageTypes, MessageMoves
  <1> QED BY <1>2, <1>3 DEF CL!Dispatch

LEMMA HooksAfter ==
  /\ <<"before">> \o CL!AfterHooks = <<"before", "success">>
  /\ <<"before">> \o CL!ErrorHooks = <<"before", "error">>
  <1>1. ASSUME NEW good \in BOOLEAN, NEW hooks1,
               hooks1 = IF good THEN <<"before", "success">> ELSE <<"before", "error">>
        PROVE  <<"before">> \o (IF good THEN CL!AfterHooks ELSE CL!ErrorHooks) = hooks1
    BY <1>1 DEF CL!AfterHooks, CL!ErrorHooks
  <1> QED BY <1>1

-----------------------------------------------------------------------------
\* A handler, or the search before it, answers; for a call the answer is the one
\* that what the name stands for calls for.
LEMMA CallReturns ==
  ASSUME CallsInv, NEW outcome \in ReturnedOutcomes \ {"task"}, CL!Return(outcome),
         slot3.pc \in InHandler, slot4' \in CallerSessions,
         CL!IsCall /\ ~slot3.moved =>
           (outcome = "notFound" <=> \A e \in CL!Effective : ~CL!Passes(e))
  PROVE  CallsInv'
  <1>0. /\ CallsTypes /\ HooksInv /\ FoundInv /\ UnmovedInv /\ RanInv /\ slot3 \in Messages
    BY DEF CallsInv, CallsTypes
  <1> DEFINE after == IF outcome \in {"result", "toolError", "task"} THEN CL!AfterHooks
                                                                     ELSE CL!ErrorHooks
  <1>1. /\ UNCHANGED <<slot1, slot2, slot5, slot6, slot7, slot8>>
        /\ slot3' = [slot3 EXCEPT !.pc = "answered", !.outcome = outcome, !.hooks = @ \o after]
    BY DEF CL!Return, CL!Answer
  <1>2. slot3.hooks = <<"before">>
    BY <1>0 DEF HooksInv
  <1>3. PICK hooks1 :
          hooks1 = IF outcome \in {"result", "toolError", "task"} THEN <<"before", "success">>
                                                                  ELSE <<"before", "error">>
    OBVIOUS
  <1>4. slot3.hooks \o after = hooks1
    BY <1>2, <1>3 DEF CL!AfterHooks, CL!ErrorHooks
  <1>5. slot3' = [slot3 EXCEPT !.pc = "answered", !.outcome = outcome, !.hooks = hooks1]
    BY <1>0, <1>1, <1>4
  <1>6. hooks1 \in HookRuns /\ hooks1 # <<>> /\ Head(hooks1) = "before"
    BY <1>3 DEF HookRuns
  <1>7. /\ slot3' \in Messages /\ slot3'.pc = "answered" /\ slot3'.outcome = outcome
        /\ slot3'.hooks = hooks1 /\ slot3'.ran = slot3.ran
        /\ slot3'.method = slot3.method /\ slot3'.task = slot3.task
        /\ slot3'.found = slot3.found /\ slot3'.during = slot3.during
        /\ slot3'.moved = slot3.moved
    BY <1>0, <1>5, <1>6 DEF Messages
  <1>8. HooksInv'
    BY <1>3, <1>7 DEF HooksInv, CL!HooksPaired, InHandler, ReturnedOutcomes
  <1>9. FoundInv' /\ UnmovedInv' /\ RanInv'
    BY <1>0, <1>1, <1>7, LayersSame DEF FoundInv, UnmovedInv, RanInv, CL!IsCall, InHandler
  <1>10. /\ \A e \in slot3.ran : CL!Passes(e) /\ e.layer # "task" /\ e.item.support # "required"
         /\ ~slot3.moved => slot3.ran \subseteq CL!Effective
    BY <1>0 DEF RanInv, UnmovedInv, InHandler
  <1>11. AnswerInv'
    BY <1>1, <1>6, <1>7, <1>10, LayersSame DEF AnswerInv, CL!IsCall, CL!Passes, CL!TaskWanted
  <1> QED BY <1>0, <1>1, <1>7, <1>8, <1>9, <1>11, MessageTypes, MessageMoves DEF InHandler

\* The handlers of one step.
LEMMA CallHandled ==
  ASSUME CallsInv,
         \/ \E valid \in BOOLEAN : CL!HandleSetLevel(valid) \/ CL!HandleSubscribe(valid)
                                   \/ CL!HandleUnsubscribe(valid)
         \/ CL!HandleComplete \/ CL!HandlePing \/ CL!HandleOthers \/ CL!HandleInitialize
  PROVE  CallsInv'
  <1>0. slot4 \in CallerSessions
    BY DEF CallsInv, CallsTypes
  <1>1. slot3.pc = "entered" /\ ~CL!IsCall
    BY DEF CL!HandleSetLevel, CL!HandleSubscribe, CL!HandleUnsubscribe, CL!HandleComplete,
           CL!HandlePing, CL!HandleOthers, CL!HandleInitialize, CL!At, CL!IsCall
  <1>2. CL!Return("result") \/ CL!Return("failed")
    BY DEF CL!HandleSetLevel, CL!HandleSubscribe, CL!HandleUnsubscribe, CL!HandleComplete,
           CL!HandlePing, CL!HandleOthers, CL!HandleInitialize
  <1>3. slot4' \in CallerSessions
    <2>1. CASE \E valid \in BOOLEAN : CL!HandleSetLevel(valid)
      BY <1>0, <2>1 DEF CL!HandleSetLevel, CallerSessions
    <2>2. CASE \E valid \in BOOLEAN : CL!HandleSubscribe(valid)
      <3>1. slot4' = slot4
              \/ slot4' = [slot4 EXCEPT !.subscribed = (@ \/ slot4.session = "full")]
        BY <2>2 DEF CL!HandleSubscribe
      <3>2. (slot4.subscribed \/ slot4.session = "full") \in BOOLEAN
        OBVIOUS
      <3>3. PICK b \in BOOLEAN : b = (slot4.subscribed \/ slot4.session = "full")
        BY <3>2
      <3>4. slot4' = slot4 \/ slot4' = [slot4 EXCEPT !.subscribed = b]
        BY <1>0, <3>1, <3>3 DEF CallerSessions
      <3> QED BY <1>0, <3>4 DEF CallerSessions
    <2>3. CASE \E valid \in BOOLEAN : CL!HandleUnsubscribe(valid)
      BY <1>0, <2>3 DEF CL!HandleUnsubscribe, CallerSessions
    <2>4. CASE CL!HandleComplete \/ CL!HandlePing \/ CL!HandleOthers
      BY <1>0, <2>4 DEF CL!HandleComplete, CL!HandlePing, CL!HandleOthers
    <2>5. CASE CL!HandleInitialize
      BY <1>0, <2>5 DEF CL!HandleInitialize, CallerSessions
    <2> QED BY <2>1, <2>2, <2>3, <2>4, <2>5
  <1> QED BY <1>1, <1>2, <1>3, CallReturns DEF InHandler, ReturnedOutcomes

\* The method of a call goes with the family.
LEMMA CallMethodsOf ==
  ASSUME CallsTypes, slot3.pc # "idle"
  PROVE  /\ CL!IsCall => slot1 # "others"
         /\ slot3.method = "tools/call" => slot1 = "tools"
         /\ slot3.method = "tools/list" => slot1 = "tools"
         /\ slot3.method = "resources/list" => slot1 = "resources"
         /\ slot3.method = "resources/templates/list" => slot1 = "resources"
         /\ slot3.method = "prompts/list" => slot1 = "prompts"
         /\ slot1 # "others" /\ slot3.method \notin CL!Lists => CL!IsCall
         /\ CL!IsCall => slot3.method \notin CL!Lists
         /\ slot3.method \in CL!Lists => ~CL!IsCall
  BY DEF CallsTypes, CL!MethodsOf, CL!IsCall, CL!Lists

LEMMA CallBegins == ASSUME CallsInv, CL!Begin PROVE CallsInv'
  <1>0. /\ CallsTypes /\ HooksInv /\ FoundInv /\ UnmovedInv /\ RanInv /\ slot3 \in Messages
    BY DEF CallsInv, CallsTypes
  <1>1. /\ UNCHANGED <<slot1, slot2, slot5, slot4, slot6, slot7, slot8>>
        /\ slot3.pc = "entered" /\ slot1 # "others"
        /\ slot3' = [slot3 EXCEPT !.pc = IF slot3.method \in CL!Lists THEN "listing"
                                                                            ELSE "looking"]
    BY DEF CL!Begin
  <1>2. PICK p \in {"listing", "looking"} :
          p = IF slot3.method \in CL!Lists THEN "listing" ELSE "looking"
    OBVIOUS
  <1>3. slot3' = [slot3 EXCEPT !.pc = p]
    BY <1>1, <1>2
  <1>4. /\ slot3' \in Messages /\ slot3'.pc = p
        /\ slot3'.hooks = slot3.hooks /\ slot3'.ran = slot3.ran
        /\ slot3'.method = slot3.method /\ slot3'.looks = slot3.looks
        /\ slot3'.found = slot3.found /\ slot3'.during = slot3.during
        /\ slot3'.moved = slot3.moved /\ slot3'.task = slot3.task
    BY <1>0, <1>2, <1>3 DEF Messages, InHandler
  <1>5. slot3.looks = 0 /\ slot3.found = {} /\ slot3.ran = {}
    BY <1>0, <1>1 DEF FoundInv, RanInv
  <1>6. HooksInv' /\ RanInv' /\ AnswerInv'
    BY <1>0, <1>1, <1>2, <1>4, <1>5 DEF HooksInv, RanInv, AnswerInv, InHandler, CL!HooksPaired
  <1>7. p = "looking" => CL!IsCall
    BY <1>0, <1>1, <1>2, CallMethodsOf
  <1>8. Len(CL!Looks[slot1]) \in Nat
    BY <1>0, LooksCount DEF CallsTypes
  <1>9. FoundInv'
    BY <1>0, <1>1, <1>2, <1>4, <1>5, <1>7, <1>8, LayersSame DEF FoundInv, CL!IsCall
  <1>10. UnmovedInv'
    <2>1. \A j \in DOMAIN CL!Looks[slot1] : ~(j < 0)
      BY <1>0, LooksCount DEF CallsTypes
    <2> QED BY <1>1, <1>2, <1>4, <1>5, <2>1 DEF UnmovedInv
  <1> QED BY <1>0, <1>1, <1>4, <1>6, <1>9, <1>10, MessageTypes, MessageMoves

LEMMA CallLists == ASSUME CallsInv, NEW method, CL!ListLook(method) PROVE CallsInv'
  <1>0. /\ CallsTypes /\ HooksInv /\ FoundInv /\ UnmovedInv /\ RanInv /\ slot3 \in Messages
    BY DEF CallsInv, CallsTypes
  <1>1. PICK looks : looks = CL!ListLooks(slot3.method)
    OBVIOUS
  <1>2. PICK seen : seen = CL!In(looks[slot3.looks + 1])
    OBVIOUS
  <1>3. /\ UNCHANGED <<slot1, slot2, slot5, slot4, slot6, slot7, slot8>>
        /\ slot3.pc = "listing" /\ slot3.looks < Len(looks)
        /\ slot3' = [slot3 EXCEPT !.looks = @ + 1,
                                      !.found = IF seen = {} THEN @ ELSE seen]
    BY <1>1, <1>2 DEF CL!ListLook, CL!At
  <1>4. slot3.looks \in Nat /\ slot3.looks + 1 \in 1..Len(looks)
    BY <1>0, <1>1, <1>3 DEF Messages, CL!ListLooks
  <1>5. looks[slot3.looks + 1] \in LookAt
    BY <1>1, <1>4 DEF CL!ListLooks, LookAt
  <1>6. /\ seen \subseteq CL!There(slot2) /\ seen \subseteq CallItem
        /\ \A e \in seen, f \in seen : e = f
    BY <1>0, <1>2, <1>5, OneFound
  <1>7. PICK found : found = IF seen = {} THEN slot3.found ELSE seen
    OBVIOUS
  <1>8. /\ found \subseteq slot3.during /\ found \subseteq CallItem
        /\ \A e \in found, f \in found : e = f
    BY <1>0, <1>3, <1>6, <1>7 DEF FoundInv, Messages
  <1>9. PICK n \in Nat : n = slot3.looks + 1
    BY <1>4
  <1>10. slot3' = [slot3 EXCEPT !.looks = n, !.found = found]
    BY <1>0, <1>3, <1>7, <1>9 DEF Messages
  <1>11. /\ slot3' \in Messages /\ slot3'.pc = "listing"
         /\ slot3'.hooks = slot3.hooks /\ slot3'.ran = slot3.ran
         /\ slot3'.method = slot3.method /\ slot3'.task = slot3.task /\ slot3'.looks = n
         /\ slot3'.found = found /\ slot3'.during = slot3.during
         /\ slot3'.moved = slot3.moved
    <2>1. slot3 \in Messages /\ n \in Nat /\ found \in SUBSET CallItem
          /\ slot3.pc = "listing"
      BY <1>0, <1>3, <1>8
    <2> QED BY <1>10, <2>1 DEF Messages
  <1>12. HooksInv' /\ RanInv' /\ AnswerInv'
    BY <1>0, <1>3, <1>11 DEF HooksInv, RanInv, AnswerInv, InHandler, CL!HooksPaired
  <1>13. FoundInv'
    BY <1>0, <1>3, <1>8, <1>11, LayersSame DEF FoundInv
  <1>14. UnmovedInv'
    <2>1. ASSUME ~slot3.moved, slot1 = "tools"
          PROVE  /\ n = 1 => found = CL!In({"regular", "task"})
                 /\ n = 2 => found = CL!Effective
                 /\ n \in {1, 2}
      <3>1. slot3.method = "tools/list"
        BY <1>0, <1>3, <2>1, CallMethodsOf DEF FoundInv, CL!Lists
      <3>2. looks = <<{"regular", "task"}, {"session"}>>
        BY <1>1, <3>1 DEF CL!ListLooks
      <3>3. Len(looks) = 2 /\ looks[1] = {"regular", "task"} /\ looks[2] = {"session"}
        BY <3>2
      <3>4. n \in {1, 2}
        BY <1>3, <1>4, <1>9, <3>3
      <3>5. CASE n = 1
        <4>1. slot3.looks = 0
          BY <1>4, <1>9, <3>5
        <4>2. slot3.found = {}
          BY <1>0, <1>3, <2>1, <4>1 DEF UnmovedInv
        <4>3. seen = CL!In({"regular", "task"})
          BY <1>2, <3>3, <4>1
        <4> QED BY <1>7, <3>5, <4>2, <4>3
      <3>6. CASE n = 2
        <4>1. slot3.looks = 1
          BY <1>4, <1>9, <3>6
        <4>2. slot3.found = CL!In({"regular", "task"})
          BY <1>0, <1>3, <2>1, <4>1 DEF UnmovedInv
        <4>3. seen = CL!In({"session"})
          BY <1>2, <3>3, <4>1
        <4> QED BY <1>7, <2>1, <3>6, <4>2, <4>3, EffectiveTool
      <3> QED BY <3>4, <3>5, <3>6
    <2>2. ASSUME ~slot3.moved, slot1 = "prompts"
          PROVE  n = 1 /\ found = CL!Effective
      <3>1. slot3.method = "prompts/list"
        BY <1>0, <1>3, <2>2, CallMethodsOf DEF FoundInv, CL!Lists
      <3>2. looks = <<{"regular"}>>
        BY <1>1, <3>1 DEF CL!ListLooks
      <3>3. Len(looks) = 1 /\ looks[1] = {"regular"}
        BY <3>2
      <3>4. n = 1 /\ slot3.looks = 0
        BY <1>3, <1>4, <1>9, <3>3
      <3>5. slot3.found = {}
        BY <1>0, <1>3, <2>2, <3>4 DEF UnmovedInv
      <3>6. seen = CL!In({"regular"})
        BY <1>2, <3>3, <3>4
      <3> QED BY <1>7, <2>2, <3>4, <3>5, <3>6, EffectivePrompt
    <2> QED BY <1>3, <1>11, <2>1, <2>2, LayersSame DEF UnmovedInv
  <1> QED BY <1>0, <1>3, <1>11, <1>12, <1>13, <1>14, MessageTypes, MessageMoves

LEMMA CallListed == ASSUME CallsInv, CL!ListPage PROVE CallsInv'
  <1>0. /\ CallsTypes /\ HooksInv /\ FoundInv /\ UnmovedInv /\ RanInv /\ slot3 \in Messages
    BY DEF CallsInv, CallsTypes
  <1>1. slot3.pc = "listing" /\ slot3.looks = Len(CL!ListLooks(slot3.method))
    BY DEF CL!ListPage
  <1>2. ~CL!IsCall
    BY <1>0, <1>1, CallMethodsOf DEF FoundInv
  <1>3. CASE CL!Return("failed") /\ UNCHANGED slot4
    BY <1>0, <1>1, <1>2, <1>3, CallReturns DEF InHandler, ReturnedOutcomes, CallsTypes
  <1>4. CASE /\ slot6' = [items |-> {e \in slot3.found : CL!Passes(e)},
                           current |-> ~slot3.moved]
             /\ slot3' = [slot3 EXCEPT !.pc = "answered", !.outcome = "result",
                                           !.hooks = @ \o CL!AfterHooks]
             /\ UNCHANGED <<slot1, slot2, slot5, slot4, slot7, slot8>>
    <2>1. slot3.hooks = <<"before">> /\ slot3.ran = {}
      BY <1>0, <1>1 DEF HooksInv, InHandler, RanInv
    <2>2. slot3.hooks \o CL!AfterHooks = <<"before", "success">>
      <3>1. slot3.hooks = <<"before">>
        BY <2>1
      <3> QED BY <3>1, HooksAfter
    <2>3. slot3' = [slot3 EXCEPT !.pc = "answered", !.outcome = "result",
                                    !.hooks = <<"before", "success">>]
      BY <1>0, <1>4, <2>2
    <2>4. /\ slot3' \in Messages /\ slot3'.pc = "answered" /\ slot3'.outcome = "result"
          /\ slot3'.hooks = <<"before", "success">> /\ slot3'.ran = {}
          /\ slot3'.method = slot3.method /\ slot3'.task = slot3.task
          /\ slot3'.found = slot3.found /\ slot3'.during = slot3.during
          /\ slot3'.moved = slot3.moved
      BY <1>0, <2>1, <2>3 DEF Messages, HookRuns, ReturnedOutcomes
    <2>5. HooksInv' /\ RanInv' /\ FoundInv' /\ UnmovedInv' /\ AnswerInv'
      BY <1>0, <1>1, <1>2, <1>4, <2>4, LayersSame DEF HooksInv, RanInv, FoundInv, UnmovedInv,
         AnswerInv, InHandler, CL!HooksPaired, CL!IsCall
    <2>6. ~slot3.moved /\ slot1 \in {"tools", "prompts"} => slot3.found = CL!Effective
      <3>1. slot1 = "tools" => slot3.method = "tools/list"
        BY <1>0, <1>1, CallMethodsOf DEF FoundInv, CL!Lists
      <3>2. slot1 = "prompts" => slot3.method = "prompts/list"
        BY <1>0, <1>1, CallMethodsOf DEF FoundInv, CL!Lists
      <3>3. slot1 = "tools" => slot3.looks = 2
        BY <1>1, <3>1 DEF CL!ListLooks
      <3>4. slot1 = "prompts" => slot3.looks = 1
        BY <1>1, <3>2 DEF CL!ListLooks
      <3> QED BY <1>0, <1>1, <3>3, <3>4 DEF UnmovedInv
    <2>7. ListedInv'
      BY <1>4, <2>4, <2>6, LayersSame DEF ListedInv, CL!Passes
    <2>8. slot6' \in [items : SUBSET CallItem, current : BOOLEAN]
      <3>1. {e \in slot3.found : CL!Passes(e)} \in SUBSET CallItem /\ slot3.moved \in BOOLEAN
        BY <1>0 DEF Messages
      <3> QED BY <1>4, <3>1
    <2>9. CallsTypes'
      BY <1>0, <1>1, <1>4, <2>4, <2>8 DEF CallsTypes
    <2> QED BY <2>5, <2>7, <2>9 DEF CallsInv
  <1> QED BY <1>3, <1>4 DEF CL!ListPage

\* The look for a name.
LEMMA CallLooks == ASSUME CallsInv, NEW method, CL!Look(method) PROVE CallsInv'
  <1>0. /\ CallsTypes /\ HooksInv /\ FoundInv /\ UnmovedInv /\ RanInv /\ slot3 \in Messages
    BY DEF CallsInv, CallsTypes
  <1>1. PICK n : n = slot3.looks + 1
    OBVIOUS
  <1>2. PICK found : found = CL!In(CL!Looks[slot1][n])
    OBVIOUS
  <1>3. /\ UNCHANGED <<slot1, slot2, slot5, slot4, slot6, slot7, slot8>>
        /\ slot3.pc = "looking" /\ slot3.found = {}
        /\ slot3.looks < Len(CL!Looks[slot1])
        /\ slot3' = [slot3 EXCEPT !.looks = @ + 1, !.found = CL!In(CL!Looks[slot1][n])]
    BY <1>1 DEF CL!Look, CL!At
  <1>4. /\ DOMAIN CL!Looks[slot1] = 1..Len(CL!Looks[slot1]) /\ Len(CL!Looks[slot1]) \in Nat
    BY <1>0, LooksCount DEF CallsTypes
  <1>5. slot3.looks \in Nat /\ n \in Nat /\ n \in DOMAIN CL!Looks[slot1]
    BY <1>0, <1>1, <1>3, <1>4 DEF Messages
  <1>6. CL!Looks[slot1][n] \in LookAt
    BY <1>0, <1>5, LooksOneByOne DEF CallsTypes
  <1>7. /\ found \subseteq CL!There(slot2) /\ found \in SUBSET CallItem
        /\ \A e \in found, f \in found : e = f
    BY <1>0, <1>2, <1>6, OneFound
  <1>8. slot3' = [slot3 EXCEPT !.looks = n, !.found = found]
    BY <1>0, <1>1, <1>2, <1>3 DEF Messages
  <1>9. /\ slot3' \in Messages /\ slot3'.pc = "looking"
        /\ slot3'.hooks = slot3.hooks /\ slot3'.ran = slot3.ran
        /\ slot3'.method = slot3.method /\ slot3'.task = slot3.task /\ slot3'.looks = n
        /\ slot3'.found = found /\ slot3'.during = slot3.during
        /\ slot3'.moved = slot3.moved
    <2>1. slot3 \in Messages /\ n \in Nat /\ found \in SUBSET CallItem
          /\ slot3.pc = "looking"
      BY <1>0, <1>3, <1>5, <1>7
    <2> QED BY <1>8, <2>1 DEF Messages
  <1>10. HooksInv' /\ RanInv' /\ AnswerInv'
    BY <1>0, <1>3, <1>9 DEF HooksInv, RanInv, AnswerInv, InHandler, CL!HooksPaired
  <1>11. FoundInv'
    <2>1. found \subseteq slot3.during /\ n <= Len(CL!Looks[slot1])
      BY <1>0, <1>3, <1>4, <1>5, <1>7 DEF FoundInv
    <2> QED BY <1>0, <1>3, <1>7, <1>9, <2>1, LayersSame DEF FoundInv, CL!IsCall
  <1>12. UnmovedInv'
    <2>1. ASSUME ~slot3.moved, NEW j \in DOMAIN CL!Looks[slot1], j < n
          PROVE  CL!In(CL!Looks[slot1][j]) = {}
      <3>1. CASE j < slot3.looks
        BY <1>0, <1>3, <2>1, <3>1 DEF UnmovedInv
      <3>2. CASE j = slot3.looks
        <4>1. slot3.looks # 0
          BY <1>4, <3>2
        <4> QED BY <1>0, <1>3, <2>1, <3>2, <4>1 DEF UnmovedInv
      <3> QED BY <1>1, <1>4, <1>5, <2>1, <3>1, <3>2
    <2>2. n # 0
      BY <1>4, <1>5
    <2> QED BY <1>2, <1>3, <1>9, <2>1, <2>2, LayersSame DEF UnmovedInv
  <1> QED BY <1>0, <1>3, <1>9, <1>10, <1>11, <1>12, MessageTypes, MessageMoves

\* Where the look ends, as long as nothing has changed, is what the name stands for.
LEMMA LookEnds ==
  ASSUME CallsInv, slot3.pc = "looking", ~slot3.moved
  PROVE  /\ slot3.found # {} => CL!Effective = slot3.found
         /\ slot3.found = {} /\ slot3.looks = Len(CL!Looks[slot1]) => CL!Effective = {}
  <1>0. CallsTypes /\ FoundInv /\ UnmovedInv
    BY DEF CallsInv
  <1>1. /\ DOMAIN CL!Looks[slot1] = 1..Len(CL!Looks[slot1]) /\ Len(CL!Looks[slot1]) \in Nat
    BY <1>0, LooksCount DEF CallsTypes
  <1>2. slot3.looks \in Nat /\ slot3.looks <= Len(CL!Looks[slot1])
    BY <1>0 DEF CallsTypes, Messages, FoundInv
  <1>3. /\ \A j \in DOMAIN CL!Looks[slot1] :
             j < slot3.looks => CL!In(CL!Looks[slot1][j]) = {}
        /\ slot3.found = IF slot3.looks = 0 THEN {}
                           ELSE CL!In(CL!Looks[slot1][slot3.looks])
    BY <1>0 DEF UnmovedInv
  <1>4. ASSUME slot3.found # {} PROVE CL!Effective = slot3.found
    <2>1. slot3.looks # 0 /\ slot3.looks \in DOMAIN CL!Looks[slot1]
      BY <1>1, <1>2, <1>3, <1>4
    <2>2. CL!In(CL!Looks[slot1][slot3.looks]) = slot3.found
      BY <1>3, <2>1
    <2>3. DOMAIN CL!Looks[slot1] \subseteq Nat
      BY <1>1
    <2> QED BY <1>3, <1>4, <2>1, <2>2, <2>3, EffectiveIs
  <1>5. ASSUME slot3.found = {}, slot3.looks = Len(CL!Looks[slot1])
        PROVE  CL!Effective = {}
    <2>1. ASSUME NEW j \in DOMAIN CL!Looks[slot1] PROVE CL!In(CL!Looks[slot1][j]) = {}
      <3>1. j < slot3.looks \/ j = slot3.looks
        BY <1>1, <1>5
      <3>2. CASE j < slot3.looks
        BY <1>3, <3>2
      <3>3. CASE j = slot3.looks
        <4>1. slot3.looks # 0
          BY <1>1, <3>3
        <4> QED BY <1>3, <1>5, <3>3, <4>1
      <3> QED BY <3>1, <3>2, <3>3
    <2> QED BY <2>1, EffectiveNone
  <1> QED BY <1>4, <1>5

LEMMA CallEnds ==
  ASSUME CallsInv, CL!NotThere \/ CL!FilteredOut \/ CL!CannotRun
  PROVE  CallsInv'
  <1>0. CallsTypes /\ FoundInv
    BY DEF CallsInv
  <1>1. slot3.pc = "looking" /\ UNCHANGED slot4
    BY DEF CL!NotThere, CL!FilteredOut, CL!CannotRun, CL!Found
  <1>2. CASE CL!NotThere
    <2>1. CL!Return("notFound") /\ slot3.found = {} /\ slot3.looks = Len(CL!Looks[slot1])
      BY <1>2 DEF CL!NotThere
    <2> QED BY <1>0, <1>1, <2>1, LookEnds, CallReturns DEF CallsTypes, InHandler, ReturnedOutcomes
  <1>3. CASE CL!FilteredOut
    <2>1. CL!Return("notFound") /\ \E e \in slot3.found : ~CL!Passes(e)
      BY <1>3 DEF CL!FilteredOut
    <2>2. \A e \in slot3.found : ~CL!Passes(e)
      BY <1>0, <2>1 DEF FoundInv
    <2> QED BY <1>0, <1>1, <2>1, <2>2, LookEnds, CallReturns DEF CallsTypes, InHandler,
               ReturnedOutcomes
  <1>4. CASE CL!CannotRun
    <2>1. CL!Return("refused") /\ \E e \in slot3.found : CL!Passes(e)
      BY <1>4 DEF CL!CannotRun
    <2> QED BY <1>0, <1>1, <2>1, LookEnds, CallReturns DEF CallsTypes, InHandler, ReturnedOutcomes
  <1> QED BY <1>2, <1>3, <1>4

LEMMA CallProceeds == ASSUME CallsInv, CL!Proceed PROVE CallsInv'
  <1>0. /\ CallsTypes /\ HooksInv /\ FoundInv /\ UnmovedInv /\ RanInv /\ slot3 \in Messages
    BY DEF CallsInv, CallsTypes
  <1>1. UNCHANGED <<slot1, slot2, slot5, slot4, slot6, slot7, slot8>>
    BY DEF CL!Proceed
  <1>2. PICK e \in slot3.found :
          /\ CL!Found(e) /\ CL!Passes(e)
          /\ \/ CL!TaskWanted(e) /\ slot3' = [slot3 EXCEPT !.pc = "again", !.looks = 0,
                                                                !.found = {}]
             \/ /\ ~CL!TaskWanted(e) /\ e.item.support # "required" /\ e.layer # "task"
                /\ slot3' = [slot3 EXCEPT !.pc = "running", !.ran = {e}]
    BY DEF CL!Proceed
  <1>3. slot3.pc = "looking" /\ CL!IsCall /\ e \in CallItem /\ e \in slot3.during
    BY <1>0, <1>2 DEF CL!Found, FoundInv, Messages
  <1>4. ~slot3.moved => CL!Effective = slot3.found
    BY <1>2, <1>3, LookEnds
  <1>5. slot3.pc # "idle" => slot3.method \in CL!MethodsOf[slot1]
    BY MessageTypes
  <1>6. CASE CL!TaskWanted(e) /\ slot3' = [slot3 EXCEPT !.pc = "again", !.looks = 0, !.found = {}]
    <2>1. /\ slot3' \in Messages /\ slot3'.pc = "again"
          /\ slot3'.hooks = slot3.hooks /\ slot3'.ran = slot3.ran
          /\ slot3'.method = slot3.method /\ slot3'.looks = 0
          /\ slot3'.found = {} /\ slot3'.during = slot3.during
          /\ slot3'.moved = slot3.moved /\ slot3'.task = slot3.task
      BY <1>0, <1>6 DEF Messages, InHandler
    <2>2. slot3.task
      BY <1>6 DEF CL!TaskWanted
    <2>3. slot1 = "tools"
      BY <1>0, <1>3, <2>2, CallMethodsOf DEF FoundInv
    <2>4. HooksInv' /\ FoundInv' /\ RanInv' /\ AnswerInv'
      BY <1>0, <1>1, <1>3, <2>1, <2>2, <2>3, LayersSame DEF HooksInv, FoundInv, RanInv, AnswerInv,
         InHandler, CL!HooksPaired, CL!IsCall
    <2>5. UnmovedInv'
      BY <1>1, <1>2, <1>4, <2>1, LayersSame DEF UnmovedInv, CL!Passes
    <2> QED BY <1>0, <1>1, <1>3, <1>5, <2>1, <2>4, <2>5, MessageTypes, MessageMoves
  <1>7. CASE /\ ~CL!TaskWanted(e) /\ e.item.support # "required" /\ e.layer # "task"
             /\ slot3' = [slot3 EXCEPT !.pc = "running", !.ran = {e}]
    <2>1. /\ slot3' \in Messages /\ slot3'.pc = "running"
          /\ slot3'.hooks = slot3.hooks /\ slot3'.ran = {e}
          /\ slot3'.method = slot3.method /\ slot3'.looks = slot3.looks
          /\ slot3'.found = slot3.found /\ slot3'.during = slot3.during
          /\ slot3'.moved = slot3.moved /\ slot3'.task = slot3.task
      BY <1>0, <1>3, <1>7 DEF Messages, InHandler
    <2>2. HooksInv' /\ FoundInv' /\ RanInv' /\ AnswerInv'
      BY <1>0, <1>1, <1>2, <1>3, <1>7, <2>1, LayersSame DEF HooksInv, FoundInv, RanInv, AnswerInv,
         InHandler, CL!HooksPaired, CL!IsCall, CL!Passes
    <2>3. UnmovedInv'
      BY <1>1, <1>2, <1>4, <2>1, LayersSame DEF UnmovedInv, CL!Passes
    <2> QED BY <1>0, <1>1, <1>3, <1>5, <2>1, <2>2, <2>3, MessageTypes, MessageMoves
  <1> QED BY <1>2, <1>6, <1>7

LEMMA CallLooksAgain == ASSUME CallsInv, CL!LookAgain PROVE CallsInv'
  <1>0. /\ CallsTypes /\ HooksInv /\ FoundInv /\ UnmovedInv /\ RanInv /\ slot3 \in Messages
    BY DEF CallsInv, CallsTypes
  <1>1. PICK own : own = CL!In({"session"})
    OBVIOUS
  <1>2. PICK all : all = CL!In({"regular", "task"})
    OBVIOUS
  <1>3. PICK n : n = slot3.looks + 1
    OBVIOUS
  <1>4. PICK found : found = IF slot3.looks = 0 THEN all
                             ELSE IF own = {} THEN slot3.found ELSE own
    OBVIOUS
  <1>5. /\ UNCHANGED <<slot1, slot2, slot5, slot4, slot6, slot7, slot8>>
        /\ slot3.pc = "again" /\ slot3.looks < 2
        /\ slot3' = [slot3 EXCEPT !.looks = n, !.found = found]
    BY <1>0, <1>1, <1>2, <1>3, <1>4 DEF CL!LookAgain, Messages
  <1>6. /\ found \subseteq slot3.during /\ found \in SUBSET CallItem
        /\ \A e \in found, f \in found : e = f
    <2>1. /\ own \subseteq CL!There(slot2) /\ own \subseteq CallItem
          /\ \A e \in own, f \in own : e = f
      BY <1>0, <1>1, OneFound DEF LookAt
    <2>2. /\ all \subseteq CL!There(slot2) /\ all \subseteq CallItem
          /\ \A e \in all, f \in all : e = f
      BY <1>0, <1>2, OneFound DEF LookAt
    <2>3. /\ slot3.found \subseteq slot3.during /\ slot3.found \in SUBSET CallItem
          /\ \A e \in slot3.found, f \in slot3.found : e = f
          /\ CL!There(slot2) \subseteq slot3.during
      BY <1>0, <1>5 DEF FoundInv, Messages
    <2> QED BY <1>4, <2>1, <2>2, <2>3
  <1>7. slot3.looks \in Nat /\ n \in Nat /\ n \in {1, 2}
    BY <1>0, <1>3, <1>5 DEF Messages
  <1>8. /\ slot3' \in Messages /\ slot3'.pc = "again"
        /\ slot3'.hooks = slot3.hooks /\ slot3'.ran = slot3.ran
        /\ slot3'.method = slot3.method /\ slot3'.task = slot3.task
        /\ slot3'.looks = n /\ slot3'.found = found /\ slot3'.during = slot3.during
        /\ slot3'.moved = slot3.moved
    <2>1. slot3 \in Messages /\ n \in Nat /\ found \in SUBSET CallItem
          /\ slot3.pc = "again"
      BY <1>0, <1>5, <1>6, <1>7
    <2> QED BY <1>5, <2>1 DEF Messages
  <1>9. HooksInv' /\ RanInv' /\ AnswerInv'
    BY <1>0, <1>5, <1>8 DEF HooksInv, RanInv, AnswerInv, InHandler, CL!HooksPaired
  <1>10. FoundInv'
    BY <1>0, <1>5, <1>6, <1>8, LayersSame DEF FoundInv, CL!IsCall
  <1>11. UnmovedInv'
    <2>1. ASSUME ~slot3.moved
          PROVE  /\ n = 1 => found = CL!In({"regular", "task"})
                 /\ n = 2 => found = CL!Effective
      <3>1. n = 1 => slot3.looks = 0
        BY <1>3, <1>7
      <3>2. n = 2 => slot3.looks = 1
        BY <1>3, <1>7
      <3>3. n = 2 => slot3.found = all
        BY <1>0, <1>2, <1>5, <2>1, <3>2 DEF UnmovedInv
      <3>4. slot1 = "tools"
        BY <1>0, <1>5 DEF FoundInv
      <3> QED BY <1>1, <1>2, <1>4, <3>1, <3>2, <3>3, <3>4, EffectiveTool
    <2>2. ~slot3.moved => \E e \in CL!Effective : CL!Passes(e)
      BY <1>0, <1>5 DEF UnmovedInv
    <2> QED BY <1>5, <1>8, <2>1, <2>2, LayersSame DEF UnmovedInv, CL!Passes
  <1> QED BY <1>0, <1>5, <1>8, <1>9, <1>10, <1>11, MessageTypes, MessageMoves

\* What the second look found runs as a task, or is refused.
LEMMA CallStartsTask == ASSUME CallsInv, CL!StartTask PROVE CallsInv'
  <1>0. /\ CallsTypes /\ HooksInv /\ FoundInv /\ UnmovedInv /\ RanInv /\ slot3 \in Messages
    BY DEF CallsInv, CallsTypes
  <1>1. slot3.pc = "again" /\ slot3.looks = 2 /\ UNCHANGED slot4 /\ slot4 \in CallerSessions
    BY <1>0 DEF CL!StartTask, CallsTypes
  <1>2. CL!IsCall /\ slot3.task
    BY <1>0, <1>1 DEF FoundInv
  <1>3. ~slot3.moved => /\ slot3.found = CL!Effective /\ \E e \in CL!Effective : CL!Passes(e)
    BY <1>0, <1>1 DEF UnmovedInv
  <1>4. CASE CL!Return("failed") \/ CL!Return("refused")
    BY <1>1, <1>3, <1>4, CallReturns DEF InHandler, ReturnedOutcomes
  <1>5. CASE CL!Return("notFound") /\ slot3.found = {}
    <2>1. slot3.moved
      BY <1>0, <1>3, <1>5 DEF Messages
    <2> QED BY <1>1, <1>5, <2>1, CallReturns DEF InHandler, ReturnedOutcomes
  <1>6. CASE /\ \E e \in slot3.found : e.layer = "task" \/ e.item.support # "none"
             /\ slot3' = [slot3 EXCEPT !.pc = "answered", !.outcome = "task",
                              !.ran = slot3.found, !.hooks = @ \o CL!AfterHooks]
             /\ UNCHANGED <<slot1, slot2, slot5, slot6, slot7, slot8>>
    <2>1. slot3.hooks \o CL!AfterHooks = <<"before", "success">>
      <3>1. slot3.hooks = <<"before">>
        BY <1>0, <1>1 DEF HooksInv, InHandler
      <3> QED BY <3>1, HooksAfter
    <2>2. slot3' = [slot3 EXCEPT !.pc = "answered", !.outcome = "task",
                                    !.ran = slot3.found, !.hooks = <<"before", "success">>]
      BY <1>0, <1>6, <2>1
    <2>3. /\ slot3' \in Messages /\ slot3'.pc = "answered" /\ slot3'.outcome = "task"
          /\ slot3'.hooks = <<"before", "success">> /\ slot3'.ran = slot3.found
          /\ slot3'.method = slot3.method /\ slot3'.task = slot3.task
          /\ slot3'.found = slot3.found /\ slot3'.during = slot3.during
          /\ slot3'.moved = slot3.moved
      BY <1>0, <2>2 DEF Messages, HookRuns, ReturnedOutcomes
    <2>4. HooksInv' /\ FoundInv' /\ UnmovedInv' /\ RanInv'
      BY <1>0, <1>1, <1>6, <2>3, LayersSame DEF HooksInv, FoundInv, UnmovedInv, RanInv, InHandler,
         CL!HooksPaired
    <2>5. \A e \in slot3.found : e.layer = "task" \/ e.item.support # "none"
      BY <1>0, <1>6 DEF FoundInv
    <2>6. \A e \in slot3.found : e.layer = "task" \/ CL!TaskWanted(e)
      <3>1. \A e \in slot3.found : e.item \in CallItems
        BY <1>0 DEF Messages, CallItem, CL!Entries
      <3> QED BY <1>2, <2>5, <3>1, CallsAssumption DEF CallsAssumption, CL!TaskWanted
    <2>7. ~slot3.moved => \A e \in slot3.found : CL!Passes(e)
      BY <1>0, <1>3 DEF FoundInv
    <2>8. AnswerInv'
      BY <1>3, <1>6, <2>3, <2>6, <2>7, LayersSame DEF AnswerInv, CL!Passes, CL!IsCall, CL!TaskWanted
    <2> QED BY <1>0, <1>1, <1>6, <2>3, <2>4, <2>8, MessageTypes, MessageMoves
  <1> QED BY <1>4, <1>5, <1>6 DEF CL!StartTask

LEMMA CallRuns ==
  ASSUME CallsInv, slot3.pc = "running"
  PROVE  /\ CL!InvalidArguments => CallsInv'
         /\ CL!ToolReturns \/ CL!ResourceReturns \/ CL!PromptReturns => CallsInv'
         /\ CL!HandlerPanics => CallsInv'
  <1>0. /\ CallsTypes /\ HooksInv /\ FoundInv /\ UnmovedInv /\ RanInv /\ slot3 \in Messages
        /\ slot4 \in CallerSessions
    BY DEF CallsInv, CallsTypes
  <1>1. ~slot3.moved => \E e \in CL!Effective : CL!Passes(e)
    BY <1>0 DEF UnmovedInv
  <1>2. ASSUME CL!ToolReturns \/ CL!ResourceReturns \/ CL!PromptReturns PROVE CallsInv'
    <2>1. PICK outcome \in {"result", "toolError", "failed"} :
            CL!Return(outcome) /\ UNCHANGED slot4
      BY <1>2 DEF CL!ToolReturns, CL!ResourceReturns, CL!PromptReturns, CL!HandlerReturns
    <2> QED BY <1>0, <1>1, <2>1, CallReturns DEF InHandler, ReturnedOutcomes
  <1>3. ASSUME CL!HandlerPanics PROVE CallsInv'
    <2>1. UNCHANGED slot4
      BY <1>3 DEF CL!HandlerPanics
    <2>2. CASE CL!Return("failed")
      BY <1>0, <1>1, <2>1, <2>2, CallReturns DEF InHandler, ReturnedOutcomes
    <2>3. CASE /\ slot1 \notin slot5.recovery
               /\ slot3' = [slot3 EXCEPT !.pc = "panicked"]
               /\ UNCHANGED <<slot1, slot2, slot5, slot6, slot7, slot8>>
      <3>1. /\ slot3' \in Messages /\ slot3'.pc = "panicked"
            /\ slot3'.hooks = slot3.hooks /\ slot3'.ran = slot3.ran
            /\ slot3'.method = slot3.method /\ slot3'.task = slot3.task
            /\ slot3'.found = slot3.found /\ slot3'.during = slot3.during
            /\ slot3'.moved = slot3.moved
        BY <1>0, <2>3 DEF Messages
      <3>2. slot3.hooks = <<"before">>
        BY <1>0 DEF HooksInv, InHandler
      <3>3. HooksInv' /\ FoundInv' /\ UnmovedInv' /\ RanInv' /\ AnswerInv'
        BY <1>0, <2>3, <3>1, <3>2, LayersSame DEF HooksInv, FoundInv, UnmovedInv, RanInv, AnswerInv,
           InHandler, CL!HooksPaired
      <3> QED BY <1>0, <2>1, <2>3, <3>1, <3>3, MessageTypes, MessageMoves
    <2> QED BY <1>3, <2>2, <2>3 DEF CL!HandlerPanics
  <1>4. ASSUME CL!InvalidArguments PROVE CallsInv'
    <2>1. /\ UNCHANGED <<slot1, slot2, slot5, slot4, slot6, slot7, slot8>>
          /\ slot3' = [slot3 EXCEPT !.pc = "answered", !.outcome = "toolError", !.ran = {},
                                        !.hooks = @ \o CL!AfterHooks]
      BY <1>4 DEF CL!InvalidArguments
    <2>2. slot3.hooks \o CL!AfterHooks = <<"before", "success">>
      <3>1. slot3.hooks = <<"before">>
        BY <1>0 DEF HooksInv, InHandler
      <3> QED BY <3>1, HooksAfter
    <2>3. slot3' = [slot3 EXCEPT !.pc = "answered", !.outcome = "toolError", !.ran = {},
                                    !.hooks = <<"before", "success">>]
      BY <1>0, <2>1, <2>2
    <2>4. /\ slot3' \in Messages /\ slot3'.pc = "answered" /\ slot3'.outcome = "toolError"
          /\ slot3'.hooks = <<"before", "success">> /\ slot3'.ran = {}
          /\ slot3'.method = slot3.method /\ slot3'.task = slot3.task
          /\ slot3'.found = slot3.found /\ slot3'.during = slot3.during
          /\ slot3'.moved = slot3.moved
      BY <1>0, <2>3 DEF Messages, HookRuns, ReturnedOutcomes
    <2>5. HooksInv' /\ FoundInv' /\ UnmovedInv' /\ RanInv'
      BY <1>0, <2>1, <2>4, LayersSame DEF HooksInv, FoundInv, UnmovedInv, RanInv, InHandler,
         CL!HooksPaired
    <2>6. AnswerInv'
      BY <1>1, <2>1, <2>4, LayersSame DEF AnswerInv, CL!Passes
    <2> QED BY <1>0, <2>1, <2>4, <2>5, <2>6, MessageTypes, MessageMoves
  <1> QED BY <1>2, <1>3, <1>4

LEMMA CallsKept == CL!Spec => []CallsInv
  <1>1. CL!Init => CallsInv
    <2> SUFFICES ASSUME CL!Init PROVE CallsInv
      OBVIOUS
    <2>1. /\ slot3 = CL!NoMessage /\ slot3.pc = "idle" /\ slot3.hooks = <<>>
          /\ slot3.found = {} /\ slot3.ran = {} /\ slot3.during = {} /\ ~slot3.task
      BY DEF CL!Init, CL!NoMessage
    <2>2. slot3 \in Messages
      BY <2>1 DEF CL!NoMessage, Messages, HookRuns
    <2>3. slot6 \in [items : SUBSET CallItem, current : BOOLEAN] /\ ~slot6.current
      BY DEF CL!Init
    <2>4. slot5 \in [capabilities : SUBSET CL!Capabilities,
                       recovery : SUBSET {"tools", "resources"}]
      BY DEF CL!Init, CL!OptionSets, CL!Capabilities
    <2>5. slot2 \in [CL!LayersOf[slot1] -> {{}} \union {{item} : item \in CallItems}]
      BY DEF CL!Init, CL!ItemsOf
    <2>6. CallsTypes
      BY <2>1, <2>2, <2>3, <2>4, <2>5 DEF CL!Init, CallsTypes, CallerSessions
    <2> QED BY <2>1, <2>3, <2>6 DEF CallsInv, HooksInv, CL!HooksPaired, FoundInv, UnmovedInv, RanInv,
               AnswerInv, ListedInv, InHandler
  <1>2. CallsInv /\ [CL!Next]_CL!vars => CallsInv'
    <2> SUFFICES ASSUME CallsInv, [CL!Next]_CL!vars PROVE CallsInv'
      OBVIOUS
    <2>1. CASE UNCHANGED CL!vars
      <3>1. UNCHANGED <<slot1, slot2, slot5, slot4, slot3, slot6>>
        BY <2>1 DEF CL!vars
      <3>2. CallsTypes /\ HooksInv /\ FoundInv /\ UnmovedInv /\ RanInv /\ AnswerInv /\ ListedInv
        BY DEF CallsInv
      <3>3. CallsTypes' /\ HooksInv' /\ FoundInv'
        BY <3>1, <3>2, LayersSame DEF CallsTypes, HooksInv, FoundInv, CL!HooksPaired, CL!IsCall
      <3>4. UnmovedInv' /\ RanInv' /\ ListedInv'
        <4>1. UnmovedInv'
          BY <3>1, <3>2, LayersSame DEF UnmovedInv, CL!IsCall
        <4>2. RanInv'
          BY <3>1, <3>2, LayersSame DEF RanInv, CL!TaskWanted, CL!Passes
        <4>3. ListedInv'
          BY <3>1, <3>2, LayersSame DEF ListedInv, CL!Passes
        <4> QED BY <4>1, <4>2, <4>3
      <3>5. AnswerInv'
        BY <3>1, <3>2, LayersSame DEF AnswerInv, CL!IsCall, CL!Passes, CL!TaskWanted
      <3> QED BY <3>3, <3>4, <3>5 DEF CallsInv
    <2>2. CASE \E layer \in CL!LayersOf[slot1] :
                 \E them \in {{}} \union {{item} : item \in CL!ItemsOf(slot1)} :
                   CL!Change(layer, them)
      BY <2>2, CallChanges
    <2>3. CASE \E method \in CL!MethodsOf[slot1], isModern \in BOOLEAN, task \in BOOLEAN :
                 (task => method = "tools/call") /\ CL!Receive(method, isModern, task)
      BY <2>3, CallReceived
    <2>4. CASE CL!Reject
      BY <2>4, CallRefused DEF CL!Reject
    <2>5. CASE CL!DispatchAny
      BY <2>5, CallDispatched DEF CL!DispatchAny, CL!DispatchInitialize, CL!DispatchPing,
         CL!DispatchDiscover, CL!DispatchSubscriptionsListen, CL!DispatchSetLevel,
         CL!DispatchListResources, CL!DispatchListResourceTemplates, CL!DispatchReadResource,
         CL!DispatchSubscribe, CL!DispatchUnsubscribe, CL!DispatchListPrompts,
         CL!DispatchGetPrompt, CL!DispatchListTools, CL!DispatchCallTool, CL!DispatchGetTask,
         CL!DispatchListTasks, CL!DispatchTaskResult, CL!DispatchCancelTask, CL!DispatchComplete
    <2>6. CASE CL!ListTools \/ CL!ListResources \/ CL!ListResourceTemplates \/ CL!ListPrompts
      BY <2>6, CallLists DEF CL!ListTools, CL!ListResources, CL!ListResourceTemplates, CL!ListPrompts
    <2>7. CASE CL!LookForTool \/ CL!LookForResource \/ CL!LookForPrompt
      BY <2>7, CallLooks DEF CL!LookForTool, CL!LookForResource, CL!LookForPrompt
    <2>8. CASE CL!InvalidArguments \/ CL!ToolReturns \/ CL!ResourceReturns \/ CL!PromptReturns
               \/ CL!HandlerPanics
      <3>1. slot3.pc = "running"
        BY <2>8 DEF CL!InvalidArguments, CL!ToolReturns, CL!ResourceReturns, CL!PromptReturns,
           CL!HandlerReturns, CL!HandlerPanics, CL!At
      <3> QED BY <2>8, <3>1, CallRuns
    <2> QED BY <2>1, <2>2, <2>3, <2>4, <2>5, <2>6, <2>7, <2>8, CallAccepted, CallHandled,
               CallBegins, CallListed, CallEnds, CallProceeds, CallLooksAgain, CallStartsTask
           DEF CL!Next
  <1> QED BY <1>1, <1>2, PTL DEF CL!Spec

\* What a call runs is what the lists show and the filters let pass, and hooks come in
\* pairs, however the items of a name change while it is served
\* (server/request_handler.go, server/server.go, server/hooks.go).
THEOREM CallsServed == CL!Spec => []CL!Served
  <1>1. CallsInv => CL!Served
    <2> SUFFICES ASSUME CallsInv PROVE CL!Served
      OBVIOUS
    <2>1. /\ HooksInv /\ FoundInv /\ AnswerInv /\ ListedInv /\ CallsTypes
      BY DEF CallsInv
    <2>2. ASSUME slot3.pc = "answered", CL!IsCall, slot6.current, slot1 # "resources"
          PROVE  IF slot6.items = {} THEN slot3.ran = {}
                 ELSE slot3.outcome # "notFound" /\ slot3.ran \subseteq slot6.items
      <3>1. slot1 # "others"
        BY <2>1, <2>2, CallMethodsOf
      <3>2. slot6.items = {e \in CL!Effective : CL!Passes(e)} /\ ~slot3.moved
        BY <2>1, <2>2, <3>1 DEF ListedInv, CallsTypes
      <3>3. /\ slot3.ran \subseteq CL!Effective /\ \A e \in slot3.ran : CL!Passes(e)
            /\ slot3.outcome = "notFound" => \A e \in CL!Effective : ~CL!Passes(e)
        BY <2>1, <2>2, <3>2 DEF AnswerInv
      <3> QED BY <3>2, <3>3
    <2>3. CL!CallsAsListed
      BY <2>1, <2>2 DEF FoundInv, AnswerInv, CL!CallsAsListed
    <2> QED BY <2>1, <2>3 DEF HooksInv, CL!Served
  <1> QED BY <1>1, CallsKept, PTL

LEMMA CallsTyped == CL!Spec => []CL!TypeOK
  <1>1. CallsInv => CL!TypeOK
    <2> SUFFICES ASSUME CallsInv PROVE CL!TypeOK
      OBVIOUS
    <2>1. CallsTypes /\ FoundInv
      BY DEF CallsInv
    <2>2. slot2 \in [CL!LayersOf[slot1] -> SUBSET CallItems]
      BY <2>1 DEF CallsTypes
    <2>3. ASSUME NEW l \in CL!LayersOf[slot1] PROVE CL!Cardinality(slot2[l]) <= 1
      <3>1. slot2[l] = {} \/ \E item \in CallItems : slot2[l] = {item}
        BY <2>1 DEF CallsTypes
      <3>2. Cardinality({}) = 0 /\ \A item : Cardinality({item}) = 1
        BY FS_EmptySet, FS_Singleton
      <3>3. CL!Cardinality(slot2[l]) = Cardinality(slot2[l])
        BY DEF CL!Cardinality, Cardinality
      <3>4. Cardinality(slot2[l]) = 0 \/ Cardinality(slot2[l]) = 1
        BY <3>1, <3>2
      <3> QED BY <3>3, <3>4
    <2>4. slot5.capabilities \subseteq CL!Capabilities
      BY <2>1 DEF CallsTypes
    <2>5. slot4 \in CallerSessions
      BY <2>1 DEF CallsTypes
    <2>6. slot3.found \subseteq CallItem /\ slot3.ran \subseteq slot3.during
      BY <2>1 DEF CallsTypes, Messages, FoundInv
    <2>7. slot6.items \subseteq CallItem
      BY <2>1 DEF CallsTypes
    <2> QED BY <2>2, <2>3, <2>4, <2>5, <2>6, <2>7 DEF CL!TypeOK, CallerSessions, CallItem
  <1> QED BY <1>1, CallsKept, PTL

-----------------------------------------------------------------------------
(* Subscriptions: slot1 is the call whose stream `cancel' ends, slot2 its    *)
(* generation, slot3 the calls of Listen, slot4 the server's side of each,   *)
(* slot5 what the broadcasting goroutines are doing; slot6 counts.           *)
Content(l) == SB!Allowed(slot3[l].filter) \union {"acknowledged", "response"}

ListenRecord == [pc : {"idle", "opening", "open", "returning", "returned"},
                 filter : SUBSET Topics, generation : Nat, cancelled : BOOLEAN]
CasterRecord == [pc : {"idle", "ranging", "sending", "over"}, topic : Topics \union {None},
                 visited : SUBSET Listens, target : Listens \union {None},
                 owed : SUBSET Listens]

SubscriptionTypes ==
  /\ slot3 \in [Listens -> ListenRecord]
  /\ slot2 \in Nat /\ slot1 \in Listens \union {None}
  /\ slot5 \in [Casters -> CasterRecord]

\* Each call has a number of its own, and the one that owns the stream, which
\* alone may be wanted, the last.
OneOwner ==
  /\ \A l \in Listens : slot3[l].pc # "idle" => slot3[l].generation <= slot2
  /\ \A l, m \in Listens :
       /\ slot3[l].pc # "idle" /\ slot3[m].pc # "idle"
       /\ slot3[l].generation = slot3[m].generation
       => l = m
  /\ slot1 # None => /\ slot3[slot1].pc \in {"opening", "open", "returning"}
                     /\ slot3[slot1].generation = slot2
  /\ \A l \in Listens : slot3[l].pc \in {"opening", "open"} /\ ~slot3[l].cancelled => slot1 = l

StreamRecord(l) ==
  [pc : {"none", "registered", "recorded", "holding", "leaving", "cleared", "unregistered",
         "closed"},
   filter : SUBSET SB!Allowed(slot3[l].filter), queue : Seq(Content(l)),
   written : Seq(Content(l))]

\* A stream has the filter it acknowledges, from before it does until it leaves,
\* and what passed it.
Filtered ==
  /\ slot4 = [l \in Listens |-> slot4[l]]
  /\ \A l \in Listens :
       /\ slot4[l] \in StreamRecord(l)
       /\ slot3[l].pc \in {"idle", "opening"} => slot4[l].pc = "none"
       /\ slot4[l].pc \in {"none", "registered"} =>
            slot4[l].filter = {} /\ slot4[l].queue = <<>> /\ slot4[l].written = <<>>
       /\ slot4[l].pc \in {"recorded", "holding"} =>
            slot4[l].filter = SB!Allowed(slot3[l].filter)

\* A broadcast goes to streams that let it pass, and owes those it still has to
\* come to.
Owes(b, l) ==
  /\ slot4[l].pc \notin {"none", "registered", "recorded"}
  /\ slot4[l].pc = "holding" =>
       /\ slot5[b].pc \in {"ranging", "sending"} /\ slot5[b].topic \in slot4[l].filter
       /\ l \in slot5[b].visited => slot5[b].pc = "sending" /\ slot5[b].target = l
Casting ==
  \A b \in Casters :
    /\ slot5[b].pc = "sending" =>
         /\ slot5[b].target \in Listens
         /\ slot4[slot5[b].target].pc \notin {"none", "registered"}
         /\ slot5[b].topic \in SB!Allowed(slot3[slot5[b].target].filter)
    /\ \A l \in slot5[b].owed : Owes(b, l)

SubscriptionInv == SubscriptionTypes /\ OneOwner /\ Filtered /\ Casting

\* What the client does leaves the streams and the broadcasts as they are.
LEMMA ClientStep ==
  ASSUME SubscriptionInv, UNCHANGED <<slot4, slot5>>,
         \A m \in Listens :
           /\ slot3[m].pc # "idle" => slot3'[m].filter = slot3[m].filter
           /\ slot3'[m].pc \in {"idle", "opening"} => slot3[m].pc \in {"idle", "opening"}
  PROVE  Filtered' /\ Casting'
  <1>0. Filtered /\ Casting
    BY DEF SubscriptionInv
  <1>1. ASSUME NEW l \in Listens
        PROVE  /\ slot4[l] \in StreamRecord(l)'
               /\ slot3'[l].pc \in {"idle", "opening"} => slot4[l].pc = "none"
               /\ slot4[l].pc \in {"recorded", "holding"} =>
                    slot4[l].filter = SB!Allowed(slot3'[l].filter)
    <2>1. CASE slot3[l].pc # "idle"
      BY <2>1, <1>0 DEF Filtered, StreamRecord, Content
    <2>2. CASE slot3[l].pc = "idle"
      <3>1. /\ slot4[l] \in StreamRecord(l) /\ slot4[l].pc = "none"
            /\ slot4[l].filter = {} /\ slot4[l].queue = <<>> /\ slot4[l].written = <<>>
        BY <2>2, <1>0 DEF Filtered
      <3>2. <<>> \in Seq(Content(l)')
        BY EmptySeq
      <3> QED BY <3>1, <3>2 DEF StreamRecord
    <2> QED BY <2>1, <2>2
  <1>2. Filtered'
    BY <1>0, <1>1 DEF Filtered
  <1>3. \A l \in Listens : slot3[l].pc = "idle" => slot4[l].pc = "none"
    BY <1>0 DEF Filtered
  <1>4. Casting'
    <2>1. \A b \in Casters, l \in Listens : Owes(b, l) => Owes(b, l)'
      BY DEF Owes
    <2>2. ASSUME NEW b \in Casters, slot5[b].pc = "sending"
          PROVE  /\ slot5[b].target \in Listens
                 /\ slot4[slot5[b].target].pc \notin {"none", "registered"}
                 /\ slot5[b].topic \in SB!Allowed(slot3'[slot5[b].target].filter)
      <3>1. /\ slot5[b].target \in Listens
            /\ slot4[slot5[b].target].pc \notin {"none", "registered"}
            /\ slot5[b].topic \in SB!Allowed(slot3[slot5[b].target].filter)
        BY <2>2, <1>0 DEF Casting
      <3>2. slot3'[slot5[b].target].filter = slot3[slot5[b].target].filter
        BY <3>1, <1>3
      <3> QED BY <3>1, <3>2
    <2>3. \A b \in Casters : \A l \in slot5[b].owed : l \in Listens /\ Owes(b, l)
      BY <1>0 DEF Casting, SubscriptionInv, SubscriptionTypes, CasterRecord
    <2> QED BY <2>1, <2>2, <2>3 DEF Casting
  <1> QED BY <1>2, <1>4

\* A stream goes on, and keeps its filter until it leaves.
LEMMA ServerStep ==
  ASSUME SubscriptionInv, UNCHANGED <<slot1, slot2, slot5>>,
         NEW l \in Listens, NEW next \in StreamRecord(l),
         slot4' = [slot4 EXCEPT ![l] = next],
         \A m \in Listens : slot3'[m].filter = slot3[m].filter,
         \A m \in Listens : slot3'[m].pc \in {"idle", "opening"} =>
                              slot3[m].pc \in {"idle", "opening"} /\ m # l,
         next.pc = "registered" =>
           next.filter = {} /\ next.queue = <<>> /\ next.written = <<>>,
         next.pc \in {"recorded", "holding"} => next.filter = SB!Allowed(slot3[l].filter),
         next.pc # "none" /\ (next.pc = "registered" => slot4[l].pc = "none"),
         next.pc = "recorded" => slot4[l].pc \in {"registered", "recorded"},
         next.pc = "holding" => slot4[l].pc \in {"recorded", "holding"}
  PROVE  Filtered' /\ Casting'
  <1>0. Filtered /\ Casting
    BY DEF SubscriptionInv
  <1>1. slot4'[l] = next /\ \A m \in Listens : m # l => slot4'[m] = slot4[m]
    BY <1>0 DEF Filtered
  <1>2. Filtered'
    <2>1. slot4' = [m \in Listens |-> slot4'[m]]
      BY <1>0 DEF Filtered
    <2>2. ASSUME NEW m \in Listens PROVE slot4'[m] \in StreamRecord(m)'
      BY <1>0, <1>1 DEF Filtered, StreamRecord, Content
    <2> QED BY <2>1, <2>2, <1>0, <1>1 DEF Filtered
  <1>3. ASSUME NEW b \in Casters, NEW m \in Listens, Owes(b, m) PROVE Owes(b, m)'
    <2>1. CASE m # l
      BY <2>1, <1>1, <1>3 DEF Owes
    <2>2. CASE m = l
      <3>1. slot4[l].pc \notin {"none", "registered", "recorded"}
        BY <2>2, <1>3 DEF Owes
      <3>2. next.pc = "holding" => slot4[l].pc = "holding" /\ next.filter = slot4[l].filter
        BY <3>1, <1>0 DEF Filtered
      <3> QED BY <2>2, <3>1, <3>2, <1>1, <1>3 DEF Owes
    <2> QED BY <2>1, <2>2
  <1>4. \A b \in Casters : \A m \in slot5[b].owed : m \in Listens
    BY DEF SubscriptionInv, SubscriptionTypes, CasterRecord
  <1>5. Casting'
    BY <1>0, <1>1, <1>3, <1>4 DEF Casting
  <1> QED BY <1>2, <1>5

\* What reaches a stream by way of its queue.
LEMMA QueueFacts ==
  ASSUME Filtered, NEW l \in Listens
  PROVE  /\ slot4[l] \in StreamRecord(l)
         /\ \A e \in Content(l) : Append(slot4[l].queue, e) \in Seq(Content(l))
         /\ slot4[l].queue # <<>> =>
              /\ Tail(slot4[l].queue) \in Seq(Content(l))
              /\ Append(slot4[l].written, Head(slot4[l].queue)) \in Seq(Content(l))
         /\ slot4[l].written \o slot4[l].queue \o <<"response">> \in Seq(Content(l))
         /\ <<>> \in Seq(Content(l))
  <1>1. /\ slot4[l] \in StreamRecord(l)
        /\ slot4[l].queue \in Seq(Content(l)) /\ slot4[l].written \in Seq(Content(l))
    BY DEF Filtered, StreamRecord
  <1>2. \A e \in Content(l) : /\ Append(slot4[l].queue, e) \in Seq(Content(l))
                              /\ Append(slot4[l].written, e) \in Seq(Content(l))
    BY <1>1, AppendProperties
  <1>3. slot4[l].queue # <<>> => /\ Head(slot4[l].queue) \in Content(l)
                                 /\ Tail(slot4[l].queue) \in Seq(Content(l))
    BY <1>1, HeadTailProperties
  <1>4. slot4[l].written \o slot4[l].queue \in Seq(Content(l))
    BY <1>1, ConcatProperties
  <1>5. <<"response">> \in Seq(Content(l))
    <2>1. "response" \in Content(l)
      BY DEF Content
    <2> QED BY <2>1
  <1>6. (slot4[l].written \o slot4[l].queue) \o <<"response">> \in Seq(Content(l))
    BY <1>4, <1>5, ConcatProperties
  <1> QED BY <1>1, <1>2, <1>3, <1>6, EmptySeq


LEMMA StillFiltered == Filtered /\ UNCHANGED <<slot3, slot4>> => Filtered'
  <1> SUFFICES ASSUME Filtered, UNCHANGED <<slot3, slot4>> PROVE Filtered'
    OBVIOUS
  <1>1. \A l \in Listens : StreamRecord(l)' = StreamRecord(l)
    BY DEF StreamRecord, Content
  <1> QED BY <1>1 DEF Filtered

LEMMA SubscriptionStep == SubscriptionInv /\ [SB!Next]_SB!vars => SubscriptionInv'
  <1> SUFFICES ASSUME SubscriptionInv, [SB!Next]_SB!vars PROVE SubscriptionInv'
    OBVIOUS
  <1>0. SubscriptionTypes /\ OneOwner /\ Filtered /\ Casting
    BY DEF SubscriptionInv
  <1>n. None \notin Listens
    BY SubscriptionsAssumption DEF SubscriptionsAssumption
  <1>1. ASSUME NEW l \in Listens, NEW wanted \in SUBSET Topics, SB!Listen(l, wanted)
        PROVE  SubscriptionInv'
    <2>1. /\ slot3[l].pc = "idle" /\ slot2' = slot2 + 1 /\ slot1' = l
          /\ UNCHANGED <<slot4, slot5>>
      BY <1>1 DEF SB!Listen
    <2>2. PICK L : /\ L = SB!Cancel(slot3, slot1)
                   /\ slot3' = [L EXCEPT ![l].pc = "opening", ![l].filter = wanted,
                                          ![l].generation = slot2 + 1]
      BY <1>1 DEF SB!Listen
    <2>3. /\ L \in [Listens -> ListenRecord]
          /\ \A m \in Listens :
               /\ L[m].pc = slot3[m].pc /\ L[m].filter = slot3[m].filter
               /\ L[m].generation = slot3[m].generation
               /\ L[m].cancelled = (slot3[m].cancelled \/ m = slot1)
      BY <2>2, <1>0 DEF SB!Cancel, SubscriptionTypes, ListenRecord
    <2>4. slot2 + 1 \in Nat
      BY <1>0 DEF SubscriptionTypes
    <2>5. slot3' \in [Listens -> ListenRecord]
      <3> DEFINE next == [L[l] EXCEPT !.pc = "opening", !.filter = wanted,
                                      !.generation = slot2 + 1]
      <3>1. slot3' = [L EXCEPT ![l] = next]
        BY <2>2, <2>3
      <3>2. L[l] \in ListenRecord
        BY <2>3
      <3>3. next \in ListenRecord
        BY <3>2, <2>4 DEF ListenRecord
      <3> HIDE DEF next
      <3> QED BY <3>1, <3>3, <2>3
    <2>6. /\ slot3'[l].pc = "opening" /\ slot3'[l].generation = slot2 + 1
          /\ \A m \in Listens : m # l => slot3'[m] = L[m]
      BY <2>2, <2>3 DEF ListenRecord
    <2>7. SubscriptionTypes'
      BY <2>1, <2>4, <2>5, <1>0 DEF SubscriptionTypes
    <2>8. OneOwner'
      <3>1. \A m \in Listens : m # l /\ slot3'[m].pc # "idle" =>
              slot3'[m].generation <= slot2 /\ slot3'[m].generation \in Nat
        BY <2>3, <2>6, <1>0 DEF OneOwner, ListenRecord
      <3>2. slot2 \in Nat
        BY <1>0 DEF SubscriptionTypes
      <3>3. \A m \in Listens : m # l /\ slot3'[m].pc # "idle" =>
              slot3'[m].generation <= slot2' /\ slot3'[m].generation # slot2 + 1
        BY <3>1, <3>2, <2>1
      <3>4. \A m \in Listens : m # l /\ slot3'[m].pc \in {"opening", "open"} =>
              slot3'[m].cancelled
        <4>1. \A m \in Listens : slot3[m].pc \in {"opening", "open"} /\ ~slot3[m].cancelled
                                    => slot1 = m
          BY <1>0 DEF OneOwner
        <4> QED BY <2>3, <2>6, <4>1
      <3>5. \A m \in Listens : m # l => slot3'[m].pc = slot3[m].pc
                                        /\ slot3'[m].generation = slot3[m].generation
        BY <2>3, <2>6
      <3>6. slot2 + 1 <= slot2'
        BY <3>2, <2>1
      <3> QED BY <3>3, <3>4, <3>5, <3>6, <2>1, <2>6, <1>0 DEF OneOwner
    <2>9. Filtered' /\ Casting'
      BY <2>1, <2>3, <2>6, ClientStep
    <2> QED BY <2>7, <2>8, <2>9 DEF SubscriptionInv
  <1>2. ASSUME NEW l \in Listens, SB!Stop(l) \/ SB!Ended(l) PROVE SubscriptionInv'
    <2>1. /\ UNCHANGED <<slot1, slot2, slot4, slot5>>
          /\ slot3[l].pc \in {"opening", "open"}
          /\ \/ slot3' = [slot3 EXCEPT ![l].cancelled = TRUE]
             \/ slot3' = [slot3 EXCEPT ![l].pc = "returning"]
      BY <1>2, <1>0 DEF SB!Stop, SB!Ended, SB!Cancel, SubscriptionTypes
    <2>2. /\ slot3' \in [Listens -> ListenRecord]
          /\ \A m \in Listens : /\ slot3'[m].filter = slot3[m].filter
                                /\ slot3'[m].generation = slot3[m].generation
                                /\ slot3[m].cancelled => slot3'[m].cancelled
                                /\ \/ slot3'[m].pc = slot3[m].pc
                                   \/ m = l /\ slot3'[m].pc = "returning"
      <3>1. CASE slot3' = [slot3 EXCEPT ![l].cancelled = TRUE]
        BY <3>1, <1>0 DEF SubscriptionTypes, ListenRecord
      <3>2. CASE slot3' = [slot3 EXCEPT ![l].pc = "returning"]
        BY <3>2, <1>0 DEF SubscriptionTypes, ListenRecord
      <3> QED BY <2>1, <3>1, <3>2
    <2>3. SubscriptionTypes' /\ OneOwner'
      BY <2>1, <2>2, <1>0 DEF SubscriptionTypes, OneOwner
    <2>4. Filtered' /\ Casting'
      BY <2>1, <2>2, ClientStep
    <2> QED BY <2>3, <2>4 DEF SubscriptionInv
  <1>3. ASSUME NEW l \in Listens, SB!Return(l) PROVE SubscriptionInv'
    <2>1. /\ UNCHANGED <<slot2, slot4, slot5>> /\ slot3[l].pc = "returning"
          /\ slot1' = (IF slot2 = slot3[l].generation THEN None ELSE slot1)
          /\ slot3' = [slot3 EXCEPT ![l].pc = "returned"]
      BY <1>3 DEF SB!Return
    <2>2. /\ slot3' \in [Listens -> ListenRecord]
          /\ \A m \in Listens : /\ slot3'[m].filter = slot3[m].filter
                                /\ slot3'[m].generation = slot3[m].generation
                                /\ slot3'[m].cancelled = slot3[m].cancelled
                                /\ m # l => slot3'[m].pc = slot3[m].pc
          /\ slot3'[l].pc = "returned"
      BY <2>1, <1>0 DEF SubscriptionTypes, ListenRecord
    <2>3. SubscriptionTypes'
      BY <2>1, <2>2, <1>0 DEF SubscriptionTypes
    <2>4. slot1' # None => slot1' # l
      BY <2>1, <1>0 DEF OneOwner
    <2>5. ASSUME NEW m \in Listens, slot3'[m].pc \in {"opening", "open"}, ~slot3'[m].cancelled
          PROVE  slot1' = m
      <3>1. m # l /\ slot1 = m
        BY <2>2, <2>5, <1>0 DEF OneOwner
      <3>2. slot3[m].generation = slot2 /\ slot3[m].pc # "idle"
        BY <3>1, <2>2, <2>5, <1>0, <1>n DEF OneOwner
      <3>3. slot3[l].generation # slot2
        BY <3>1, <3>2, <2>1, <1>0 DEF OneOwner
      <3> QED BY <3>1, <3>3, <2>1
    <2>6. OneOwner'
      <3>1. slot1' # None => slot1' = slot1 /\ slot1 \in Listens
        BY <2>1, <1>0 DEF SubscriptionTypes
      <3> QED BY <3>1, <2>1, <2>2, <2>4, <2>5, <1>0 DEF OneOwner
    <2>7. Filtered' /\ Casting'
      BY <2>1, <2>2, ClientStep
    <2> QED BY <2>3, <2>6, <2>7 DEF SubscriptionInv
  <1>4. ASSUME NEW l \in Listens, SB!Post(l) PROVE SubscriptionInv'
    <2>1. /\ UNCHANGED <<slot1, slot2, slot5>>
          /\ slot3[l].pc = "opening" /\ slot3' = [slot3 EXCEPT ![l].pc = "open"]
          /\ slot4' = [slot4 EXCEPT ![l] = [slot4[l] EXCEPT !.pc = "registered"]]
      BY <1>4, <1>0 DEF SB!Post, Filtered
    <2>2. /\ slot3' \in [Listens -> ListenRecord]
          /\ \A m \in Listens : /\ slot3'[m].filter = slot3[m].filter
                                /\ slot3'[m].generation = slot3[m].generation
                                /\ slot3'[m].cancelled = slot3[m].cancelled
                                /\ m # l => slot3'[m].pc = slot3[m].pc
          /\ slot3'[l].pc = "open"
      BY <2>1, <1>0 DEF SubscriptionTypes, ListenRecord
    <2>3. SubscriptionTypes' /\ OneOwner'
      BY <2>1, <2>2, <1>0 DEF SubscriptionTypes, OneOwner
    <2>4. PICK next : next = [slot4[l] EXCEPT !.pc = "registered"]
      OBVIOUS
    <2>5. /\ next \in StreamRecord(l) /\ next.pc = "registered" /\ next.filter = {}
          /\ next.queue = <<>> /\ next.written = <<>> /\ slot4[l].pc = "none"
      BY <2>1, <2>4, <1>0 DEF Filtered, StreamRecord
    <2>6. Filtered' /\ Casting'
      BY <2>1, <2>2, <2>4, <2>5, ServerStep
    <2> QED BY <2>3, <2>6 DEF SubscriptionInv
  <1>5. ASSUME NEW l \in Listens,
               \/ SB!Record(l) \/ SB!Acknowledge(l) \/ SB!Disconnected(l) \/ SB!Clear(l)
               \/ SB!Unregister(l) \/ SB!Forward(l) \/ SB!Respond(l)
        PROVE  SubscriptionInv'
    <2>1. UNCHANGED <<slot1, slot2, slot3, slot5>>
      BY <1>5 DEF SB!Record, SB!Acknowledge, SB!Disconnected, SB!Clear, SB!Unregister,
                  SB!Forward, SB!Respond, SB!Serving
    <2>q. /\ slot4[l] \in StreamRecord(l)
          /\ \A e \in Content(l) : Append(slot4[l].queue, e) \in Seq(Content(l))
          /\ slot4[l].queue # <<>> =>
               /\ Tail(slot4[l].queue) \in Seq(Content(l))
               /\ Append(slot4[l].written, Head(slot4[l].queue)) \in Seq(Content(l))
          /\ slot4[l].written \o slot4[l].queue \o <<"response">> \in Seq(Content(l))
          /\ <<>> \in Seq(Content(l)) /\ "acknowledged" \in Content(l)
      BY <1>0, QueueFacts DEF Content
    <2> DEFINE New(next) ==
          /\ next \in StreamRecord(l) /\ next.pc \notin {"none", "registered"}
          /\ next.pc \in {"recorded", "holding"} => next.filter = SB!Allowed(slot3[l].filter)
          /\ next.pc = "recorded" => slot4[l].pc \in {"registered", "recorded"}
          /\ next.pc = "holding" => slot4[l].pc \in {"recorded", "holding"}
    <2>2. ASSUME NEW next, New(next), slot4' = [slot4 EXCEPT ![l] = next],
                 slot4[l].pc # "none"
          PROVE  SubscriptionInv'
      <3>1. slot3[l].pc \notin {"idle", "opening"}
        BY <2>2, <1>0 DEF Filtered
      <3>2. Filtered' /\ Casting'
        BY <2>1, <2>2, <3>1, ServerStep
      <3>3. SubscriptionTypes' /\ OneOwner'
        BY <2>1, <1>0 DEF SubscriptionTypes, OneOwner
      <3> QED BY <3>2, <3>3 DEF SubscriptionInv
    <2>3. CASE SB!Record(l)
      <3> DEFINE n == [slot4[l] EXCEPT !.pc = "recorded",
                                        !.filter = SB!Allowed(slot3[l].filter)]
      <3>1. slot4' = [slot4 EXCEPT ![l] = n] /\ slot4[l].pc = "registered"
        BY <2>3, <1>0 DEF SB!Record, SB!Serving, Filtered
      <3>2. New(n)
        BY <2>q, <3>1 DEF StreamRecord
      <3> QED BY <2>2, <3>1, <3>2
    <2>4. CASE SB!Acknowledge(l)
      <3>1. PICK at \in {"holding", "leaving"}, queue \in Seq(Content(l)) :
              /\ slot4' = [slot4 EXCEPT ![l] = [slot4[l] EXCEPT !.pc = at, !.queue = queue]]
              /\ slot4[l].pc = "recorded"
        <4>1. PICK at \in {"holding", "leaving"},
                   queue \in {slot4[l].queue, Append(slot4[l].queue, "acknowledged")} :
                slot4' = [slot4 EXCEPT ![l] = [slot4[l] EXCEPT !.pc = at, !.queue = queue]]
          BY <2>4, <1>0 DEF SB!Acknowledge, Filtered
        <4>2. slot4[l].pc = "recorded" /\ slot4[l].queue \in Seq(Content(l))
          BY <2>4, <2>q DEF SB!Acknowledge, SB!Serving, StreamRecord
        <4>3. Append(slot4[l].queue, "acknowledged") \in Seq(Content(l))
          BY <2>q
        <4> QED BY <4>1, <4>2, <4>3
      <3> DEFINE n == [slot4[l] EXCEPT !.pc = at, !.queue = queue]
      <3>2. New(n)
        BY <2>q, <3>1, <1>0 DEF StreamRecord, Filtered
      <3> QED BY <2>2, <3>1, <3>2
    <2>5. CASE SB!Disconnected(l) \/ SB!Clear(l) \/ SB!Unregister(l)
      <3>1. slot4[l].pc # "none" /\ DOMAIN slot4 = Listens
        BY <2>5, <1>0 DEF SB!Disconnected, SB!Clear, SB!Unregister, SB!Serving, Filtered
      <3>2. ASSUME NEW at \in {"leaving", "unregistered"}, slot4' = [slot4 EXCEPT ![l].pc = at]
            PROVE  SubscriptionInv'
        <4> DEFINE n == [slot4[l] EXCEPT !.pc = at]
        <4>1. New(n)
          BY <2>q DEF StreamRecord
        <4>2. slot4' = [slot4 EXCEPT ![l] = n]
          BY <3>2
        <4> QED BY <2>2, <3>1, <4>1, <4>2
      <3>3. CASE SB!Clear(l)
        <4> DEFINE n == [slot4[l] EXCEPT !.pc = "cleared", !.filter = {}]
        <4>1. New(n)
          BY <2>q DEF StreamRecord
        <4>2. slot4' = [slot4 EXCEPT ![l] = n]
          BY <2>q, <3>1, <3>3 DEF SB!Clear, StreamRecord
        <4> QED BY <2>2, <3>1, <4>1, <4>2
      <3> QED BY <2>5, <3>2, <3>3 DEF SB!Disconnected, SB!Unregister
    <2>6. CASE SB!Forward(l)
      <3> DEFINE n == [slot4[l] EXCEPT !.queue = Tail(slot4[l].queue),
                         !.written = Append(slot4[l].written, Head(slot4[l].queue))]
      <3>1. /\ slot4' = [slot4 EXCEPT ![l] = n] /\ slot4[l].pc # "none"
            /\ slot4[l].queue # <<>>
        BY <2>6, <1>0 DEF SB!Forward, Filtered
      <3>2. slot4[l].pc # "registered"
        BY <3>1, <1>0 DEF Filtered
      <3>3. New(n)
        BY <2>q, <3>1, <3>2, <1>0 DEF StreamRecord, Filtered
      <3> QED BY <2>2, <3>1, <3>3
    <2>7. CASE SB!Respond(l)
      <3> DEFINE n == [slot4[l] EXCEPT !.pc = "closed", !.queue = <<>>,
                         !.written = slot4[l].written \o slot4[l].queue \o <<"response">>]
      <3>1. slot4' = [slot4 EXCEPT ![l] = n] /\ slot4[l].pc = "unregistered"
        BY <2>7, <1>0 DEF SB!Respond, SB!Serving, Filtered
      <3>2. New(n)
        BY <2>q, <3>1 DEF StreamRecord
      <3> QED BY <2>2, <3>1, <3>2
    <2> QED BY <1>5, <2>3, <2>4, <2>5, <2>6, <2>7
  <1>6. ASSUME NEW b \in Casters, NEW l \in Listens, SB!SendTo(b, l) PROVE SubscriptionInv'
    <2>1. /\ UNCHANGED <<slot1, slot2, slot3>>
          /\ slot5[b].pc = "sending" /\ slot5[b].target = l
          /\ slot5' = [slot5 EXCEPT ![b].pc = "ranging", ![b].target = None,
                                      ![b].owed = slot5[b].owed \ {l}]
      BY <1>6, <1>0 DEF SB!SendTo, SubscriptionTypes
    <2>2. slot5[b].topic \in Content(l) /\ slot4[l].pc \notin {"none", "registered"}
      BY <2>1, <1>0 DEF Casting, Content
    <2>3. /\ slot4[l] \in StreamRecord(l)
          /\ Append(slot4[l].queue, slot5[b].topic) \in Seq(Content(l))
      BY <2>2, <1>0, QueueFacts
    <2>4. PICK queue \in Seq(Content(l)) :
            slot4' = [slot4 EXCEPT ![l] = [slot4[l] EXCEPT !.queue = queue]]
      <3> DEFINE With(q) == [slot4 EXCEPT ![l] = [slot4[l] EXCEPT !.queue = q]]
      <3>1. CASE SB!Room(l)
        <4>1. slot4' = With(Append(slot4[l].queue, slot5[b].topic))
          BY <1>6, <3>1, <1>0 DEF SB!SendTo, Filtered
        <4> QED BY <4>1, <2>3
      <3>2. CASE ~SB!Room(l)
        <4>1. slot4[l].queue \in Seq(Content(l))
          BY <2>3 DEF StreamRecord
        <4>2. slot4' = slot4 /\ [slot4[l] EXCEPT !.queue = slot4[l].queue] = slot4[l]
          BY <1>6, <3>2, <2>3 DEF SB!SendTo, StreamRecord
        <4>3. [slot4 EXCEPT ![l] = slot4[l]] = slot4
          BY <1>0 DEF Filtered
        <4>4. slot4' = With(slot4[l].queue)
          BY <4>2, <4>3
        <4> QED BY <4>1, <4>4
      <3> QED BY <3>1, <3>2
    <2>5. /\ \A m \in Listens : slot4'[m].pc = slot4[m].pc /\ slot4'[m].filter = slot4[m].filter
          /\ \A m \in Listens \ {l} : slot4'[m] = slot4[m]
          /\ slot4'[l] \in StreamRecord(l) /\ slot4' = [m \in Listens |-> slot4'[m]]
      BY <2>3, <2>4, <1>0 DEF Filtered, StreamRecord
    <2>6. Filtered'
      <3>1. ASSUME NEW m \in Listens PROVE slot4'[m] \in StreamRecord(m)'
        BY <2>1, <2>5, <1>0 DEF Filtered, StreamRecord, Content
      <3> QED BY <2>1, <2>2, <2>5, <3>1, <1>0 DEF Filtered
    <2>7. /\ slot5' \in [Casters -> CasterRecord] /\ slot5'[b].pc = "ranging"
          /\ slot5'[b].topic = slot5[b].topic /\ slot5'[b].visited = slot5[b].visited
          /\ slot5'[b].owed = slot5[b].owed \ {l}
          /\ \A a \in Casters : a # b => slot5'[a] = slot5[a]
      <3>1. slot5[b] \in CasterRecord
        BY <1>0 DEF SubscriptionTypes
      <3> DEFINE q == [slot5[b] EXCEPT !.pc = "ranging", !.target = None,
                                        !.owed = slot5[b].owed \ {l}]
      <3>2. q \in CasterRecord
        BY <3>1 DEF CasterRecord
      <3>3. /\ q.pc = "ranging" /\ q.topic = slot5[b].topic
            /\ q.visited = slot5[b].visited /\ q.owed = slot5[b].owed \ {l}
        BY <3>1 DEF CasterRecord
      <3> HIDE DEF q
      <3> QED BY <2>1, <3>2, <3>3, <1>0 DEF SubscriptionTypes, q
    <2>8. SubscriptionTypes' /\ OneOwner'
      BY <2>1, <2>7, <1>0 DEF SubscriptionTypes, OneOwner
    <2>9. Casting'
      <3>1. \A m \in Listens : m # l /\ Owes(b, m) => Owes(b, m)'
        BY <2>1, <2>5, <2>7 DEF Owes
      <3>2. \A a \in Casters, m \in Listens : a # b /\ Owes(a, m) => Owes(a, m)'
        BY <2>5, <2>7 DEF Owes
      <3>3. \A a \in Casters : \A m \in slot5[a].owed : m \in Listens
        BY <1>0 DEF SubscriptionTypes, CasterRecord
      <3> QED BY <3>1, <3>2, <3>3, <2>1, <2>5, <2>7, <1>0 DEF Casting
    <2> QED BY <2>6, <2>8, <2>9 DEF SubscriptionInv
  <1>7. ASSUME NEW b \in Casters, NEW l \in Listens, SB!Visit(b, l) PROVE SubscriptionInv'
    <2> DEFINE passes == SB!Passes(l, slot5[b].topic)
    <2>1. /\ UNCHANGED <<slot1, slot2, slot3, slot4>>
          /\ slot5[b].pc = "ranging" /\ l \notin slot5[b].visited
          /\ slot5' = [slot5 EXCEPT ![b].visited = slot5[b].visited \union {l},
               ![b].pc = IF passes THEN "sending" ELSE slot5[b].pc,
               ![b].target = IF passes THEN l ELSE slot5[b].target]
      BY <1>7, <1>0 DEF SB!Visit, SubscriptionTypes
    <2>2. /\ slot5' \in [Casters -> CasterRecord]
          /\ slot5'[b].topic = slot5[b].topic /\ slot5'[b].owed = slot5[b].owed
          /\ slot5'[b].visited = slot5[b].visited \union {l}
          /\ IF passes THEN slot5'[b].pc = "sending" /\ slot5'[b].target = l
                       ELSE slot5'[b].pc = "ranging"
          /\ \A a \in Casters : a # b => slot5'[a] = slot5[a]
      <3> DEFINE n == [slot5[b] EXCEPT !.visited = @ \union {l},
                         !.pc = IF passes THEN "sending" ELSE @,
                         !.target = IF passes THEN l ELSE @]
      <3> HIDE DEF passes
      <3>1. slot5 \in [Casters -> CasterRecord] /\ slot5' = [slot5 EXCEPT ![b] = n]
        BY <2>1, <1>0 DEF SubscriptionTypes
      <3>2. /\ n \in CasterRecord
            /\ n.topic = slot5[b].topic /\ n.owed = slot5[b].owed
            /\ n.visited = slot5[b].visited \union {l}
            /\ IF passes THEN n.pc = "sending" /\ n.target = l ELSE n.pc = "ranging"
        BY <2>1, <3>1 DEF CasterRecord
      <3> QED BY <3>1, <3>2
    <2>3. passes => /\ slot5[b].topic \in SB!Allowed(slot3[l].filter)
                    /\ slot4[l].pc \notin {"none", "registered"}
      BY <1>0 DEF SB!Passes, Filtered, StreamRecord
    <2>4. SubscriptionTypes' /\ OneOwner' /\ Filtered'
      BY <2>1, <2>2, <1>0, StillFiltered DEF SubscriptionTypes, OneOwner
    <2>5. Casting'
      <3>1. ASSUME NEW m \in Listens, Owes(b, m) PROVE Owes(b, m)'
        BY <2>1, <2>2, <3>1 DEF Owes, SB!Passes
      <3>2. \A a \in Casters, m \in Listens : a # b /\ Owes(a, m) => Owes(a, m)'
        BY <2>1, <2>2 DEF Owes
      <3>3. \A a \in Casters : \A m \in slot5[a].owed : m \in Listens
        BY <1>0 DEF SubscriptionTypes, CasterRecord
      <3> HIDE DEF passes
      <3> QED BY <3>1, <3>2, <3>3, <2>1, <2>2, <2>3, <1>0 DEF Casting
    <2> QED BY <2>4, <2>5 DEF SubscriptionInv
  <1>8. ASSUME NEW b \in Casters, SB!Over(b) PROVE SubscriptionInv'
    <2>1. /\ UNCHANGED <<slot1, slot2, slot3, slot4>>
          /\ slot5[b].pc = "ranging" /\ slot5' = [slot5 EXCEPT ![b].pc = "over"]
          /\ \A l \in Listens : SB!Registered(l) => l \in slot5[b].visited
      BY <1>8 DEF SB!Over
    <2>2. /\ slot5' \in [Casters -> CasterRecord]
          /\ slot5'[b].topic = slot5[b].topic /\ slot5'[b].owed = slot5[b].owed
          /\ slot5'[b].pc = "over"
          /\ \A a \in Casters : a # b => slot5'[a] = slot5[a]
      BY <2>1, <1>0 DEF SubscriptionTypes, CasterRecord
    <2>3. SubscriptionTypes' /\ OneOwner' /\ Filtered'
      BY <2>1, <2>2, <1>0, StillFiltered DEF SubscriptionTypes, OneOwner
    <2>4. Casting'
      <3>1. ASSUME NEW m \in Listens, Owes(b, m) PROVE Owes(b, m)'
        BY <2>1, <3>1 DEF Owes, SB!Registered
      <3>2. \A a \in Casters, m \in Listens : a # b /\ Owes(a, m) => Owes(a, m)'
        BY <2>1, <2>2 DEF Owes
      <3>3. \A a \in Casters : \A m \in slot5[a].owed : m \in Listens
        BY <1>0 DEF SubscriptionTypes, CasterRecord
      <3> QED BY <3>1, <3>2, <3>3, <2>1, <2>2, <1>0 DEF Casting
    <2> QED BY <2>3, <2>4 DEF SubscriptionInv
  <1>9. ASSUME NEW b \in Casters, NEW topic \in Topics, SB!Broadcast(b, topic)
        PROVE  SubscriptionInv'
    <2> DEFINE owed == {l \in Listens : /\ "acknowledged" \in SB!Range(slot4[l].written)
                                         /\ slot4[l].pc = "holding"
                                         /\ topic \in SB!Allowed(slot3[l].filter)}
    <2>1. /\ UNCHANGED <<slot1, slot2, slot3, slot4>>
          /\ slot5' = [slot5 EXCEPT ![b] =
               [SB!CasterIdle EXCEPT !.pc = "ranging", !.topic = topic, !.owed = owed]]
          /\ \A l \in owed : slot4[l].pc = "holding" /\ topic \in SB!Allowed(slot3[l].filter)
          /\ owed \subseteq Listens
      BY <1>9 DEF SB!Broadcast
    <2> HIDE DEF owed
    <2>2. /\ slot5' \in [Casters -> CasterRecord]
          /\ slot5'[b].topic = topic /\ slot5'[b].owed = owed /\ slot5'[b].visited = {}
          /\ slot5'[b].pc = "ranging"
          /\ \A a \in Casters : a # b => slot5'[a] = slot5[a]
      BY <2>1, <1>0 DEF SubscriptionTypes, CasterRecord, SB!CasterIdle
    <2>3. SubscriptionTypes' /\ OneOwner' /\ Filtered'
      BY <2>1, <2>2, <1>0, StillFiltered DEF SubscriptionTypes, OneOwner
    <2>4. Casting'
      <3>1. ASSUME NEW m \in owed PROVE Owes(b, m)'
        <4>1. slot4[m].pc = "holding" /\ topic \in SB!Allowed(slot3[m].filter) /\ m \in Listens
          BY <2>1, <3>1
        <4>2. topic \in slot4[m].filter
          BY <4>1, <1>0 DEF Filtered
        <4> QED BY <2>1, <2>2, <4>1, <4>2 DEF Owes
      <3>2. \A a \in Casters, m \in Listens : a # b /\ Owes(a, m) => Owes(a, m)'
        BY <2>1, <2>2 DEF Owes
      <3>3. \A a \in Casters : \A m \in slot5[a].owed : m \in Listens
        BY <1>0 DEF SubscriptionTypes, CasterRecord
      <3> QED BY <3>1, <3>2, <3>3, <2>1, <2>2, <1>0 DEF Casting
    <2> QED BY <2>3, <2>4 DEF SubscriptionInv
  <1>10. CASE UNCHANGED SB!vars
    <2>1. UNCHANGED <<slot1, slot2, slot3, slot4, slot5>>
      BY <1>10 DEF SB!vars
    <2>2. SubscriptionTypes' /\ OneOwner'
      BY <2>1, <1>0 DEF SubscriptionTypes, OneOwner
    <2>3. Filtered' /\ Casting'
      BY <2>1, ClientStep
    <2> QED BY <2>2, <2>3 DEF SubscriptionInv
  <1> QED BY <1>1, <1>2, <1>3, <1>4, <1>5, <1>6, <1>7, <1>8, <1>9, <1>10 DEF SB!Next

\* The invariant of the subscriptions holds of every behavior.
LEMMA SubscriptionInvariant == SB!Spec => []SubscriptionInv
  <1>1. SB!Init => SubscriptionInv
    <2> SUFFICES ASSUME SB!Init PROVE SubscriptionInv
      OBVIOUS
    <2>1. SubscriptionTypes
      BY DEF SB!Init, SubscriptionTypes, ListenRecord, CasterRecord, SB!CasterIdle
    <2>2. OneOwner
      BY DEF SB!Init, OneOwner
    <2>3. Filtered
      <3>1. \A l \in Listens : <<>> \in Seq(Content(l))
        BY EmptySeq
      <3> QED BY <3>1 DEF SB!Init, SB!NoStream, Filtered, StreamRecord
    <2>4. Casting
      BY DEF SB!Init, SB!CasterIdle, Casting
    <2> QED BY <2>1, <2>2, <2>3, <2>4 DEF SubscriptionInv
  <1> QED BY <1>1, SubscriptionStep, PTL DEF SB!Spec

\* What a stream carries, queued or written.
LEMMA CarriedContent ==
  ASSUME Filtered, NEW l \in Listens
  PROVE  /\ SB!Range(slot4[l].queue \o slot4[l].written) \subseteq Content(l)
         /\ slot4[l].pc \in {"none", "registered"} =>
              slot4[l].queue \o slot4[l].written = <<>>
  <1>1. slot4[l].queue \in Seq(Content(l)) /\ slot4[l].written \in Seq(Content(l))
    BY DEF Filtered, StreamRecord
  <1>2. slot4[l].queue \o slot4[l].written \in Seq(Content(l))
    BY <1>1, ConcatProperties
  <1>3. SB!Range(slot4[l].queue \o slot4[l].written) \subseteq Content(l)
    <2>1. ASSUME NEW S, NEW s \in Seq(S) PROVE SB!Range(s) \subseteq S
      <3>1. \A i \in DOMAIN s : s[i] \in S
        OBVIOUS
      <3> QED BY <3>1 DEF SB!Range
    <2> QED BY <1>2, <2>1
  <1>4. slot4[l].pc \in {"none", "registered"} =>
          slot4[l].queue \o slot4[l].written = <<>>
    <2>1. <<>> \o <<>> = <<>>
      BY ConcatEmptySeq, EmptySeq
    <2> QED BY <2>1 DEF Filtered
  <1> QED BY <1>3, <1>4

\* However calls of Listen supersede one another, streams open and end and
\* broadcasts range over them: a stream carries what was asked for and is allowed,
\* misses no broadcast of it while it is open, and the last call alone has one
\* (Listen, handleSubscriptionsListen, broadcastToSession).
THEOREM StreamsAsAsked == SB!Spec => []SB!Subscribed
  <1>1. SubscriptionInv => SB!Subscribed
    <2> SUFFICES ASSUME SubscriptionInv PROVE SB!Subscribed
      OBVIOUS
    <2>0. SubscriptionTypes /\ OneOwner /\ Filtered /\ Casting
      BY DEF SubscriptionInv
    <2>1. ASSUME NEW l \in Listens
          PROVE  /\ SB!Range(slot4[l].queue \o slot4[l].written) \subseteq Content(l)
                 /\ slot4[l].pc \in {"none", "registered"} =>
                      slot4[l].queue \o slot4[l].written = <<>>
      BY <2>0, CarriedContent
    <2>2. SB!OptIn
      BY <2>1 DEF SB!OptIn, Content
    <2>3. SB!MissesNothing
      <3>1. \A b \in Casters, l \in Listens : l \in slot5[b].owed => Owes(b, l)
        BY <2>0 DEF Casting
      <3> QED BY <3>1 DEF SB!MissesNothing, Owes
    <2>4. SB!OneStream
      <3>1. \A l \in Listens : l # None
        BY SubscriptionsAssumption DEF SubscriptionsAssumption
      <3> QED BY <3>1, <2>0 DEF SB!OneStream, OneOwner
    <2> QED BY <2>2, <2>3, <2>4 DEF SB!Subscribed
  <1> QED BY <1>1, SubscriptionInvariant, PTL

\* The calls that have started are as many as the last one's number.
Started == {l \in Listens : slot3[l].pc # "idle"}
Numbering ==
  /\ slot2 = Cardinality(Started)
  /\ \A l \in Listens : slot3[l].pc = "idle" => slot3[l].generation = 0

LEMMA SubscriptionTyped == SB!Spec => []SB!TypeOK
  <1>1. SB!Init => Numbering
    <2> SUFFICES ASSUME SB!Init PROVE Numbering
      OBVIOUS
    <2>1. Started = {} /\ slot2 = 0
      BY DEF SB!Init, Started
    <2>2. \A l \in Listens : slot3[l].generation = 0
      BY DEF SB!Init
    <2> QED BY <2>1, <2>2, FS_EmptySet DEF Numbering
  <1>2. SubscriptionInv /\ Numbering /\ [SB!Next]_SB!vars => Numbering'
    <2> SUFFICES ASSUME SubscriptionInv, Numbering, [SB!Next]_SB!vars PROVE Numbering'
      OBVIOUS
    <2>0. SubscriptionTypes /\ IsFiniteSet(Started)
      BY FS_Subset, ListensAssumption DEF SubscriptionInv, Started, ListensAssumption
    <2>1. ASSUME NEW l \in Listens, NEW wanted \in SUBSET Topics, SB!Listen(l, wanted)
          PROVE  Numbering'
      <3>1. PICK cancelling : cancelling = SB!Cancel(slot3, slot1)
        OBVIOUS
      <3>2. /\ cancelling \in [Listens -> ListenRecord]
            /\ \A m \in Listens : /\ cancelling[m].pc = slot3[m].pc
                                 /\ cancelling[m].generation = slot3[m].generation
        BY <2>0, <3>1 DEF SubscriptionTypes, SB!Cancel, ListenRecord
      <3>3. /\ slot3[l].pc = "idle" /\ slot2' = slot2 + 1
            /\ slot3' = [cancelling EXCEPT
                 ![l].pc = "opening", ![l].filter = wanted, ![l].generation = slot2 + 1]
        BY <2>1, <3>1 DEF SB!Listen
      <3>4. /\ slot3'[l].pc = "opening"
            /\ \A m \in Listens \ {l} : /\ slot3'[m].pc = slot3[m].pc
                                       /\ slot3'[m].generation = slot3[m].generation
        BY <3>2, <3>3 DEF ListenRecord
      <3>5. l \notin Started /\ Started' = Started \union {l}
        BY <3>3, <3>4 DEF Started
      <3>6. Cardinality(Started') = Cardinality(Started) + 1
        BY <2>0, <3>5, FS_AddElement
      <3>7. \A m \in Listens : slot3'[m].pc = "idle" => slot3'[m].generation = 0
        BY <3>4 DEF Numbering
      <3> QED BY <3>3, <3>6, <3>7 DEF Numbering
    <2>2. ASSUME slot2' = slot2,
                 \A l \in Listens : /\ slot3'[l].generation = slot3[l].generation
                                    /\ slot3'[l].pc = "idle" <=> slot3[l].pc = "idle"
          PROVE  Numbering'
      <3>1. Started' = Started
        BY <2>2 DEF Started
      <3> QED BY <2>2, <3>1 DEF Numbering
    <2>3. ASSUME NEW l \in Listens, SB!Stop(l) \/ SB!Post(l) \/ SB!Ended(l) \/ SB!Return(l)
          PROVE  Numbering'
      <3>1. slot2' = slot2
        BY <2>3 DEF SB!Stop, SB!Post, SB!Ended, SB!Return
      <3>3. ASSUME NEW m \in Listens
            PROVE  /\ slot3'[m].generation = slot3[m].generation
                   /\ slot3'[m].pc = "idle" <=> slot3[m].pc = "idle"
        BY <2>0, <2>3
           DEF SB!Stop, SB!Post, SB!Ended, SB!Return, SB!Cancel, SubscriptionTypes, ListenRecord
      <3> QED BY <2>2, <3>1, <3>3
    <2>4. ASSUME UNCHANGED <<slot2, slot3>> PROVE Numbering'
      BY <2>2, <2>4
    <2>5. \/ \E l \in Listens : \/ \E wanted \in SUBSET Topics : SB!Listen(l, wanted)
                              \/ SB!Stop(l) \/ SB!Post(l) \/ SB!Ended(l) \/ SB!Return(l)
          \/ UNCHANGED <<slot2, slot3>>
      BY ZenonT(30)
         DEF SB!Next, SB!Record, SB!Acknowledge, SB!Disconnected, SB!Clear, SB!Unregister,
             SB!Forward, SB!Respond, SB!Visit, SB!SendTo, SB!Over, SB!Broadcast, SB!Serving, SB!vars
    <2> QED BY <2>1, <2>3, <2>4, <2>5
  <1>3. SubscriptionInv /\ Numbering => SB!TypeOK
    <2> SUFFICES ASSUME SubscriptionInv, Numbering PROVE SB!TypeOK
      OBVIOUS
    <2>0. SubscriptionTypes /\ OneOwner /\ Filtered
      BY DEF SubscriptionInv
    <2>1. PICK N : N = SB!Cardinality(Listens)
      OBVIOUS
    <2>2. slot2 \in 0..N /\ N \in Nat
      <3>1. N = Cardinality(Listens)
        BY <2>1 DEF SB!Cardinality, Cardinality
      <3>2. N \in Nat /\ Cardinality(Started) <= N
        BY <3>1, FS_Subset, FS_CardinalityType, ListensAssumption DEF Started, ListensAssumption
      <3> QED BY <2>0, <3>2 DEF Numbering, SubscriptionTypes
    <2>3. ASSUME NEW l \in Listens PROVE slot3[l].generation \in 0..N
      <3>1. slot3[l].generation \in Nat
        BY <2>0 DEF SubscriptionTypes, ListenRecord
      <3>2. slot3[l].generation <= slot2 \/ slot3[l].generation = 0
        BY <2>0 DEF OneOwner, Numbering
      <3> QED BY <2>2, <3>1, <3>2
    <2>4. slot3 \in [Listens -> [pc : {"idle", "opening", "open", "returning", "returned"},
                                 filter : SUBSET Topics, generation : 0..N, cancelled : BOOLEAN]]
      BY <2>0, <2>3 DEF SubscriptionTypes, ListenRecord
    <2>5. ASSUME NEW l \in Listens
          PROVE  /\ slot4[l].pc \in {"none", "registered", "recorded", "holding", "leaving",
                                      "cleared", "unregistered", "closed"}
                 /\ slot4[l].filter \subseteq Topics
                 /\ SB!Range(slot4[l].queue \o slot4[l].written)
                      \subseteq Topics \union {"acknowledged", "response"}
      <3>1. SB!Allowed(slot3[l].filter) \subseteq Topics
        BY <2>0 DEF SB!Allowed, SubscriptionTypes, ListenRecord
      <3>2. slot4[l] \in StreamRecord(l)
        BY <2>0 DEF Filtered
      <3>3. SB!Range(slot4[l].queue \o slot4[l].written) \subseteq Content(l)
        BY <2>0, CarriedContent
      <3> QED BY <3>1, <3>2, <3>3 DEF StreamRecord, Content
    <2>6. \A b \in Casters : slot5[b].pc \in {"idle", "ranging", "sending", "over"}
      BY <2>0 DEF SubscriptionTypes, CasterRecord
    <2> QED BY <2>0, <2>1, <2>2, <2>4, <2>5, <2>6 DEF SB!TypeOK, SubscriptionTypes
  <1> QED BY <1>1, <1>2, <1>3, SubscriptionInvariant, PTL DEF SB!Spec

-----------------------------------------------------------------------------
(* Arguments: slot1 is what the caller sent, slot2 and slot3 are Arguments *)
(* and RawArguments, slot4 is the processor's habit, slot5 counts the      *)
(* proxies.                                                                *)

-----------------------------------------------------------------------------
(* Arithmetic.                                                             *)

\* A set of natural numbers has a least one, so that there is induction on them.
LEMMA Least ==
  ASSUME NEW S, S \subseteq Nat, S # {}
  PROVE  \E x \in S : \A y \in S : x <= y
  <1> DEFINE R == OpToRel(<, Nat)
  <1>1. IsWellFoundedOn(R, Nat)
    BY NatLessThanWellFounded
  <1>2. \A x, y \in Nat : y < x => <<y, x>> \in R
    BY DEF OpToRel
  <1> HIDE DEF R
  <1>3. PICK x \in S : \A y \in S : ~(<<y, x>> \in R)
    BY <1>1, WFMin
  <1>4. ASSUME NEW y \in S PROVE x <= y
    <2>1. x \in Nat /\ y \in Nat /\ ~(y < x)
      BY <1>2, <1>3
    <2> QED BY <2>1
  <1> QED BY <1>4

LEMMA Induction ==
  ASSUME NEW S, 0 \in S, \A n \in Nat : n \in S => n + 1 \in S
  PROVE  Nat \subseteq S
  <1> SUFFICES ASSUME Nat \ S # {} PROVE FALSE
    OBVIOUS
  <1>1. PICK x \in Nat \ S : \A y \in Nat \ S : x <= y
    BY Least
  <1>2. x # 0 /\ x - 1 \in Nat /\ ~(x <= x - 1) /\ (x - 1) + 1 = x
    OBVIOUS
  <1> QED BY <1>1, <1>2

PowerOf2(k) == 2 ^ k
Exponents == 0..(IntSize + 2)

LEMMA Doubles ==
  /\ IntSize \in Nat /\ IntSize >= 3 /\ Significand \in Exponents /\ Significand >= 1 /\ PowerOf2(0) = 1
  /\ \A k \in Exponents : /\ PowerOf2(k) \in Nat /\ PowerOf2(k) > 0 /\ PowerOf2(k + 1) = 2 * PowerOf2(k) /\ k \in Nat
  <1>1. IntSize \in Nat /\ IntSize >= 3 /\ Significand \in 1..IntSize
    BY ArgumentsAssumption DEF ArgumentsAssumption
  <1>2. PowerOf2(0) = 1 /\ \A k \in Exponents : PowerOf2(k) \in Nat /\ PowerOf2(k + 1) = 2 * PowerOf2(k)
    BY PowersAssumption DEF PowersAssumption, PowerOf2, Exponents
  <1>3. \A k \in Exponents : PowerOf2(k) > 0
    <2> DEFINE S == {k \in Nat : k \in Exponents => PowerOf2(k) > 0}
    <2>1. 0 \in S
      BY <1>2
    <2>2. ASSUME NEW k \in Nat, k \in S PROVE k + 1 \in S
      <3> SUFFICES ASSUME k + 1 \in Exponents PROVE PowerOf2(k + 1) > 0
        OBVIOUS
      <3>1. k \in Exponents
        BY <1>1 DEF Exponents
      <3> QED BY <1>2, <2>2, <3>1
    <2> HIDE DEF S
    <2>3. Nat \subseteq S
      BY <2>1, <2>2, Induction
    <2> QED BY <1>1, <2>3 DEF S, Exponents
  <1> QED BY <1>1, <1>2, <1>3 DEF Exponents

\* They grow.
LEMMA Grow ==
  ASSUME NEW j \in Exponents, NEW k \in Exponents, j <= k
  PROVE  PowerOf2(j) <= PowerOf2(k)
  <1> DEFINE S == {i \in Nat : j + i \in Exponents => PowerOf2(j) <= PowerOf2(j + i)}
  <1>1. 0 \in S
    BY Doubles
  <1>2. ASSUME NEW i \in Nat, i \in S PROVE i + 1 \in S
    <2> SUFFICES ASSUME j + (i + 1) \in Exponents PROVE PowerOf2(j) <= PowerOf2(j + (i + 1))
      OBVIOUS
    <2>1. j + i \in Exponents /\ j + (i + 1) = (j + i) + 1
      BY Doubles DEF Exponents
    <2>2. PowerOf2(j) <= PowerOf2(j + i) /\ PowerOf2(j + i) \in Nat /\ PowerOf2((j + i) + 1) = 2 * PowerOf2(j + i) /\ PowerOf2(j) \in Nat
      BY <1>2, <2>1, Doubles
    <2> QED BY <2>1, <2>2
  <1> HIDE DEF S
  <1>3. Nat \subseteq S
    BY <1>1, <1>2, Induction
  <1>4. k - j \in Nat /\ j + (k - j) = k
    BY Doubles
  <1> QED BY <1>3, <1>4 DEF S

LEMMA Times ==
  ASSUME NEW a \in Nat, NEW b \in Nat, NEW c \in Nat, a <= b
  PROVE  a * c <= b * c /\ c * a <= c * b /\ a * c \in Nat
  OBVIOUS

LEMMA Divided ==
  ASSUME NEW a \in Nat, NEW b \in Nat, b > 0
  PROVE  /\ a \div b \in Nat /\ a % b \in Nat /\ a % b < b /\ a = b * (a \div b) + (a % b)
  OBVIOUS

LEMMA DividedExactly ==
  ASSUME NEW q \in Nat, NEW b \in Nat, b > 0
  PROVE  (b * q) \div b = q /\ (b * q) % b = 0
  OBVIOUS

-----------------------------------------------------------------------------
(* The float64 nearest to a number.                                        *)

BitsThere == PowerOf2(Significand)
StepSizes == {PowerOf2(k) : k \in Exponents}
StepFits(a) == {s \in StepSizes : a < s * BitsThere}
StepOf(a) == CHOOSE s \in StepFits(a) : \A t \in StepFits(a) : s <= t
GoesUp(a) == 2 * (a % StepOf(a)) + ((a \div StepOf(a)) % 2) > StepOf(a)
Nearest(a) == StepOf(a) * (IF GoesUp(a) THEN (a \div StepOf(a)) + 1 ELSE a \div StepOf(a))

LEMMA FloatMeans ==
  ASSUME NEW h
  PROVE  AR!Float(h) = AR!Sign(h) * StepOf(AR!Abs(h)) *
                         (IF GoesUp(AR!Abs(h)) THEN (AR!Abs(h) \div StepOf(AR!Abs(h))) + 1
                          ELSE AR!Abs(h) \div StepOf(AR!Abs(h)))
  BY DEF AR!Float, StepOf, GoesUp, StepFits, StepSizes, BitsThere, PowerOf2, Exponents

LEMMA BitsThereAre == /\ BitsThere \in Nat /\ BitsThere >= 2 /\ BitsThere = 2 * PowerOf2(Significand - 1)
                 /\ PowerOf2(Significand - 1) \in Nat /\ PowerOf2(Significand - 1) > 0
  <1>1. Significand - 1 \in Exponents /\ (Significand - 1) + 1 = Significand
    BY Doubles DEF Exponents
  <1>2. PowerOf2(Significand - 1) \in Nat /\ PowerOf2(Significand - 1) > 0 /\ PowerOf2((Significand - 1) + 1) = 2 * PowerOf2(Significand - 1)
    BY <1>1, Doubles
  <1> QED BY <1>1, <1>2 DEF BitsThere

\* The step is the least that fits.
LEMMA StepIs ==
  ASSUME NEW a \in Nat, NEW k \in Exponents, a < PowerOf2(k) * BitsThere, k > 0 => a >= PowerOf2(k - 1) * BitsThere
  PROVE  StepOf(a) = PowerOf2(k)
  <1>1. PowerOf2(k) \in StepFits(a)
    BY DEF StepFits, StepSizes
  <1>2. ASSUME NEW t \in StepFits(a) PROVE PowerOf2(k) <= t
    <2>1. PICK j \in Exponents : t = PowerOf2(j) /\ a < PowerOf2(j) * BitsThere
      BY DEF StepFits, StepSizes
    <2>2. CASE k <= j
      BY <2>1, <2>2, Grow
    <2>3. CASE j < k
      <3>1. k - 1 \in Exponents /\ j <= k - 1 /\ k > 0
        BY <2>3, Doubles DEF Exponents
      <3>2. PowerOf2(j) <= PowerOf2(k - 1) /\ PowerOf2(j) \in Nat /\ PowerOf2(k - 1) \in Nat /\ BitsThere \in Nat
        BY <3>1, Grow, Doubles, BitsThereAre
      <3>3. PowerOf2(j) * BitsThere <= PowerOf2(k - 1) * BitsThere /\ PowerOf2(j) * BitsThere \in Nat /\ PowerOf2(k - 1) * BitsThere \in Nat
        BY <3>2, Times
      <3> QED BY <2>1, <3>1, <3>3
    <2> QED BY <2>2, <2>3, Doubles
  <1>3. \A s \in StepFits(a) : s \in Nat
    BY Doubles DEF StepFits, StepSizes
  <1>4. \A s \in StepFits(a) : (\A t \in StepFits(a) : s <= t) => s = PowerOf2(k)
    BY <1>1, <1>2, <1>3
  <1> QED BY <1>1, <1>2, <1>4 DEF StepOf

\* There is one for a number that is small enough.
LEMMA StepThere ==
  ASSUME NEW a \in Nat, NEW n \in Exponents, a < PowerOf2(n) * BitsThere
  PROVE  \E k \in Exponents : /\ k <= n /\ a < PowerOf2(k) * BitsThere
                              /\ k > 0 => a >= PowerOf2(k - 1) * BitsThere
  <1> DEFINE S == {k \in Exponents : a < PowerOf2(k) * BitsThere}
  <1>1. n \in S /\ S \subseteq Nat
    BY Doubles
  <1>2. PICK k \in S : \A j \in S : k <= j
    BY <1>1, Least
  <1>3. k > 0 => a >= PowerOf2(k - 1) * BitsThere
    <2> SUFFICES ASSUME k > 0 PROVE a >= PowerOf2(k - 1) * BitsThere
      OBVIOUS
    <2>1. k \in Nat /\ ~(k <= k - 1) /\ k - 1 \in Exponents
      BY Doubles DEF Exponents
    <2>2. ~(a < PowerOf2(k - 1) * BitsThere)
      BY <1>2, <2>1
    <2>3. PowerOf2(k - 1) * BitsThere \in Nat
      BY <2>1, Doubles, BitsThereAre, Times
    <2> QED BY <2>2, <2>3
  <1> QED BY <1>1, <1>2, <1>3

\* A magnitude that a float64 has: so many steps of a step that is its own.
IsHeld(f, k, q) ==
  /\ k \in Exponents /\ q \in Nat /\ q < BitsThere /\ f = PowerOf2(k) * q
  /\ k > 0 => 2 * q >= BitsThere

LEMMA HeldStays ==
  ASSUME NEW f, NEW k, NEW q, IsHeld(f, k, q)
  PROVE  f \in Nat /\ StepOf(f) = PowerOf2(k) /\ ~GoesUp(f) /\ Nearest(f) = f /\ f \div StepOf(f) = q
  <1>1. /\ k \in Exponents /\ q \in Nat /\ q < BitsThere /\ f = PowerOf2(k) * q
        /\ k > 0 => 2 * q >= BitsThere
    BY DEF IsHeld
  <1>2. PowerOf2(k) \in Nat /\ PowerOf2(k) > 0 /\ BitsThere \in Nat
    BY <1>1, Doubles, BitsThereAre
  <1>3. f \in Nat /\ f < PowerOf2(k) * BitsThere
    <2>1. q + 1 <= BitsThere /\ q + 1 \in Nat
      BY <1>1, <1>2
    <2>2. PowerOf2(k) * (q + 1) <= PowerOf2(k) * BitsThere
      BY <1>2, <2>1, Times
    <2>3. PowerOf2(k) * (q + 1) = PowerOf2(k) * q + PowerOf2(k) /\ PowerOf2(k) * q \in Nat
      BY <1>1, <1>2
    <2>4. PowerOf2(k) * BitsThere \in Nat
      BY <1>2
    <2> HIDE DEF PowerOf2
    <2> QED BY <1>1, <1>2, <2>2, <2>3, <2>4
  <1>4. k > 0 => f >= PowerOf2(k - 1) * BitsThere
    <2> SUFFICES ASSUME k > 0 PROVE f >= PowerOf2(k - 1) * BitsThere
      OBVIOUS
    <2>1. k - 1 \in Exponents /\ (k - 1) + 1 = k
      BY <1>1, Doubles DEF Exponents
    <2>2. PowerOf2(k) = 2 * PowerOf2(k - 1) /\ PowerOf2(k - 1) \in Nat
      BY <2>1, Doubles
    <2>3. PowerOf2(k - 1) * BitsThere <= PowerOf2(k - 1) * (2 * q)
      BY <1>1, <1>2, <2>2, Times
    <2>4. PowerOf2(k - 1) * (2 * q) = f
      BY <1>1, <2>2
    <2> QED BY <2>3, <2>4
  <1>5. StepOf(f) = PowerOf2(k)
    BY <1>1, <1>3, <1>4, StepIs
  <1>6. f \div StepOf(f) = q /\ f % StepOf(f) = 0
    BY <1>1, <1>2, <1>5, DividedExactly
  <1>7. ~GoesUp(f)
    <2>1. q % 2 \in {0, 1}
      BY <1>1
    <2> QED BY <1>2, <1>5, <1>6, <2>1 DEF GoesUp
  <1>8. Nearest(f) = f
    BY <1>1, <1>5, <1>6, <1>7 DEF Nearest
  <1> QED BY <1>3, <1>5, <1>6, <1>7, <1>8

\* What a number becomes is held, is the number itself if that has few enough
\* bits, and is even where the number is.
LEMMA NearIs ==
  ASSUME NEW a \in Nat, a < PowerOf2(IntSize + 1) * BitsThere
  PROVE  /\ \E k, q : IsHeld(Nearest(a), k, q)
         /\ Nearest(a) \in Nat /\ Nearest(Nearest(a)) = Nearest(a)
         /\ a > 0 => Nearest(a) > 0
         /\ a % 2 = 0 => Nearest(a) % 2 = 0 /\ (Nearest(a) < 2 => a = 0)
         /\ StepOf(a) \in Nat /\ StepOf(a) > 0 /\ a \div StepOf(a) \in Nat
  <1>1. IntSize + 1 \in Exponents /\ IntSize \in Nat
    BY Doubles DEF Exponents
  <1>2. PICK k \in Exponents : /\ k <= IntSize + 1 /\ a < PowerOf2(k) * BitsThere
                               /\ k > 0 => a >= PowerOf2(k - 1) * BitsThere
    BY <1>1, StepThere
  <1>3. StepOf(a) = PowerOf2(k)
    BY <1>2, StepIs
  <1> DEFINE s == PowerOf2(k)
             q == a \div s
             r == a % s
             p == IF GoesUp(a) THEN q + 1 ELSE q
  <1>4. s \in Nat /\ s > 0 /\ BitsThere \in Nat /\ BitsThere >= 2 /\ k \in Nat
    BY <1>2, Doubles, BitsThereAre
  <1>5. q \in Nat /\ r \in Nat /\ r < s /\ a = s * q + r
    BY <1>4, Divided
  <1>6. Nearest(a) = s * p /\ p \in {q, q + 1}
    BY <1>3 DEF Nearest
  <1> HIDE DEF s, q, r
  <1>7. q < BitsThere
    <2> SUFFICES ASSUME BitsThere <= q PROVE FALSE
      BY <1>4, <1>5
    <2>1. s * BitsThere <= s * q /\ s * q \in Nat /\ s * BitsThere \in Nat
      BY <1>4, <1>5, Times
    <2> QED BY <1>2, <1>5, <2>1 DEF s
  <1>8. k > 0 => 2 * q >= BitsThere
    <2> SUFFICES ASSUME k > 0, 2 * q < BitsThere PROVE FALSE
      BY <1>4, <1>5
    <2>1. k - 1 \in Exponents /\ (k - 1) + 1 = k
      BY <1>2, Doubles DEF Exponents
    <2> DEFINE half == PowerOf2(k - 1)
    <2>2. s = 2 * half /\ half \in Nat /\ half > 0
      BY <2>1, Doubles DEF s
    <2>3. a >= half * BitsThere
      BY <1>2
    <2> HIDE DEF half
    <2>4. 2 * (q + 1) <= BitsThere
      <3>1. BitsThere = 2 * PowerOf2(Significand - 1) /\ PowerOf2(Significand - 1) \in Nat
        BY BitsThereAre
      <3> QED BY <1>5, <3>1
    <2>5. half * (2 * (q + 1)) <= half * BitsThere
      BY <1>4, <1>5, <2>2, <2>4, Times
    <2>6. half * (2 * (q + 1)) = s * q + s
      BY <1>5, <2>2
    <2>7. s * q \in Nat /\ half * BitsThere \in Nat
      BY <1>4, <1>5, <2>2
    <2> QED BY <1>4, <1>5, <2>3, <2>5, <2>6, <2>7
  <1>9. \E j, n : IsHeld(Nearest(a), j, n)
    <2>1. CASE p < BitsThere
      <3>1. p \in Nat /\ (k > 0 => 2 * p >= BitsThere)
        BY <1>4, <1>5, <1>6, <1>8
      <3> QED BY <1>2, <1>6, <2>1, <3>1 DEF IsHeld, s
    <2>2. CASE ~(p < BitsThere)
      <3>1. p = BitsThere
        BY <1>4, <1>5, <1>6, <1>7, <2>2
      <3> DEFINE n == PowerOf2(Significand - 1)
      <3>2. BitsThere = 2 * n /\ n \in Nat /\ n > 0
        BY BitsThereAre
      <3>3. k + 1 \in Exponents /\ PowerOf2(k + 1) = 2 * s
        BY <1>1, <1>2, <1>4, Doubles DEF Exponents, s
      <3> HIDE DEF n
      <3>4. Nearest(a) = PowerOf2(k + 1) * n
        BY <1>4, <1>6, <3>1, <3>2, <3>3
      <3> QED BY <3>2, <3>3, <3>4 DEF IsHeld
    <2> QED BY <2>1, <2>2
  <1>10. Nearest(a) \in Nat /\ Nearest(Nearest(a)) = Nearest(a)
    BY <1>9, HeldStays
  <1>11. CASE k = 0
    <2>1. s = 1
      BY <1>11, Doubles DEF s
    <2>2. r = 0 /\ q = a
      BY <1>5, <2>1
    <2>3. ~GoesUp(a)
      <3>1. GoesUp(a) <=> 2 * r + (q % 2) > s
        BY <1>3 DEF GoesUp, q, r, s
      <3>2. q % 2 \in {0, 1}
        BY <1>5
      <3> QED BY <2>1, <2>2, <3>1, <3>2
    <2>4. Nearest(a) = a
      BY <1>6, <2>1, <2>2, <2>3
    <2> QED BY <1>3, <1>4, <1>5, <1>9, <1>10, <2>4 DEF q, s
  <1>12. CASE k > 0
    <2>1. k - 1 \in Exponents /\ (k - 1) + 1 = k
      BY <1>2, <1>12, Doubles DEF Exponents
    <2> DEFINE half == PowerOf2(k - 1)
    <2>2. s = 2 * half /\ half \in Nat /\ half > 0
      BY <2>1, Doubles DEF s
    <2>3. q >= 1 /\ p \in Nat /\ p >= 1
      BY <1>4, <1>5, <1>6, <1>8, <1>12
    <2> HIDE DEF half, p
    <2>4. Nearest(a) = 2 * (half * p) /\ half * p \in Nat
      BY <1>6, <2>2, <2>3
    <2>5. half * p >= 1
      <3>1. half * 1 <= half * p
        BY <2>2, <2>3, Times
      <3> QED BY <2>2, <2>4, <3>1
    <2>6. Nearest(a) % 2 = 0 /\ Nearest(a) >= 2
      BY <2>4, <2>5
    <2> QED BY <1>3, <1>4, <1>5, <1>9, <1>10, <2>6 DEF q, s
  <1> QED BY <1>4, <1>11, <1>12

IsSmall(h) == h \in Int /\ AR!Abs(h) < PowerOf2(IntSize + 1) * BitsThere

LEMMA NumbersSmall ==
  /\ \A h \in AR!Numbers : IsSmall(h)
  /\ \A h : h \in AR!Numbers <=> h \in Int /\ -PowerOf2(IntSize) - 4 <= h /\ h <= 2 * PowerOf2(IntSize) + 8
  /\ PowerOf2(IntSize) \in Nat /\ PowerOf2(IntSize) >= 8 /\ PowerOf2(IntSize + 1) = 2 * PowerOf2(IntSize)
  /\ PowerOf2(IntSize - 1) \in Nat /\ PowerOf2(IntSize) = 2 * PowerOf2(IntSize - 1)
  <1>1. PowerOf2(IntSize) \in Nat /\ PowerOf2(IntSize) >= 8 /\ PowerOf2(IntSize + 1) = 2 * PowerOf2(IntSize)
    <2>1. {0, 1, 2, 3, IntSize} \subseteq Exponents /\ 3 <= IntSize
      BY Doubles DEF Exponents
    <2>2. PowerOf2(1) = 2 * PowerOf2(0) /\ PowerOf2(2) = 2 * PowerOf2(1) /\ PowerOf2(3) = 2 * PowerOf2(2) /\ PowerOf2(0) = 1
      <3>1. PowerOf2(0 + 1) = 2 * PowerOf2(0) /\ PowerOf2(1 + 1) = 2 * PowerOf2(1) /\ PowerOf2(2 + 1) = 2 * PowerOf2(2)
        BY <2>1, Doubles
      <3>2. 0 + 1 = 1 /\ 1 + 1 = 2 /\ 2 + 1 = 3
        OBVIOUS
      <3> QED BY <3>1, <3>2, Doubles
    <2>3. PowerOf2(3) <= PowerOf2(IntSize) /\ PowerOf2(IntSize) \in Nat /\ PowerOf2(IntSize + 1) = 2 * PowerOf2(IntSize)
      BY <2>1, Grow, Doubles
    <2> QED BY <2>2, <2>3
  <1>2. PowerOf2(IntSize - 1) \in Nat /\ PowerOf2(IntSize) = 2 * PowerOf2(IntSize - 1)
    <2>1. IntSize - 1 \in Exponents /\ (IntSize - 1) + 1 = IntSize
      BY Doubles DEF Exponents
    <2> QED BY <2>1, Doubles
  <1>3. AR!Numbers = -PowerOf2(IntSize) - 4 .. PowerOf2(IntSize + 1) + 8
    BY DEF AR!Numbers, PowerOf2
  <1>4. \A h : h \in AR!Numbers <=> h \in Int /\ -PowerOf2(IntSize) - 4 <= h /\ h <= 2 * PowerOf2(IntSize) + 8
    BY <1>1, <1>3
  <1>5. ASSUME NEW h \in AR!Numbers PROVE IsSmall(h)
    <2>1. h \in Int /\ AR!Abs(h) <= 2 * PowerOf2(IntSize) + 8
      BY <1>1, <1>4 DEF AR!Abs
    <2>2. (2 * PowerOf2(IntSize)) * 2 <= (2 * PowerOf2(IntSize)) * BitsThere
      BY <1>1, BitsThereAre, Times
    <2>3. (2 * PowerOf2(IntSize)) * BitsThere \in Nat /\ AR!Abs(h) \in Int
      BY <1>1, <2>1, BitsThereAre DEF AR!Abs
    <2> QED BY <1>1, <2>1, <2>2, <2>3 DEF IsSmall
  <1> QED BY <1>1, <1>2, <1>4, <1>5

LEMMA FloatNear ==
  ASSUME NEW h \in Int, StepOf(AR!Abs(h)) \in Nat, AR!Abs(h) \div StepOf(AR!Abs(h)) \in Nat
  PROVE  AR!Float(h) = AR!Sign(h) * Nearest(AR!Abs(h))
  <1> DEFINE a == AR!Abs(h)
             s == StepOf(a)
             p == IF GoesUp(a) THEN (a \div s) + 1 ELSE a \div s
  <1>1. s \in Nat /\ p \in Nat /\ AR!Sign(h) \in {-1, 1}
    BY DEF AR!Sign
  <1>2. AR!Float(h) = AR!Sign(h) * s * p
    BY FloatMeans
  <1>3. Nearest(a) = s * p
    BY DEF Nearest
  <1> HIDE DEF a, s, p
  <1>4. AR!Sign(h) * s * p = AR!Sign(h) * (s * p)
    BY <1>1
  <1> QED BY <1>2, <1>3, <1>4 DEF a

\* What Float makes of a number: it makes the same of that again.
LEMMA FloatIs ==
  ASSUME NEW h, IsSmall(h)
  PROVE  /\ AR!Float(h) \in Int /\ AR!Float(AR!Float(h)) = AR!Float(h)
         /\ AR!Float(h) < 0 <=> h < 0
         /\ h % 2 = 0 => AR!Float(h) % 2 = 0 /\ (AR!Abs(AR!Float(h)) < 2 => h = 0)
  <1> DEFINE a == AR!Abs(h)
             n == Nearest(a)
             f == AR!Float(h)
  <1>1. h \in Int /\ a \in Nat /\ a < PowerOf2(IntSize + 1) * BitsThere
    BY DEF IsSmall, AR!Abs
  <1>2. /\ \E k, q : IsHeld(n, k, q)
        /\ n \in Nat /\ Nearest(n) = n
        /\ a > 0 => n > 0
        /\ a % 2 = 0 => n % 2 = 0 /\ (n < 2 => a = 0)
        /\ StepOf(a) \in Nat /\ StepOf(a) > 0 /\ a \div StepOf(a) \in Nat
    BY <1>1, NearIs
  <1>3. f = AR!Sign(h) * n
    BY <1>1, <1>2, FloatNear
  <1>4. StepOf(n) \in Nat /\ n \div StepOf(n) \in Nat
    <2>1. PICK k, q : IsHeld(n, k, q)
      BY <1>2
    <2>2. k \in Exponents /\ q \in Nat
      BY <2>1 DEF IsHeld
    <2> QED BY <2>1, <2>2, HeldStays, Doubles
  <1> HIDE DEF f, n
  <1>5. f \in Int /\ (f < 0 <=> h < 0) /\ AR!Abs(f) = n /\ AR!Sign(f) = AR!Sign(h)
    <2>1. CASE h < 0
      <3>1. AR!Sign(h) = -1 /\ a > 0
        BY <1>1, <2>1 DEF AR!Sign, AR!Abs
      <3>2. f = -n /\ n > 0
        BY <1>2, <1>3, <3>1
      <3> QED BY <1>2, <2>1, <3>1, <3>2 DEF AR!Sign, AR!Abs
    <2>2. CASE ~(h < 0)
      <3>1. AR!Sign(h) = 1
        BY <2>2 DEF AR!Sign
      <3>2. f = n
        BY <1>2, <1>3, <3>1
      <3> QED BY <1>1, <1>2, <2>2, <3>1, <3>2 DEF AR!Sign, AR!Abs
    <2> QED BY <2>1, <2>2
  <1>6. AR!Float(f) = f
    BY <1>2, <1>3, <1>4, <1>5, FloatNear
  <1>7. h % 2 = 0 => f % 2 = 0 /\ (AR!Abs(f) < 2 => h = 0)
    <2> SUFFICES ASSUME h % 2 = 0 PROVE f % 2 = 0 /\ (AR!Abs(f) < 2 => h = 0)
      OBVIOUS
    <2>1. a % 2 = 0 /\ (a = 0 => h = 0)
      BY <1>1 DEF AR!Abs
    <2>2. n % 2 = 0 /\ (n < 2 => a = 0)
      BY <1>2, <2>1
    <2>3. f = n \/ f = -n
      BY <1>2, <1>5 DEF AR!Abs
    <2> HIDE DEF a
    <2> QED BY <1>2, <1>5, <2>1, <2>2, <2>3
  <1> QED BY <1>5, <1>6, <1>7 DEF f

-----------------------------------------------------------------------------
(* The items of a slice.                                                   *)

TakenOf(items, n, g) == g = [k \in 0..n |-> IF k = 0 THEN <<>> ELSE g[k - 1] \o items[k]]

LEMMA TakenThere ==
  ASSUME NEW items, NEW n \in Nat
  PROVE  \E g : TakenOf(items, n, g)
  <1> DEFINE S == {k \in Nat : \E g : TakenOf(items, k, g)}
  <1>1. 0 \in S
    <2> DEFINE g == [k \in 0..0 |-> <<>>]
    <2>1. TakenOf(items, 0, g)
      BY DEF TakenOf
    <2> QED BY <2>1
  <1>2. ASSUME NEW m \in Nat, m \in S PROVE m + 1 \in S
    <2>1. PICK f : f = [k \in 0..m |-> IF k = 0 THEN <<>> ELSE f[k - 1] \o items[k]]
      BY <1>2 DEF TakenOf
    <2> DEFINE g == [k \in 0..(m + 1) |-> IF k \in 0..m THEN f[k] ELSE f[m] \o items[m + 1]]
    <2>2. \A k \in 0..m : f[k] = IF k = 0 THEN <<>> ELSE f[k - 1] \o items[k]
      BY <2>1
    <2>3. ASSUME NEW k \in 0..(m + 1)
          PROVE  g[k] = IF k = 0 THEN <<>> ELSE g[k - 1] \o items[k]
      <3>1. CASE k = 0
        <4>1. g[k] = f[k] /\ f[k] = <<>>
          BY <2>2, <3>1
        <4> QED BY <3>1, <4>1
      <3>2. CASE k \in 1..m
        <4>1. k \in 0..m /\ k - 1 \in 0..m /\ k # 0 /\ k - 1 \in 0..(m + 1)
          BY <3>2
        <4>2. g[k] = f[k] /\ g[k - 1] = f[k - 1]
          BY <4>1
        <4> QED BY <2>2, <4>1, <4>2
      <3>3. CASE k = m + 1
        <4>1. k \notin 0..m /\ k - 1 = m /\ k # 0 /\ m \in 0..m /\ m \in 0..(m + 1)
          BY <3>3
        <4>2. g[k] = f[m] \o items[m + 1] /\ g[k - 1] = f[m]
          BY <3>3, <4>1
        <4> QED BY <3>3, <4>1, <4>2
      <3> QED BY <3>1, <3>2, <3>3
    <2>4. DOMAIN g = 0..(m + 1)
      OBVIOUS
    <2>5. g = [k \in 0..(m + 1) |-> g[k]]
      OBVIOUS
    <2> HIDE DEF g
    <2>6. TakenOf(items, m + 1, g)
      BY <2>3, <2>5 DEF TakenOf
    <2> QED BY <2>6
  <1> HIDE DEF S
  <1>3. Nat \subseteq S
    BY <1>1, <1>2, Induction
  <1> QED BY <1>3 DEF S

LEMMA Counted ==
  ASSUME NEW a \in Nat, NEW b \in Nat, NEW k \in Nat, a <= k
  PROVE  /\ b = a => b <= k + 1 /\ b # k + 1
         /\ b = a + 1 => b <= k + 1 /\ (b = k + 1 <=> a = k)
  OBVIOUS

\* As many have been taken as could be converted.
LEMMA ConvertedIs ==
  ASSUME NEW items, NEW n \in Nat, DOMAIN items = 1..n, Len(items) = n,
         \A i \in 1..n : items[i] = <<>> \/ \E x : items[i] = <<x>>
  PROVE  Len(AR!Converted(items)) = n <=> \A i \in 1..n : items[i] # <<>>
  <1> DEFINE g == CHOOSE f : TakenOf(items, n, f)
             V == {items[i][1] : i \in 1..n}
  <1>1. AR!Converted(items) = g[n]
    BY DEF AR!Converted, TakenOf
  <1>2. TakenOf(items, n, g)
    BY TakenThere
  <1> HIDE DEF g
  <1>3. \A k \in 0..n : g[k] = IF k = 0 THEN <<>> ELSE g[k - 1] \o items[k]
    BY <1>2 DEF TakenOf
  <1>4. ASSUME NEW i \in 1..n PROVE items[i] \in Seq(V) /\ Len(items[i]) = IF items[i] = <<>> THEN 0 ELSE 1
    <2>1. CASE items[i] = <<>>
      BY <2>1, EmptySeq
    <2>2. CASE items[i] # <<>>
      <3>1. PICK x : items[i] = <<x>>
        BY <2>2
      <3>2. x \in V
        BY <3>1
      <3> HIDE DEF V
      <3> QED BY <2>2, <3>1, <3>2
    <2> QED BY <2>1, <2>2
  <1> HIDE DEF V
  <1> DEFINE all(k) == \A i \in 1..k : items[i] # <<>>
             P(k) == /\ g[k] \in Seq(V) /\ Len(g[k]) \in Nat /\ Len(g[k]) <= k
                     /\ Len(g[k]) = k <=> all(k)
             S == {k \in Nat : k \in 0..n => P(k)}
  <1>5. P(0)
    <2>1. 0 \in 0..n
      OBVIOUS
    <2>2. g[0] = <<>>
      BY <1>3, <2>1
    <2>3. <<>> \in Seq(V) /\ Len(<<>>) = 0
      BY EmptySeq
    <2>4. all(0)
      OBVIOUS
    <2> HIDE DEF all
    <2> QED BY <2>2, <2>3, <2>4
  <1>6. ASSUME NEW k \in Nat, k + 1 \in 0..n, P(k) PROVE P(k + 1)
    <2>1. k \in 0..n /\ k + 1 \in 0..n /\ k + 1 \in 1..n /\ (k + 1) - 1 = k /\ k + 1 # 0
      BY <1>6
    <2>2. g[k] \in Seq(V) /\ Len(g[k]) \in Nat /\ Len(g[k]) <= k /\ (Len(g[k]) = k <=> all(k))
      BY <1>6
    <2>3. g[k + 1] = g[k] \o items[k + 1]
      BY <1>3, <2>1
    <2>4. items[k + 1] \in Seq(V) /\ Len(items[k + 1]) = IF items[k + 1] = <<>> THEN 0 ELSE 1
      BY <1>4, <2>1
    <2>5. all(k + 1) <=> all(k) /\ items[k + 1] # <<>>
      <3>1. \A i : i \in 1..(k + 1) <=> i \in 1..k \/ i = k + 1
        OBVIOUS
      <3> QED BY <3>1
    <2> HIDE DEF all, S
    <2>6. g[k] \o items[k + 1] \in Seq(V) /\ Len(g[k] \o items[k + 1]) = Len(g[k]) + Len(items[k + 1])
      BY <2>2, <2>4, ConcatProperties
    <2>7. g[k + 1] \in Seq(V) /\ Len(g[k + 1]) = Len(g[k]) + Len(items[k + 1])
      BY <2>3, <2>6
    <2>8. Len(g[k + 1]) \in Nat
      BY <2>7, LenProperties
    <2>9. CASE items[k + 1] = <<>>
      <3>1. Len(g[k + 1]) = Len(g[k])
        BY <2>2, <2>4, <2>7, <2>9
      <3>2. Len(g[k + 1]) <= k + 1 /\ Len(g[k + 1]) # k + 1
        BY <2>2, <2>8, <3>1, Counted
      <3> QED BY <2>5, <2>7, <2>8, <2>9, <3>2
    <2>10. CASE items[k + 1] # <<>>
      <3>1. Len(g[k + 1]) = Len(g[k]) + 1
        BY <2>2, <2>4, <2>7, <2>10
      <3>2. Len(g[k + 1]) <= k + 1 /\ (Len(g[k + 1]) = k + 1 <=> Len(g[k]) = k)
        BY <2>2, <2>8, <3>1, Counted
      <3> QED BY <2>2, <2>5, <2>7, <2>8, <2>10, <3>2
    <2> QED BY <2>9, <2>10
  <1> HIDE DEF P
  <1>7. \A k \in Nat : k \in S => k + 1 \in S
    <2> TAKE k \in Nat
    <2>1. k + 1 \in 0..n => k \in 0..n
      OBVIOUS
    <2> QED BY <1>6, <2>1
  <1>8. 0 \in S
    BY <1>5
  <1> HIDE DEF S
  <1>9. Nat \subseteq S
    BY <1>7, <1>8, Induction
  <1>10. P(n)
    <2>1. n \in 0..n
      OBVIOUS
    <2> QED BY <1>9, <2>1 DEF S
  <1> QED BY <1>1, <1>10 DEF P

LEMMA RangeOfInts == ASSUME NEW a, NEW b PROVE a..b \subseteq Int
  BY SMT

LEMMA NumeralsAreThere == ArgumentsAssumption => None \notin AR!Numerals
  <1>1. AR!Numbers \subseteq Int
    BY RangeOfInts DEF AR!Numbers
  <1>2. AR!Numerals \subseteq [type : {"number"}, is : [form : AR!Forms, h : Int]]
    <2> SUFFICES ASSUME NEW n \in AR!Numerals
                 PROVE  n \in [type : {"number"}, is : [form : AR!Forms, h : Int]]
      OBVIOUS
    <2>1. PICK t \in [form : AR!Forms, h : AR!Numbers] : n = [type |-> "number", is |-> t]
      BY DEF AR!Numerals, AR!Texts, AR!Val
    <2>2. t \in [form : AR!Forms, h : Int]
      BY <1>1
    <2> QED BY <2>1, <2>2
  <1> QED BY <1>2 DEF ArgumentsAssumption, AR!Forms

-----------------------------------------------------------------------------
(* Values and their text.                                                  *)

\* What a caller sends.
Sendable(v) ==
  /\ v.type \in {"number", "int", "uint", "float64", "NaN", "string", "bool", "nil", "list"}
  /\ v.type = "number" => v.is.form \in AR!Forms /\ v.is.h \in AR!Numbers
                          /\ (v.is.form = "integer" => AR!Whole(v.is.h)) /\ v \in AR!Numerals
  /\ v.type = "int" => v.is \in AR!Signed(IntSize)
  /\ v.type = "uint" => v.is \in AR!Unsigned(IntSize)
  /\ v.type = "float64" => \E h \in AR!Numbers : v.is = AR!Float(h)
  /\ v.type = "list" => v \in AR!Lists

LEMMA SentSendable ==
  \A v \in AR!Typed \union AR!Strings \union AR!Plain \union AR!Numerals \union AR!Lists : Sendable(v)
  <1>1. \A v \in AR!Typed : Sendable(v)
    BY DEF AR!Typed, AR!Val, Sendable
  <1>2. \A v \in AR!Strings : Sendable(v)
    BY DEF AR!Strings, AR!Val, Sendable
  <1>3. \A v \in AR!Plain : Sendable(v)
    BY DEF AR!Plain, AR!Val, Sendable
  <1>4. ASSUME NEW v \in AR!Numerals PROVE Sendable(v)
    <2>1. PICK t \in AR!Texts(AR!Forms) : v = AR!Val("number", t)
      BY DEF AR!Numerals
    <2>2. t.form \in AR!Forms /\ t.h \in AR!Numbers /\ (t.form = "integer" => AR!Whole(t.h))
      BY DEF AR!Texts
    <2>3. v.type = "number" /\ v.is = t
      BY <2>1 DEF AR!Val
    <2> QED BY <2>2, <2>3 DEF Sendable
  <1>5. ASSUME NEW v \in AR!Lists PROVE Sendable(v)
    <2>1. v.type = "list"
      BY DEF AR!Lists, AR!Val
    <2> QED BY <2>1 DEF Sendable
  <1> QED BY <1>1, <1>2, <1>3, <1>4, <1>5

\* A number on the wire, and what is made of it.
ReadsWell(h) ==
  /\ h \in Int /\ AR!Float(h) \in Int /\ AR!Float(AR!Float(h)) = AR!Float(h)
  /\ h % 2 = 0 => AR!Float(h) % 2 = 0 /\ (AR!Abs(AR!Float(h)) < 2 => h = 0)

LEMMA NumbersGood ==
  /\ \A h \in AR!Numbers : ReadsWell(h) /\ ReadsWell(AR!Float(h))
  /\ \A n \in AR!Signed(IntSize) \union AR!Unsigned(IntSize) : n \in Int /\ 2 * n \in AR!Numbers
  <1>1. ASSUME NEW h \in AR!Numbers PROVE ReadsWell(h) /\ ReadsWell(AR!Float(h))
    <2>1. IsSmall(h)
      BY NumbersSmall
    <2>2. /\ AR!Float(h) \in Int /\ AR!Float(AR!Float(h)) = AR!Float(h)
          /\ h % 2 = 0 => AR!Float(h) % 2 = 0 /\ (AR!Abs(AR!Float(h)) < 2 => h = 0)
      BY <2>1, FloatIs
    <2>3. ReadsWell(h)
      BY <2>1, <2>2 DEF ReadsWell, IsSmall
    <2> DEFINE f == AR!Float(h)
    <2> HIDE DEF f
    <2>4. f \in Int /\ AR!Float(f) = f
      BY <2>2 DEF f
    <2>5. f % 2 = 0 => (AR!Abs(f) < 2 => f = 0)
      BY <2>4 DEF AR!Abs
    <2>6. ReadsWell(f)
      BY <2>4, <2>5 DEF ReadsWell
    <2> QED BY <2>3, <2>6 DEF f
  <1>2. ASSUME NEW n \in AR!Signed(IntSize) PROVE n \in Int /\ 2 * n \in AR!Numbers
    <2>1. n \in -PowerOf2(IntSize - 1)..PowerOf2(IntSize - 1) - 1
      BY DEF AR!Signed, PowerOf2
    <2>2. n \in Int /\ -PowerOf2(IntSize - 1) <= n /\ n < PowerOf2(IntSize - 1)
      BY <2>1, NumbersSmall
    <2>3. 2 * n \in Int /\ -PowerOf2(IntSize) - 4 <= 2 * n /\ 2 * n <= 2 * PowerOf2(IntSize) + 8
      BY <2>2, NumbersSmall
    <2> QED BY <2>2, <2>3, NumbersSmall
  <1>3. ASSUME NEW n \in AR!Unsigned(IntSize) PROVE n \in Int /\ 2 * n \in AR!Numbers
    <2>1. n \in 0..PowerOf2(IntSize) - 1
      BY DEF AR!Unsigned, PowerOf2
    <2>2. n \in Int /\ 0 <= n /\ n < PowerOf2(IntSize)
      BY <2>1, NumbersSmall
    <2>3. 2 * n \in Int /\ -PowerOf2(IntSize) - 4 <= 2 * n /\ 2 * n <= 2 * PowerOf2(IntSize) + 8
      BY <2>2, NumbersSmall
    <2> QED BY <2>2, <2>3, NumbersSmall
  <1> QED BY <1>1, <1>2, <1>3

IsNumber(v) == v.type \in {"number", "int", "uint", "float64"}
NumberIn(v) == IF v.type \in {"int", "uint"} THEN 2 * v.is ELSE IF v.type = "number" THEN v.is.h ELSE v.is

\* The text of a value that is sent on, and what that is read as.
LEMMA EncodedIs ==
  ASSUME NEW v, Sendable(v), v.type # "NaN"
  PROVE  LET t == AR!Encode(v) h == NumberIn(v)
         IN  /\ IsNumber(v) =>
                  /\ t.type = "number" /\ t.is.h = h /\ t.is.form \in AR!Forms
                  /\ t.is.form = "integer" => AR!Whole(h)
                  /\ v.type = "number" => t = v
                  /\ v.type # "number" /\ AR!Whole(h) => t.is.form = "integer"
                  /\ v.type # "number" => t.is.form # "long"
                  /\ ReadsWell(h) /\ AR!Decode(t) = AR!Val("float64", AR!Float(h)) /\ AR!NumberOf(v) = {h}
                  /\ v.type = "float64" => AR!Float(h) = h
                  /\ t # None
             /\ ~IsNumber(v) => /\ t = v /\ AR!NumberOf(v) = {}
                                /\ v.type # "list" => AR!Decode(t) = v
  <1> DEFINE t == AR!Encode(v)
             h == NumberIn(v)
  <1>1. CASE v.type \in {"int", "uint"}
    <2>1. v.is \in Int /\ 2 * v.is \in AR!Numbers /\ ReadsWell(2 * v.is)
      BY <1>1, NumbersGood DEF Sendable
    <2>2. t = AR!Val("number", [form |-> "integer", h |-> 2 * v.is]) /\ h = 2 * v.is
      BY <1>1 DEF AR!Encode, NumberIn
    <2>3. t.type = "number" /\ t.is.h = h /\ t.is.form = "integer" /\ AR!Whole(h)
      BY <2>1, <2>2 DEF AR!Val, AR!Whole
    <2> HIDE DEF t
    <2>4. AR!Decode(t) = AR!Val("float64", AR!Float(h))
      BY <2>3 DEF AR!Decode
    <2>5. AR!NumberOf(v) = {h}
      BY <1>1, <2>2 DEF AR!NumberOf
    <2>6. t # None
      BY <2>1, <2>2, ArgumentsAssumption DEF ArgumentsAssumption, AR!Val
    <2> QED BY <1>1, <2>1, <2>2, <2>3, <2>4, <2>5, <2>6 DEF IsNumber, AR!Forms, t
  <1>2. CASE v.type = "float64"
    <2>1. PICK x \in AR!Numbers : v.is = AR!Float(x)
      BY <1>2 DEF Sendable
    <2>2. ReadsWell(v.is) /\ AR!Float(v.is) = v.is /\ v.is \in Int
      BY <2>1, NumbersGood DEF ReadsWell
    <2>3. /\ t = AR!Val("number", [form |-> IF AR!Whole(v.is) THEN "integer" ELSE "point", h |-> v.is])
          /\ h = v.is
      BY <1>2 DEF AR!Encode, NumberIn
    <2>4. t.type = "number" /\ t.is.h = h /\ t.is.form = IF AR!Whole(h) THEN "integer" ELSE "point"
      BY <2>3 DEF AR!Val
    <2>5. t # None
      BY <2>2, <2>3, ArgumentsAssumption DEF ArgumentsAssumption, AR!Val
    <2> HIDE DEF t
    <2>6. AR!Decode(t) = AR!Val("float64", AR!Float(h))
      BY <2>4 DEF AR!Decode
    <2>7. AR!NumberOf(v) = {h}
      BY <1>2, <2>3 DEF AR!NumberOf
    <2> QED BY <1>2, <2>2, <2>3, <2>4, <2>5, <2>6, <2>7 DEF IsNumber, AR!Forms, t
  <1>3. CASE v.type = "number"
    <2>1. t = v /\ h = v.is.h
      BY <1>3 DEF AR!Encode, NumberIn
    <2>2. v.is.form \in AR!Forms /\ h \in AR!Numbers /\ (v.is.form = "integer" => AR!Whole(h)) /\ v \in AR!Numerals
      BY <1>3, <2>1 DEF Sendable
    <2>3. ReadsWell(h) /\ v # None
      BY <2>2, NumbersGood, NumeralsAreThere, ArgumentsAssumption
    <2>4. AR!Decode(v) = AR!Val("float64", AR!Float(h)) /\ AR!NumberOf(v) = {h}
      BY <1>3, <2>1 DEF AR!Decode, AR!NumberOf
    <2> HIDE DEF t, h
    <2> QED BY <1>3, <2>1, <2>2, <2>3, <2>4 DEF IsNumber, t, h
  <1>4. CASE ~IsNumber(v)
    <2>1. t = v
      BY <1>4 DEF AR!Encode, IsNumber
    <2>2. AR!NumberOf(v) = {}
      BY <1>4 DEF AR!NumberOf, IsNumber
    <2>3. v.type # "list" => AR!Decode(v) = v
      BY <1>4 DEF AR!Decode, IsNumber
    <2> HIDE DEF t
    <2> QED BY <1>4, <2>1, <2>2, <2>3 DEF t
  <1> QED BY <1>1, <1>2, <1>3, <1>4 DEF IsNumber

Ints == AR!Signed(IntSize)

\* What fits some bits, by the bound.
LEMMA BitsHold ==
  ASSUME NEW bits \in NarrowSizes \union {IntSize}
  PROVE  /\ \A n \in Int : /\ n \in AR!Signed(bits) <=> -PowerOf2(bits - 1) <= n /\ n < PowerOf2(bits - 1)
                           /\ n \in AR!Unsigned(bits) <=> 0 <= n /\ n < PowerOf2(bits)
         /\ AR!Signed(bits) \subseteq Ints
         /\ PowerOf2(bits - 1) \in Nat /\ PowerOf2(bits) \in Nat
  <1>1. bits \in 1..IntSize
    <2>1. IntSize \in 1..IntSize
      BY Doubles
    <2> QED BY <2>1, ArgumentsAssumption DEF ArgumentsAssumption
  <1>2. bits \in Exponents /\ bits - 1 \in Exponents /\ IntSize - 1 \in Exponents /\ bits - 1 <= IntSize - 1
    BY <1>1, Doubles DEF Exponents
  <1>3. PowerOf2(bits - 1) \in Nat /\ PowerOf2(bits) \in Nat /\ PowerOf2(IntSize - 1) \in Nat /\ PowerOf2(bits - 1) <= PowerOf2(IntSize - 1)
    BY <1>2, Doubles, Grow
  <1>4. /\ AR!Signed(bits) = -PowerOf2(bits - 1)..PowerOf2(bits - 1) - 1
        /\ AR!Unsigned(bits) = 0..PowerOf2(bits) - 1
        /\ Ints = -PowerOf2(IntSize - 1)..PowerOf2(IntSize - 1) - 1
    BY DEF AR!Signed, AR!Unsigned, PowerOf2, Ints
  <1> QED BY <1>3, <1>4

LEMMA IntsAre ==
  /\ \A n : n \in Ints <=> n \in Int /\ -PowerOf2(IntSize - 1) <= n /\ n < PowerOf2(IntSize - 1)
  /\ \A n \in AR!Unsigned(IntSize) : n \in Int
  /\ 0 \in Ints /\ Ints \subseteq Int
  <1>1. Ints = -PowerOf2(IntSize - 1)..PowerOf2(IntSize - 1) - 1
    BY DEF AR!Signed, PowerOf2, Ints
  <1>2. PowerOf2(IntSize - 1) \in Nat /\ PowerOf2(IntSize - 1) >= 4
    BY NumbersSmall
  <1>3. \A n \in AR!Unsigned(IntSize) : n \in Int
    BY NumbersGood
  <1> QED BY <1>1, <1>2, <1>3

LEMMA Truncated ==
  ASSUME NEW h \in Int
  PROVE  /\ AR!Trunc(h) \in Int
         /\ h >= 0 => AR!Trunc(h) >= 0
         /\ h < 0 => AR!Trunc(h) <= 0
         /\ h % 2 = 0 => AR!Trunc(h) = h \div 2 /\ 2 * AR!Trunc(h) = h
  <1>1. CASE h >= 0
    <2>1. AR!Trunc(h) = h \div 2
      BY <1>1 DEF AR!Trunc, AR!Sign, AR!Abs
    <2> QED BY <1>1, <2>1
  <1>2. CASE h < 0
    <2>1. AR!Trunc(h) = -((-h) \div 2)
      BY <1>2 DEF AR!Trunc, AR!Sign, AR!Abs
    <2> QED BY <1>2, <2>1
  <1> QED BY <1>1, <1>2

LEMMA Doubled ==
  ASSUME NEW n \in Int
  PROVE  2 * n \in Int /\ (2 * n) % 2 = 0 /\ (2 * n) \div 2 = n /\ AR!Trunc(2 * n) = n
  <1>1. 2 * n \in Int /\ (2 * n) % 2 = 0 /\ (2 * n) \div 2 = n
    OBVIOUS
  <1> QED BY <1>1, Truncated

LEMMA ConvertFits ==
  ASSUME NEW h, AR!Trunc(h) \in Ints
  PROVE  AR!Convert(h) = AR!Trunc(h)
  BY DEF AR!Convert, Ints

-----------------------------------------------------------------------------
(* What the handler has.                                                    *)

LEMMA ListShapes ==
  ASSUME NEW v \in AR!Lists
  PROVE  \/ v = AR!Val("list", <<>>)
         \/ \E i \in AR!Items : v = AR!Val("list", <<i>>)
         \/ \E i \in AR!Items : \E j \in AR!Items : v = AR!Val("list", <<i, j>>)
  <1> DEFINE one == {AR!Val("list", <<i>>) : i \in AR!Items}
             two == {AR!Val("list", <<i, j>>) : i \in AR!Items, j \in AR!Items}
             One == \E i \in AR!Items : v = AR!Val("list", <<i>>)
             Pair == \E i \in AR!Items : \E j \in AR!Items : v = AR!Val("list", <<i, j>>)
  <1>1. (v \in one => One) /\ (v \in two => Pair)
    OBVIOUS
  <1>2. AR!Lists = {AR!Val("list", <<>>)} \union one \union two
    BY DEF AR!Lists
  <1> HIDE DEF one, two, One, Pair
  <1>3. v = AR!Val("list", <<>>) \/ One \/ Pair
    BY <1>1, <1>2
  <1> QED BY <1>3 DEF One, Pair

LEMMA ListsAreThere == None \notin AR!Lists
  <1> DEFINE I == [type : {"number", "string", "bool", "nil"},
                   is : BOOLEAN \union Int \union
                          [form : {"integer", "point", "exponent", "long", "spaced", "word", "true"}, h : Int]]
             L == [type : {"list"}, is : {<<>>} \union Seq(I)]
  <1>1. 2 ^ (Significand + 1) \in Int /\ 2 ^ IntSize \in Int
    <2>1. Significand + 1 \in Exponents /\ IntSize \in Exponents
      BY Doubles, ArgumentsAssumption DEF Exponents, ArgumentsAssumption
    <2> QED BY <2>1, Doubles DEF PowerOf2
  <1>2. AR!Items \subseteq I
    <2> SUFFICES ASSUME NEW i \in AR!Items PROVE i \in I
      OBVIOUS
    <2>1. CASE i \in AR!Plain
      <3>1. CASE i = AR!Val("nil", 0)
        <4>1. i.type = "nil" /\ i = [type |-> "nil", is |-> 0] /\ 0 \in Int
          BY <3>1 DEF AR!Val
        <4> QED BY <4>1
      <3>2. CASE \E b \in BOOLEAN : i = AR!Val("bool", b)
        <4>1. PICK b \in BOOLEAN : i = [type |-> "bool", is |-> b]
          BY <3>2 DEF AR!Val
        <4> QED BY <4>1, Zenon
      <3> QED BY <2>1, <3>1, <3>2 DEF AR!Plain
    <2>2. CASE \E h \in {-2, 2, 2 ^ (Significand + 1) + 2, 2 ^ IntSize} :
                 i = AR!Val("number", [form |-> "integer", h |-> h])
      <3>1. PICK h \in Int : i = AR!Val("number", [form |-> "integer", h |-> h])
        BY <1>1, <2>2
      <3> QED BY <3>1 DEF AR!Val
    <2>3. CASE \E f \in {"integer", "spaced", "point"} : i = AR!Val("string", [form |-> f, h |-> 2])
      BY <2>3 DEF AR!Val
    <2> QED BY <2>1, <2>2, <2>3 DEF AR!Items
  <1> HIDE DEF I
  <1>3. \A v \in AR!Lists : v \in L
    <2> SUFFICES ASSUME NEW v \in AR!Lists PROVE v \in L
      OBVIOUS
    <2>1. AR!Val("list", <<>>) \in L
      BY DEF AR!Val
    <2>2. \A i \in AR!Items : AR!Val("list", <<i>>) \in L
      BY <1>2 DEF AR!Val
    <2>3. \A i \in AR!Items : \A j \in AR!Items : AR!Val("list", <<i, j>>) \in L
      BY <1>2 DEF AR!Val
    <2> HIDE DEF L
    <2>4. CASE \E i \in AR!Items : \E j \in AR!Items : v = AR!Val("list", <<i, j>>)
      <3>1. PICK i \in AR!Items : \E j \in AR!Items : v = AR!Val("list", <<i, j>>)
        BY <2>4
      <3>2. PICK j \in AR!Items : v = AR!Val("list", <<i, j>>)
        BY <3>1
      <3>3. AR!Val("list", <<i, j>>) \in L
        BY <2>3
      <3> QED BY <3>2, <3>3
    <2> QED BY <2>1, <2>2, <2>4, ListShapes
  <1>4. None \notin L
    BY ArgumentsAssumption DEF ArgumentsAssumption, I
  <1> QED BY <1>3, <1>4

\* The caller's value as it is, or what its text decodes to, with the text
\* beside it.
AsText == slot3 = AR!Encode(slot1) /\ slot2 = AR!Decode(slot3)

ArgumentsInv ==
  /\ slot5 \in 0..MaxHops /\ slot4 \in BOOLEAN
  /\ Sendable(slot1)
  /\ \/ slot3 = None /\ slot2 = slot1 /\ slot1.type \notin {"number", "list"}
     \/ AsText /\ slot1.type # "NaN"

\* A value that is sent on has the text it came with, or is given it.
LEMMA SentOn ==
  ASSUME ArgumentsInv, slot2.type # "NaN"
  PROVE  AR!MarshalJSON = AR!Encode(slot1) /\ slot1.type # "NaN"
  <1>1. CASE slot3 = None /\ slot2 = slot1
    BY <1>1 DEF AR!MarshalJSON
  <1>2. CASE AsText /\ slot3 # None
    BY <1>2 DEF AR!MarshalJSON, AsText, ArgumentsInv
  <1>3. CASE AsText /\ slot3 = None /\ slot1.type # "NaN"
    <2>1. Sendable(slot1)
      BY DEF ArgumentsInv
    <2>2. AR!Encode(slot1) = None
      BY <1>3 DEF AsText
    <2>3. ~IsNumber(slot1)
      BY <1>3, <2>1, <2>2, EncodedIs
    <2>4. AR!Encode(slot1) = slot1 /\ (slot1.type # "list" => AR!Decode(slot1) = slot1)
      BY <1>3, <2>1, <2>3, EncodedIs
    <2>5. slot1.type # "list"
      BY <2>1, <2>2, <2>4, ListsAreThere DEF Sendable
    <2> QED BY <1>3, <2>4, <2>5 DEF AR!MarshalJSON, AsText
  <1> QED BY <1>1, <1>2, <1>3 DEF ArgumentsInv

LEMMA ArgumentsKept == AR!Spec => []ArgumentsInv
  <1>1. AR!Init => ArgumentsInv
    <2> SUFFICES ASSUME AR!Init PROVE ArgumentsInv
      OBVIOUS
    <2>1. slot5 \in 0..MaxHops /\ slot4 \in BOOLEAN
      BY ArgumentsAssumption DEF AR!Init, ArgumentsAssumption
    <2>2. CASE /\ slot1 \in AR!Typed \union AR!Strings \union AR!Plain
               /\ slot2 = slot1 /\ slot3 = None
      <3>1. Sendable(slot1)
        BY <2>2, SentSendable
      <3>2. slot1.type \notin {"number", "list"}
        BY <2>2 DEF AR!Typed, AR!Strings, AR!Plain, AR!Val
      <3> QED BY <2>1, <2>2, <3>1, <3>2 DEF ArgumentsInv
    <2>3. CASE /\ slot1 \in AR!Numerals \union AR!Strings \union AR!Plain \union AR!Lists
               /\ slot2 = AR!Decode(slot1) /\ slot3 = slot1
      <3>1. Sendable(slot1)
        BY <2>3, SentSendable
      <3>2. slot1.type \in {"number", "string", "bool", "nil", "list"}
        BY <2>3 DEF AR!Numerals, AR!Strings, AR!Plain, AR!Lists, AR!Val
      <3>3. AR!Encode(slot1) = slot1
        BY <3>2 DEF AR!Encode
      <3> QED BY <2>1, <2>3, <3>1, <3>2, <3>3 DEF ArgumentsInv, AsText
    <2> QED BY <2>2, <2>3 DEF AR!Init
  <1>2. ArgumentsInv /\ [AR!Next]_AR!vars => ArgumentsInv'
    <2> SUFFICES ASSUME ArgumentsInv, [AR!Next]_AR!vars PROVE ArgumentsInv'
      OBVIOUS
    <2>1. CASE UNCHANGED AR!vars
      BY <2>1 DEF AR!vars, ArgumentsInv, AsText
    <2>2. CASE AR!Forward
      <3>1. /\ slot5 < MaxHops /\ slot5' = slot5 + 1 /\ slot1' = slot1 /\ slot4' = slot4
            /\ slot3' = AR!MarshalJSON /\ slot2' = AR!Decode(AR!MarshalJSON)
            /\ slot2.type # "NaN"
        BY <2>2 DEF AR!Forward
      <3>2. slot3' = AR!Encode(slot1) /\ slot2' = AR!Decode(slot3') /\ slot1.type # "NaN"
        BY <3>1, SentOn
      <3>3. slot5' \in 0..MaxHops
        BY <3>1, ArgumentsAssumption DEF ArgumentsInv, ArgumentsAssumption
      <3>4. AsText'
        BY <3>1, <3>2 DEF AsText
      <3> QED BY <3>1, <3>2, <3>3, <3>4 DEF ArgumentsInv
    <2> QED BY <2>1, <2>2 DEF AR!Next
  <1> QED BY <1>1, <1>2, PTL DEF AR!Spec

-----------------------------------------------------------------------------
(* The readers.                                                             *)

\* A number that the handler has is the caller's in the same process, or a
\* float64 with the caller's text beside it.
SameProcess ==
  /\ slot3 = None /\ slot2 = slot1
  /\ \/ slot2.type = "int" /\ slot2.is \in Ints
     \/ slot2.type = "uint" /\ slot2.is \in AR!Unsigned(IntSize)
     \/ slot2.type = "float64" /\ ReadsWell(slot2.is) /\ AR!Float(slot2.is) = slot2.is

OffTheWire(g) ==
  /\ ReadsWell(g) /\ AR!NumberOf(slot1) = {g}
  /\ slot2 = AR!Val("float64", AR!Float(g))
  /\ slot3 # None /\ slot3.type = "number" /\ slot3.is.h = g
  /\ slot3.is.form = "integer" => AR!Whole(g)
  /\ slot1.type = "number" => slot3 = slot1
  /\ slot1.type # "number" => slot3.is.form # "long"

LEMMA NumbersAre ==
  ASSUME ArgumentsInv
  PROVE  \/ AR!NumberOf(slot1) = {} /\ AR!NumberOf(slot2) = {}
         \/ SameProcess
         \/ \E g : OffTheWire(g)
  <1>1. CASE slot3 = None /\ slot2 = slot1 /\ slot1.type \notin {"number", "list"}
    <2>1. CASE slot1.type \in {"int", "uint"}
      BY <1>1, <2>1 DEF ArgumentsInv, Sendable, SameProcess, Ints
    <2>2. CASE slot1.type = "float64"
      <3>1. PICK x \in AR!Numbers : slot1.is = AR!Float(x)
        BY <2>2 DEF ArgumentsInv, Sendable
      <3>2. ReadsWell(slot1.is) /\ AR!Float(slot1.is) = slot1.is
        BY <3>1, NumbersGood DEF ReadsWell
      <3> QED BY <1>1, <2>2, <3>2 DEF SameProcess
    <2>3. CASE ~IsNumber(slot1)
      BY <1>1, <2>3 DEF AR!NumberOf, IsNumber
    <2> QED BY <1>1, <2>1, <2>2, <2>3 DEF IsNumber
  <1>2. CASE AsText /\ slot1.type # "NaN"
    <2>1. Sendable(slot1) /\ slot3 = AR!Encode(slot1) /\ slot2 = AR!Decode(slot3)
      BY <1>2 DEF ArgumentsInv, AsText
    <2>2. CASE IsNumber(slot1)
      <3> DEFINE g == NumberIn(slot1)
      <3>1. /\ slot3.type = "number" /\ slot3.is.h = g /\ slot3 # None
            /\ slot3.is.form = "integer" => AR!Whole(g)
            /\ slot1.type = "number" => slot3 = slot1
            /\ slot1.type # "number" => slot3.is.form # "long"
            /\ ReadsWell(g) /\ AR!Decode(slot3) = AR!Val("float64", AR!Float(g)) /\ AR!NumberOf(slot1) = {g}
        BY <1>2, <2>1, <2>2, EncodedIs
      <3> HIDE DEF g
      <3>2. OffTheWire(g)
        BY <2>1, <3>1 DEF OffTheWire
      <3> QED BY <3>2
    <2>3. CASE ~IsNumber(slot1)
      <3>1. slot3 = slot1 /\ AR!NumberOf(slot1) = {} /\ (slot1.type # "list" => AR!Decode(slot1) = slot1)
        BY <1>2, <2>1, <2>3, EncodedIs
      <3>2. slot1.type = "list" => slot2.type = "list"
        BY <2>1, <3>1 DEF AR!Decode, AR!Val
      <3>3. AR!NumberOf(slot2) = {}
        BY <2>1, <3>1, <3>2 DEF AR!NumberOf
      <3> QED BY <3>1, <3>3
    <2> QED BY <2>2, <2>3
  <1> QED BY <1>1, <1>2 DEF ArgumentsInv


ParsedIn(bits) == \A h \in AR!NumberOf(slot2) :
    /\ AR!checkedSignedInteger(bits) =
         IF AR!Trunc(h) \in AR!Signed(bits) THEN <<AR!Trunc(h)>> ELSE <<>>
    /\ AR!checkedUnsignedInteger(bits) =
         IF h >= 0 /\ AR!Trunc(h) \in AR!Unsigned(bits) THEN <<AR!Trunc(h)>> ELSE <<>>

LEMMA WholeFits ==
  ASSUME NEW bits \in NarrowSizes \union {IntSize}, slot2.type \in {"int", "uint"}, slot2.is \in Int
  PROVE  ParsedIn(bits)
  <1> DEFINE n == slot2.is
  <1>1. AR!NumberOf(slot2) = {2 * n} /\ AR!Trunc(2 * n) = n /\ n \in Int
    BY Doubled DEF AR!NumberOf
  <1>2. /\ AR!checkedSignedInteger(bits) =
             IF n <= PowerOf2(bits - 1) - 1 /\ n >= -PowerOf2(bits - 1) THEN <<n>> ELSE <<>>
        /\ AR!checkedUnsignedInteger(bits) = IF n >= 0 /\ n <= PowerOf2(bits) - 1 THEN <<n>> ELSE <<>>
    BY DEF AR!checkedSignedInteger, AR!checkedUnsignedInteger, PowerOf2
  <1> HIDE DEF n
  <1>3. /\ PowerOf2(bits - 1) \in Nat /\ PowerOf2(bits) \in Nat
        /\ n \in AR!Signed(bits) <=> -PowerOf2(bits - 1) <= n /\ n < PowerOf2(bits - 1)
        /\ n \in AR!Unsigned(bits) <=> 0 <= n /\ n < PowerOf2(bits)
    BY <1>1, BitsHold
  <1>4. n \in AR!Signed(bits) <=> n <= PowerOf2(bits - 1) - 1 /\ n >= -PowerOf2(bits - 1)
    BY <1>1, <1>3
  <1>5. n \in AR!Unsigned(bits) <=> n >= 0 /\ n <= PowerOf2(bits) - 1
    BY <1>1, <1>3
  <1>6. 2 * n >= 0 <=> n >= 0
    BY <1>1
  <1> QED BY <1>1, <1>2, <1>4, <1>5, <1>6 DEF ParsedIn

LEMMA FloatFits ==
  ASSUME NEW bits \in NarrowSizes \union {IntSize}, slot2.type = "float64", slot2.is \in Int
  PROVE  ParsedIn(bits)
  <1> DEFINE h == slot2.is
             n == AR!Trunc(h)
  <1>1. AR!NumberOf(slot2) = {h} /\ h \in Int /\ n \in Int /\ (h >= 0 => n >= 0)
    BY Truncated DEF AR!NumberOf
  <1>2. /\ AR!checkedSignedInteger(bits) =
             IF n < -PowerOf2(bits - 1) \/ n >= PowerOf2(bits - 1) THEN <<>> ELSE <<AR!Convert(h)>>
        /\ AR!checkedUnsignedInteger(bits) = IF h < 0 \/ n >= PowerOf2(bits) THEN <<>> ELSE <<n>>
    BY DEF AR!checkedSignedInteger, AR!checkedUnsignedInteger, PowerOf2
  <1>3. AR!Trunc(h) \in Ints => AR!Convert(h) = n
    BY ConvertFits
  <1>4. /\ PowerOf2(bits - 1) \in Nat /\ PowerOf2(bits) \in Nat
        /\ n \in AR!Signed(bits) <=> -PowerOf2(bits - 1) <= n /\ n < PowerOf2(bits - 1)
        /\ n \in AR!Unsigned(bits) <=> 0 <= n /\ n < PowerOf2(bits)
        /\ n \in AR!Signed(bits) => n \in Ints
    BY <1>1, BitsHold
  <1> HIDE DEF h
  <1>5. n \in AR!Signed(bits) <=> ~(n < -PowerOf2(bits - 1) \/ n >= PowerOf2(bits - 1))
    <2> HIDE DEF n
    <2> QED BY <1>1, <1>4
  <1>6. h >= 0 /\ n \in AR!Unsigned(bits) <=> ~(h < 0 \/ n >= PowerOf2(bits))
    <2> HIDE DEF n
    <2> QED BY <1>1, <1>4
  <1> QED BY <1>1, <1>2, <1>3, <1>4, <1>5, <1>6 DEF ParsedIn

LEMMA NumbersParsed ==
  ASSUME ArgumentsInv
  PROVE  \A bits \in NarrowSizes \union {IntSize} : ParsedIn(bits)
  <1> TAKE bits \in NarrowSizes \union {IntSize}
  <1>1. CASE AR!NumberOf(slot2) = {}
    BY <1>1 DEF ParsedIn
  <1>2. CASE SameProcess
    <2>1. CASE slot2.type \in {"int", "uint"}
      <3>1. slot2.is \in Int
        BY <1>2, <2>1, IntsAre DEF SameProcess
      <3> QED BY <2>1, <3>1, WholeFits
    <2>2. CASE slot2.type = "float64"
      <3>1. slot2.is \in Int
        BY <1>2, <2>2 DEF SameProcess, ReadsWell
      <3> QED BY <2>2, <3>1, FloatFits
    <2> QED BY <1>2, <2>1, <2>2 DEF SameProcess
  <1>3. CASE \E g : OffTheWire(g)
    <2>1. PICK g : OffTheWire(g)
      BY <1>3
    <2>2. slot2.type = "float64" /\ slot2.is \in Int
      BY <2>1 DEF OffTheWire, ReadsWell, AR!Val
    <2> QED BY <2>2, FloatFits
  <1> QED BY <1>1, <1>2, <1>3, NumbersAre

LEMMA AllParsedFits == ArgumentsInv => AR!ParsedFits
  BY NumbersParsed DEF ParsedIn, AR!ParsedFits

\* What is read of a float64 with no text, or of the text beside it.
LEMMA NoText ==
  ASSUME NEW v, v.type = "float64"
  PROVE  AR!AsInt(v, None) = <<AR!Convert(v.is)>>
  BY DEF AR!AsInt, AR!RawInt

LEMMA RawFits ==
  ASSUME NEW g, OffTheWire(g)
  PROVE  LET raw == AR!RawInt(slot3)
         IN  /\ raw = <<>> \/ (AR!Whole(g) /\ raw = <<g \div 2>>)
             /\ /\ AR!Whole(g) /\ g \div 2 \in Ints /\ slot3.is.form # "long"
                /\ slot3.is.form = "integer" \/ ~(AR!Abs(AR!Float(g)) < 2)
                => raw = <<g \div 2>>
             /\ AR!RequireInt = IF raw # <<>> THEN raw ELSE <<AR!Convert(AR!Float(g))>>
  <1> DEFINE raw == AR!RawInt(slot3)
  <1>1. /\ slot3 # None /\ slot3.type = "number" /\ slot3.is.h = g
        /\ slot2.type = "float64" /\ slot2.is = AR!Float(g)
    BY DEF OffTheWire, AR!Val
  <1>2. AR!RequireInt = IF raw # <<>> THEN raw ELSE <<AR!Convert(AR!Float(g))>>
    BY <1>1 DEF AR!RequireInt, AR!AsInt
  <1>3. AR!Atoi([form |-> "integer", h |-> g], AR!Signed(IntSize)) =
          IF g \div 2 \in Ints THEN <<g \div 2>> ELSE <<>>
    BY DEF AR!Atoi, Ints
  <1>4. raw = IF slot3.is.form = "long" \/ ~AR!Whole(g) THEN <<>>
              ELSE IF slot3.is.form # "integer" /\ AR!Abs(AR!Float(g)) < 2 THEN <<>>
              ELSE IF g \div 2 \in Ints THEN <<g \div 2>> ELSE <<>>
    BY <1>1, <1>3 DEF AR!RawInt
  <1> HIDE DEF raw
  <1> QED BY <1>2, <1>4 DEF raw

LEMMA AllExact == ArgumentsInv => AR!ExactIntegers
  <1> SUFFICES ASSUME ArgumentsInv, NEW h \in AR!NumberOf(slot1),
                      AR!Whole(h), h \div 2 \in Ints,
                      slot1.type = "number" => slot1.is.form # "long", slot2.type # "uint"
               PROVE  AR!RequireInt = <<h \div 2>>
    BY DEF AR!ExactIntegers, Ints
  <1>1. CASE SameProcess
    <2>1. CASE slot2.type = "int"
      <3>1. h = 2 * slot2.is /\ slot2.is \in Int
        BY <1>1, <2>1, IntsAre DEF SameProcess, AR!NumberOf
      <3>2. AR!RequireInt = <<slot2.is>>
        BY <2>1 DEF AR!RequireInt, AR!AsInt
      <3>3. h \div 2 = slot2.is
        BY <3>1, Doubled
      <3> QED BY <3>2, <3>3
    <2>2. CASE slot2.type = "float64"
      <3>1. h = slot2.is /\ h \in Int
        BY <1>1, <2>2 DEF SameProcess, AR!NumberOf, ReadsWell
      <3>2. AR!Trunc(h) = h \div 2
        BY <3>1, Truncated DEF AR!Whole
      <3>3. AR!RequireInt = <<AR!Convert(h)>>
        BY <1>1, <2>2, <3>1, NoText DEF AR!RequireInt, SameProcess
      <3>4. AR!Convert(h) = h \div 2
        BY <3>2, ConvertFits
      <3> QED BY <3>3, <3>4
    <2> QED BY <1>1, <2>1, <2>2 DEF SameProcess
  <1>2. CASE \E g : OffTheWire(g)
    <2>1. PICK g : OffTheWire(g)
      BY <1>2
    <2>2. g = h /\ ReadsWell(h) /\ h \in Int /\ AR!Float(h) \in Int
      BY <2>1 DEF OffTheWire, ReadsWell
    <2>3. slot3.is.form # "long"
      BY <2>1 DEF OffTheWire
    <2>4. CASE slot3.is.form = "integer" \/ ~(AR!Abs(AR!Float(h)) < 2)
      <3>1. AR!RawInt(slot3) = <<h \div 2>>
        BY <2>1, <2>2, <2>3, <2>4, RawFits
      <3> QED BY <2>1, <2>2, <3>1, RawFits
    <2>5. CASE AR!Abs(AR!Float(h)) < 2
      <3>1. h = 0 /\ AR!Float(h) % 2 = 0
        BY <2>2, <2>5 DEF ReadsWell, AR!Whole
      <3> DEFINE f == AR!Float(h)
      <3>2. f = 0
        <4>1. f \in Int /\ f % 2 = 0 /\ AR!Abs(f) < 2
          BY <2>2, <2>5, <3>1
        <4> HIDE DEF f
        <4> QED BY <4>1 DEF AR!Abs
      <3>3. AR!Trunc(0) = 0 /\ 0 \div 2 = 0
        BY Truncated
      <3>4. AR!Convert(AR!Float(h)) = 0
        BY <3>2, <3>3, ConvertFits, IntsAre
      <3>5. AR!RawInt(slot3) = <<>> \/ AR!RawInt(slot3) = <<h \div 2>>
        BY <2>1, <2>2, RawFits
      <3> QED BY <2>1, <2>2, <3>1, <3>3, <3>4, <3>5, RawFits
    <2> QED BY <2>4, <2>5
  <1> QED BY <1>1, <1>2, NumbersAre

LEMMA AllReadersAgree == ArgumentsInv => AR!ReadersAgree
  <1> SUFFICES ASSUME ArgumentsInv, NEW h \in AR!NumberOf(slot2)
               PROVE  /\ slot2.type # "uint" => AR!RequireFloat = <<AR!Float(h)>>
                      /\ AR!checkedSignedInteger(IntSize) # <<>> /\ AR!RequireInt # <<>> =>
                           LET exact == 2 * AR!RequireInt[1]
                               parsed == 2 * AR!checkedSignedInteger(IntSize)[1]
                           IN  parsed = exact \/ parsed = AR!Float(exact)
    BY DEF AR!ReadersAgree
  <1>1. AR!checkedSignedInteger(IntSize) = IF AR!Trunc(h) \in Ints THEN <<AR!Trunc(h)>> ELSE <<>>
    BY NumbersParsed DEF ParsedIn, Ints
  <1>2. CASE SameProcess
    <2>1. CASE slot2.type \in {"int", "uint"}
      <3>1. h = 2 * slot2.is /\ slot2.is \in Int
        BY <1>2, <2>1, IntsAre DEF SameProcess, AR!NumberOf
      <3>2. AR!Trunc(h) = slot2.is
        BY <3>1, Doubled
      <3>3. AR!RequireInt = <<>> \/ AR!RequireInt = <<slot2.is>>
        BY <2>1 DEF AR!RequireInt, AR!AsInt
      <3>4. slot2.type # "uint" => AR!RequireFloat = <<AR!Float(h)>>
        BY <2>1, <3>1 DEF AR!RequireFloat, AR!AsFloat
      <3> QED BY <1>1, <3>2, <3>3, <3>4
    <2>2. CASE slot2.type = "float64"
      <3>1. h = slot2.is /\ AR!Float(h) = h
        BY <1>2, <2>2 DEF SameProcess, AR!NumberOf
      <3>2. AR!RequireInt = <<AR!Convert(h)>>
        BY <1>2, <2>2, <3>1, NoText DEF AR!RequireInt, SameProcess
      <3>3. AR!RequireFloat = <<AR!Float(h)>>
        BY <2>2, <3>1 DEF AR!RequireFloat, AR!AsFloat
      <3>4. AR!Trunc(h) \in Ints => AR!Convert(h) = AR!Trunc(h)
        BY ConvertFits
      <3> QED BY <1>1, <3>2, <3>3, <3>4
    <2> QED BY <1>2, <2>1, <2>2 DEF SameProcess
  <1>3. CASE \E g : OffTheWire(g)
    <2>1. PICK g : OffTheWire(g)
      BY <1>3
    <2>2. slot2.type = "float64" /\ slot2.is = AR!Float(g) /\ ReadsWell(g)
      BY <2>1 DEF OffTheWire, AR!Val
    <2>3. h = AR!Float(g) /\ AR!Float(h) = h /\ h \in Int /\ g \in Int
      BY <2>2 DEF AR!NumberOf, ReadsWell
    <2>4. AR!RequireFloat = <<AR!Float(h)>>
      BY <2>2, <2>3 DEF AR!RequireFloat, AR!AsFloat
    <2>5. CASE AR!RawInt(slot3) = <<>>
      <3>1. AR!RequireInt = <<AR!Convert(h)>>
        BY <2>1, <2>3, <2>5, RawFits
      <3>2. AR!Trunc(h) \in Ints => AR!Convert(h) = AR!Trunc(h)
        BY ConvertFits
      <3> QED BY <1>1, <2>4, <3>1, <3>2
    <2>6. CASE AR!Whole(g) /\ AR!RawInt(slot3) = <<g \div 2>>
      <3>1. AR!RequireInt = <<g \div 2>>
        BY <2>1, <2>6, RawFits
      <3>2. g % 2 = 0 /\ h % 2 = 0
        BY <2>2, <2>3, <2>6 DEF ReadsWell, AR!Whole
      <3>3. 2 * (g \div 2) = g /\ 2 * AR!Trunc(h) = h
        BY <2>3, <3>2, Truncated
      <3>4. AR!checkedSignedInteger(IntSize) # <<>> => 2 * AR!checkedSignedInteger(IntSize)[1] = h
        BY <1>1, <3>3
      <3>5. 2 * AR!RequireInt[1] = g
        BY <3>1, <3>3
      <3> QED BY <2>3, <2>4, <3>4, <3>5
    <2> QED BY <2>1, <2>5, <2>6, RawFits
  <1> QED BY <1>2, <1>3, NumbersAre

-----------------------------------------------------------------------------
(* Slices.                                                                  *)

\* An item is converted, or not.
LEMMA OneOrNone ==
  ASSUME NEW v
  PROVE  /\ AR!AsString(v) = <<>> \/ \E x : AR!AsString(v) = <<x>>
         /\ AR!AsInt(v, None) = <<>> \/ \E x : AR!AsInt(v, None) = <<x>>
         /\ AR!AsFloat(v) = <<>> \/ \E x : AR!AsFloat(v) = <<x>>
         /\ AR!AsBool(v) = <<>> \/ \E x : AR!AsBool(v) = <<x>>
  <1>1. AR!AsString(v) = <<>> \/ \E x : AR!AsString(v) = <<x>>
    BY DEF AR!AsString
  <1>2. AR!AsInt(v, None) = <<>> \/ \E x : AR!AsInt(v, None) = <<x>>
    <2>1. CASE v.type = "float64"
      BY <2>1, NoText
    <2>2. CASE v.type # "float64"
      BY <2>2 DEF AR!AsInt, AR!Atoi
    <2> QED BY <2>1, <2>2
  <1>3. AR!AsFloat(v) = <<>> \/ \E x : AR!AsFloat(v) = <<x>>
    BY DEF AR!AsFloat
  <1>4. AR!AsBool(v) = <<>> \/ \E x : AR!AsBool(v) = <<x>>
    BY DEF AR!AsBool
  <1> QED BY <1>1, <1>2, <1>3, <1>4

LEMMA ItemsAgree ==
  ASSUME slot2.type = "list", NEW n \in Nat, NEW items,
         DOMAIN items = 1..n, Len(items) = n, Len(AR!List) = n,
         \A i \in 1..n : items[i] = <<>> \/ \E x : items[i] = <<x>>
  PROVE  AR!Agree(items)
  <1>1. Len(AR!Converted(items)) = n <=> \A i \in 1..n : items[i] # <<>>
    BY ConvertedIs
  <1>2. AR!GetSlice(items, <<>>) = AR!Converted(items)
    BY DEF AR!GetSlice
  <1>3. AR!RequireSlice(items) =
          IF \E i \in 1..n : items[i] = <<>> THEN <<>> ELSE <<AR!Converted(items)>>
    BY DEF AR!RequireSlice
  <1> QED BY <1>1, <1>2, <1>3 DEF AR!Agree

LEMMA LengthOfItems ==
  ASSUME NEW n \in Nat, NEW f, f = [i \in 1..n |-> f[i]]
  PROVE  DOMAIN f = 1..n /\ Len(f) = n
  <1>1. DOMAIN f = 1..n
    OBVIOUS
  <1> DEFINE V == {f[i] : i \in 1..n}
  <1>2. f \in [1..n -> V]
    OBVIOUS
  <1> HIDE DEF V
  <1>3. f \in Seq(V)
    BY <1>2
  <1>4. Len(f) \in Nat /\ DOMAIN f = 1..Len(f)
    BY <1>3, LenProperties
  <1>5. Len(f) = n
    BY <1>1, <1>4
  <1> QED BY <1>1, <1>5

LEMMA AllSlicesAgree == ArgumentsInv => AR!SlicesAgree
  <1> SUFFICES ASSUME ArgumentsInv, slot2.type = "list"
               PROVE  /\ AR!Agree(AR!StringItems) /\ AR!Agree(AR!IntItems)
                      /\ AR!Agree(AR!FloatItems) /\ AR!Agree(AR!BoolItems)
    BY DEF AR!SlicesAgree
  <1>1. \E n \in Nat : DOMAIN AR!List = 1..n /\ Len(AR!List) = n
    <2>1. slot1.type = "list" /\ slot2 = AR!Decode(slot1) /\ slot1 \in AR!Lists
      <3>1. Sendable(slot1) /\ AsText /\ slot1.type # "NaN"
        BY DEF ArgumentsInv
      <3>2. ~IsNumber(slot1)
        <4> SUFFICES ASSUME IsNumber(slot1) PROVE FALSE
          OBVIOUS
        <4>1. AR!Decode(AR!Encode(slot1)) = AR!Val("float64", AR!Float(NumberIn(slot1)))
          BY <3>1, EncodedIs
        <4> QED BY <3>1, <4>1 DEF AsText, AR!Val
      <3>3. AR!Encode(slot1) = slot1 /\ (slot1.type # "list" => AR!Decode(slot1) = slot1)
        BY <3>1, <3>2, EncodedIs
      <3> QED BY <3>1, <3>3 DEF AsText, Sendable
    <2>2. \E n \in Nat : DOMAIN slot1.is = 1..n
      <3>1. CASE slot1 = AR!Val("list", <<>>)
        <4>1. slot1.is = <<>> /\ DOMAIN <<>> = 1..0
          BY <3>1 DEF AR!Val
        <4> QED BY <4>1
      <3>2. CASE \E i \in AR!Items : slot1 = AR!Val("list", <<i>>)
        <4>1. PICK i : slot1.is = <<i>>
          BY <3>2 DEF AR!Val
        <4>2. DOMAIN slot1.is = 1..1
          BY <4>1
        <4> QED BY <4>2
      <3>3. CASE \E i \in AR!Items : \E j \in AR!Items : slot1 = AR!Val("list", <<i, j>>)
        <4>1. PICK i, j : slot1.is = <<i, j>>
          BY <3>3 DEF AR!Val
        <4>2. DOMAIN slot1.is = 1..2
          BY <4>1
        <4> QED BY <4>2
      <3> QED BY <2>1, <3>1, <3>2, <3>3, ListShapes
    <2>3. PICK n \in Nat : DOMAIN slot1.is = 1..n
      BY <2>2
    <2>4. AR!List = [i \in 1..n |->
            IF slot1.is[i].type = "number" THEN AR!Val("float64", AR!Float(slot1.is[i].is.h)) ELSE slot1.is[i]]
      BY <2>1, <2>3 DEF AR!List, AR!Decode, AR!Val
    <2>5. AR!List = [i \in 1..n |-> AR!List[i]]
      BY <2>4
    <2>6. DOMAIN AR!List = 1..n /\ Len(AR!List) = n
      BY <2>5, LengthOfItems
    <2> QED BY <2>6
  <1>2. PICK n \in Nat : DOMAIN AR!List = 1..n /\ Len(AR!List) = n
    BY <1>1
  <1>3. AR!Agree(AR!StringItems)
    <2> DEFINE f == AR!StringItems
    <2>1. f = [i \in 1..n |-> AR!AsString(AR!List[i])]
      BY <1>2 DEF AR!StringItems
    <2> HIDE DEF f
    <2>2. f = [i \in 1..n |-> f[i]] /\ \A i \in 1..n : f[i] = AR!AsString(AR!List[i])
      BY <2>1
    <2>3. DOMAIN f = 1..n /\ Len(f) = n
      BY <2>2, LengthOfItems
    <2>4. \A i \in 1..n : f[i] = <<>> \/ \E x : f[i] = <<x>>
      BY <2>2, OneOrNone
    <2> QED BY <1>2, <2>3, <2>4, ItemsAgree DEF f
  <1>4. AR!Agree(AR!IntItems)
    <2> DEFINE f == AR!IntItems
    <2>1. f = [i \in 1..n |-> AR!AsInt(AR!List[i], None)]
      BY <1>2 DEF AR!IntItems
    <2> HIDE DEF f
    <2>2. f = [i \in 1..n |-> f[i]] /\ \A i \in 1..n : f[i] = AR!AsInt(AR!List[i], None)
      BY <2>1
    <2>3. DOMAIN f = 1..n /\ Len(f) = n
      BY <2>2, LengthOfItems
    <2>4. \A i \in 1..n : f[i] = <<>> \/ \E x : f[i] = <<x>>
      BY <2>2, OneOrNone
    <2> QED BY <1>2, <2>3, <2>4, ItemsAgree DEF f
  <1>5. AR!Agree(AR!FloatItems)
    <2> DEFINE f == AR!FloatItems
    <2>1. f = [i \in 1..n |-> AR!AsFloat(AR!List[i])]
      BY <1>2 DEF AR!FloatItems
    <2> HIDE DEF f
    <2>2. f = [i \in 1..n |-> f[i]] /\ \A i \in 1..n : f[i] = AR!AsFloat(AR!List[i])
      BY <2>1
    <2>3. DOMAIN f = 1..n /\ Len(f) = n
      BY <2>2, LengthOfItems
    <2>4. \A i \in 1..n : f[i] = <<>> \/ \E x : f[i] = <<x>>
      BY <2>2, OneOrNone
    <2> QED BY <1>2, <2>3, <2>4, ItemsAgree DEF f
  <1>6. AR!Agree(AR!BoolItems)
    <2> DEFINE f == AR!BoolItems
    <2>1. f = [i \in 1..n |-> AR!AsBool(AR!List[i])]
      BY <1>2 DEF AR!BoolItems
    <2> HIDE DEF f
    <2>2. f = [i \in 1..n |-> f[i]] /\ \A i \in 1..n : f[i] = AR!AsBool(AR!List[i])
      BY <2>1
    <2>3. DOMAIN f = 1..n /\ Len(f) = n
      BY <2>2, LengthOfItems
    <2>4. \A i \in 1..n : f[i] = <<>> \/ \E x : f[i] = <<x>>
      BY <2>2, OneOrNone
    <2> QED BY <1>2, <2>3, <2>4, ItemsAgree DEF f
  <1> QED BY <1>3, <1>4, <1>5, <1>6

-----------------------------------------------------------------------------
LEMMA AllSentOn == ArgumentsInv => AR!SentOnAsItCame
  BY DEF ArgumentsInv, AsText, AR!SentOnAsItCame, AR!Encode

LEMMA ArgumentsTyped == AR!Spec => [](AR!TypeOK /\ AR!ArgumentsRead)
  <1>1. ASSUME ArgumentsInv PROVE AR!TypeOK
    <2>1. slot5 \in 0..MaxHops /\ Sendable(slot1)
      BY <1>1 DEF ArgumentsInv
    <2>2. CASE slot3 = None /\ slot2 = slot1 /\ slot1.type \notin {"number", "list"}
      BY <2>1, <2>2 DEF AR!TypeOK, Sendable
    <2>3. CASE AsText /\ slot1.type # "NaN"
      <3> DEFINE text == AR!Encode(slot1)
      <3>1. text.type \in {"number", "string", "bool", "nil", "list"}
        BY <2>1, <2>3 DEF Sendable, AR!Encode, AR!Val
      <3> HIDE DEF text
      <3>2. AR!Decode(text).type \in {"float64", "string", "bool", "nil", "list"}
        BY <3>1 DEF AR!Decode, AR!Val
      <3>3. slot2 = AR!Decode(text) /\ slot2 = AR!Decode(slot3)
        BY <2>3 DEF AsText, text
      <3> QED BY <2>1, <3>2, <3>3 DEF AR!TypeOK
    <2> QED BY <1>1, <2>2, <2>3 DEF ArgumentsInv
  <1>2. ArgumentsInv => AR!TypeOK /\ AR!ArgumentsRead
    BY <1>1, AllExact, AllParsedFits, AllReadersAgree, AllSlicesAgree, AllSentOn DEF AR!ArgumentsRead
  <1> QED BY <1>2, ArgumentsKept, PTL

-----------------------------------------------------------------------------
(* Content, in the slots themselves: slot1 is the message as it was sent,   *)
(* slot3 as it is now, slot2 says that it was refused, slot4 counts proxies. *)

WireMessage ==
  [kind : {"prompt", "tool", "task", "resource", "sampling"}, role : {"user", "system"},
   needsInput : BOOLEAN, payload : WirePayloads,
   blocks : {None, Null} \union Seq(WireBlock)]

\* A decoder's outcome: refused, or one of S.
Yields(outcome, S) == outcome = <<>> \/ (outcome # <<>> /\ outcome[1] \in S)

LEMMA OneTaken ==
  ASSUME NEW x, NEW S, x \in S
  PROVE  Yields(<<x>>, S)
  BY DEF Yields

LEMMA AllTaken ==
  ASSUME NEW S, NEW n \in Nat, NEW results, DOMAIN results = 1..n,
         \A i \in 1..n : Yields(results[i], S)
  PROVE  Yields(CO!All(results), Seq(S))
  <1>1. CASE \E i \in 1..n : results[i] = <<>>
    BY <1>1 DEF CO!All, Yields
  <1>2. CASE ~\E i \in 1..n : results[i] = <<>>
    <2> DEFINE list == [i \in 1..n |-> results[i][1]]
    <2>1. CO!All(results) = <<list>>
      BY <1>2 DEF CO!All
    <2>2. \A i \in 1..n : list[i] \in S
      BY <1>2 DEF Yields
    <2>3. list \in [1..n -> S]
      BY <2>2
    <2>4. list \in Seq(S)
      BY <2>3, SeqDef
    <2> HIDE DEF list
    <2> QED BY <2>1, <2>4 DEF Yields
  <1> QED BY <1>1, <1>2

\* What the decoders make of the fields of a block.
LEMMA FieldsTyped ==
  /\ \A p \in WirePayloads :
       /\ CO!AsAny(p) \in WirePayloads /\ CO!NullIfNil(CO!AsAny(p)) \in WirePayloads
       /\ CO!MarshalStructured(CO!AsAny(p), CO!RawStructuredContent(p)) = p
  /\ \A a \in WireAnnotations : CO!ParseAnnotations(a) \in WireAnnotations
  <1>1. ASSUME NEW p \in WirePayloads
        PROVE  /\ CO!AsAny(p) \in WirePayloads /\ CO!NullIfNil(CO!AsAny(p)) \in WirePayloads
               /\ CO!MarshalStructured(CO!AsAny(p), CO!RawStructuredContent(p)) = p
    BY DEF WirePayloads, CO!AsAny, CO!NullIfNil, CO!MarshalStructured, CO!RawStructuredContent
  <1>2. ASSUME NEW a \in WireAnnotations
        PROVE  CO!ParseAnnotations(a) \in WireAnnotations
    BY DEF WireAnnotations, CO!ParseAnnotations
  <1> QED BY <1>1, <1>2

\* A field that is written with a value of its own set.
LEMMA FieldWritten ==
  ASSUME NEW I, NEW b \in Wire(I)
  PROVE  /\ b.annotations \in WireAnnotations /\ b.meta \in WireMeta /\ b.size \in WireSizes
         /\ b.variant \in WireVariants /\ b.resourceMeta \in WireResourceMeta
         /\ b.payload \in WirePayloads /\ b.items \in I /\ b.type \in CO!BlockTypes
         /\ \A a \in WireAnnotations : [b EXCEPT !.annotations = a] \in Wire(I)
         /\ \A m \in WireMeta : [b EXCEPT !.meta = m] \in Wire(I)
         /\ \A n \in WireSizes : [b EXCEPT !.size = n] \in Wire(I)
         /\ \A v \in WireVariants : [b EXCEPT !.variant = v] \in Wire(I)
         /\ \A m \in WireResourceMeta : [b EXCEPT !.resourceMeta = m] \in Wire(I)
         /\ \A p \in WirePayloads : [b EXCEPT !.payload = p] \in Wire(I)
         /\ \A J : \A i \in J : [b EXCEPT !.items = i] \in Wire(J)
  <1>1. b.type \in CO!BlockTypes
    BY DEF Wire, CO!BlockTypes
  <1> QED BY <1>1 DEF Wire

LEMMA UnmarshalLeafTyped ==
  ASSUME NEW I, NEW b \in Wire(I)
  PROVE  Yields(CO!UnmarshalLeaf(b), Wire(I))
  <1>1. Yields(<<>>, Wire(I))
    BY DEF Yields
  <1>2. Yields(CO!UnmarshalResource(b), Wire(I))
    <2> DEFINE v == IF b.variant = "both" THEN "text" ELSE b.variant
               m == IF b.resourceMeta = "null" THEN "none" ELSE b.resourceMeta
               c == [b EXCEPT !.variant = v]
               d == [c EXCEPT !.resourceMeta = m]
    <2>1. v \in WireVariants /\ m \in WireResourceMeta
      BY FieldWritten DEF WireVariants, WireResourceMeta
    <2>2. CO!UnmarshalResource(b) = <<>> \/ CO!UnmarshalResource(b) = <<d>>
      BY DEF CO!UnmarshalResource
    <2> HIDE DEF v, m
    <2>3. c \in Wire(I)
      BY <2>1, FieldWritten
    <2> HIDE DEF c
    <2>4. d \in Wire(I)
      BY <2>1, <2>3, FieldWritten
    <2> QED BY <2>2, <2>4 DEF Yields
  <1>3. Yields(<<[b EXCEPT !.payload = CO!NullIfNil(CO!AsAny(@))]>>, Wire(I))
    <2>1. CO!NullIfNil(CO!AsAny(b.payload)) \in WirePayloads
      BY FieldWritten, FieldsTyped
    <2>2. [b EXCEPT !.payload = CO!NullIfNil(CO!AsAny(b.payload))] \in Wire(I)
      BY <2>1, FieldWritten
    <2> QED BY <2>2 DEF Yields
  <1>4. Yields(<<b>>, Wire(I))
    BY DEF Yields
  <1> QED BY <1>1, <1>2, <1>3, <1>4 DEF CO!UnmarshalLeaf

LEMMA ParseResourceTyped ==
  ASSUME NEW I, NEW b \in Wire(I)
  PROVE  Yields(CO!ParseResourceContents(b), Wire(I))
  <1> DEFINE v == CASE b.variant = "both" -> "text" [] b.variant = "blob, text a number" -> "blob"
                    [] OTHER -> b.variant
             c == [b EXCEPT !.variant = v]
  <1>1. v \in WireVariants
    BY FieldWritten DEF WireVariants
  <1>2. CO!ParseResourceContents(b) = <<>> \/ CO!ParseResourceContents(b) = <<c>>
    BY DEF CO!ParseResourceContents
  <1> HIDE DEF v
  <1>3. c \in Wire(I)
    BY <1>1, FieldWritten
  <1> HIDE DEF c
  <1> QED BY <1>2, <1>3 DEF Yields

LEMMA ParseLeafTyped ==
  ASSUME NEW I, NEW b \in Wire(I)
  PROVE  Yields(CO!ParseLeaf(b), Wire(I))
  <1> DEFINE annotated == [b EXCEPT !.annotations = CO!ParseAnnotations(b.annotations)]
             meta == IF b.meta = "string" THEN "none" ELSE b.meta
             parsed == [annotated EXCEPT !.meta = meta]
             size == CASE parsed.size = "negative" -> "none" [] parsed.size = "numeral" -> "number"
                       [] OTHER -> parsed.size
             link == [parsed EXCEPT !.size = size]
             use == [parsed EXCEPT !.payload = CO!NullIfNil(CO!AsAny(parsed.payload))]
  <1>1. \/ CO!ParseLeaf(b) = <<>> \/ CO!ParseLeaf(b) = CO!ParseResourceContents(parsed)
        \/ CO!ParseLeaf(b) = <<link>> \/ CO!ParseLeaf(b) = <<use>> \/ CO!ParseLeaf(b) = <<parsed>>
    BY DEF CO!ParseLeaf
  <1>2. annotated \in Wire(I)
    BY FieldWritten, FieldsTyped
  <1>3. meta \in WireMeta
    BY FieldWritten DEF WireMeta
  <1>4. parsed \in Wire(I)
    <2> HIDE DEF annotated, meta
    <2> QED BY <1>2, <1>3, FieldWritten
  <1> HIDE DEF parsed
  <1>5. size \in WireSizes
    BY <1>4, FieldWritten DEF WireSizes
  <1>6. link \in Wire(I)
    <2> HIDE DEF size
    <2> QED BY <1>4, <1>5, FieldWritten
  <1>7. CO!NullIfNil(CO!AsAny(parsed.payload)) \in WirePayloads
    BY <1>4, FieldWritten, FieldsTyped
  <1>8. use \in Wire(I)
    BY <1>4, <1>7, FieldWritten
  <1>9. Yields(CO!ParseResourceContents(parsed), Wire(I))
    BY <1>4, ParseResourceTyped
  <1> HIDE DEF link, use
  <1> QED BY <1>1, <1>4, <1>6, <1>8, <1>9 DEF Yields

\* The lists of a block's own.
WireItems == {None, Null} \union Seq(WireLeaf)

LEMMA ListOfItems ==
  ASSUME NEW x, NEW S, x \in {None, Null} \union Seq(S), CO!IsList(x)
  PROVE  /\ x \in Seq(S) /\ Len(x) \in Nat /\ DOMAIN x = 1..Len(x)
         /\ \A i \in 1..Len(x) : x[i] \in S
  <1>1. x \in Seq(S)
    BY DEF CO!IsList
  <1> QED BY <1>1, ElementOfSeq, LenProperties

LEMMA UnmarshalContentTyped ==
  ASSUME NEW b \in WireBlock
  PROVE  Yields(CO!UnmarshalContent(b), WireBlock)
  <1> DEFINE leaf == CO!UnmarshalLeaf(b)
             each == [i \in DOMAIN b.items |-> CO!UnmarshalLeaf(b.items[i])]
             own == IF CO!IsList(b.items) THEN CO!All(each) ELSE <<Null>>
             filled == [leaf[1] EXCEPT !.items = own[1]]
             p == filled.payload
             whole == [filled EXCEPT !.payload = CO!MarshalStructured(CO!AsAny(p), CO!RawStructuredContent(p))]
  <1>1. b \in Wire(WireItems)
    BY DEF WireBlock, WireItems
  <1>2. Yields(leaf, Wire(WireItems))
    BY <1>1, UnmarshalLeafTyped
  <1>3. Yields(own, WireItems)
    <2>1. CASE CO!IsList(b.items)
      <3>1. b.items \in WireItems
        BY <1>1, FieldWritten
      <3>2. /\ Len(b.items) \in Nat /\ DOMAIN b.items = 1..Len(b.items)
            /\ \A i \in 1..Len(b.items) : b.items[i] \in Wire({Null})
        BY <2>1, <3>1, ListOfItems DEF WireItems, WireLeaf
      <3>3. \A i \in 1..Len(b.items) : Yields(each[i], Wire({Null}))
        BY <3>2, UnmarshalLeafTyped
      <3>4. DOMAIN each = 1..Len(b.items)
        BY <3>2
      <3> HIDE DEF each
      <3>5. Yields(CO!All(each), Seq(Wire({Null})))
        BY <3>2, <3>3, <3>4, AllTaken
      <3>6. own = CO!All(each)
        BY <2>1
      <3> QED BY <3>5, <3>6 DEF Yields, WireItems, WireLeaf
    <2>2. CASE ~CO!IsList(b.items)
      BY <2>2 DEF Yields, WireItems
    <2> QED BY <2>1, <2>2
  <1>4. \/ CO!UnmarshalContent(b) = leaf \/ CO!UnmarshalContent(b) = <<>>
        \/ CO!UnmarshalContent(b) = <<whole>> /\ leaf # <<>> /\ own # <<>>
    BY DEF CO!UnmarshalContent
  <1>5. ASSUME leaf # <<>>, own # <<>> PROVE whole \in Wire(WireItems)
    <2> HIDE DEF leaf, own
    <2>1. filled \in Wire(WireItems)
      BY <1>2, <1>3, <1>5, FieldWritten DEF Yields
    <2> HIDE DEF filled
    <2>2. whole.payload \in WirePayloads /\ CO!MarshalStructured(CO!AsAny(p), CO!RawStructuredContent(p)) = p
      BY <2>1, FieldWritten, FieldsTyped
    <2> QED BY <2>1, <2>2, FieldWritten
  <1>6. WireBlock = Wire(WireItems)
    BY DEF WireBlock, WireItems
  <1> HIDE DEF leaf, own, whole
  <1> QED BY <1>2, <1>4, <1>5, <1>6 DEF Yields

LEMMA ParseContentTyped ==
  ASSUME NEW b \in WireBlock
  PROVE  Yields(CO!ParseContent(b), WireBlock)
  <1> DEFINE leaf == CO!ParseLeaf(b)
             each == [i \in DOMAIN b.items |-> CO!ParseLeaf(b.items[i])]
             own == IF CO!IsList(b.items) THEN CO!All(each) ELSE <<Null>>
             kept == IF own[1] = <<>> THEN Null ELSE own[1]
             filled == [leaf[1] EXCEPT !.items = kept]
             whole == [filled EXCEPT !.payload = CO!AsAny(filled.payload)]
  <1>1. b \in Wire(WireItems)
    BY DEF WireBlock, WireItems
  <1>2. Yields(leaf, Wire(WireItems))
    BY <1>1, ParseLeafTyped
  <1>3. Yields(own, WireItems)
    <2>1. CASE CO!IsList(b.items)
      <3>1. b.items \in WireItems
        BY <1>1, FieldWritten
      <3>2. /\ Len(b.items) \in Nat /\ DOMAIN b.items = 1..Len(b.items)
            /\ \A i \in 1..Len(b.items) : b.items[i] \in Wire({Null})
        BY <2>1, <3>1, ListOfItems DEF WireItems, WireLeaf
      <3>3. \A i \in 1..Len(b.items) : Yields(each[i], Wire({Null}))
        BY <3>2, ParseLeafTyped
      <3>4. DOMAIN each = 1..Len(b.items)
        BY <3>2
      <3> HIDE DEF each
      <3>5. Yields(CO!All(each), Seq(Wire({Null})))
        BY <3>2, <3>3, <3>4, AllTaken
      <3>6. own = CO!All(each)
        BY <2>1
      <3> QED BY <3>5, <3>6 DEF Yields, WireItems, WireLeaf
    <2>2. CASE ~CO!IsList(b.items)
      BY <2>2 DEF Yields, WireItems
    <2> QED BY <2>1, <2>2
  <1>4. \/ CO!ParseContent(b) = leaf \/ CO!ParseContent(b) = <<>>
        \/ CO!ParseContent(b) = <<whole>> /\ leaf # <<>> /\ own # <<>>
    BY DEF CO!ParseContent
  <1>5. ASSUME leaf # <<>>, own # <<>> PROVE whole \in Wire(WireItems)
    <2>1. kept \in WireItems
      BY <1>3, <1>5 DEF Yields, WireItems
    <2> HIDE DEF leaf, kept
    <2>2. filled \in Wire(WireItems)
      BY <1>2, <1>5, <2>1, FieldWritten DEF Yields
    <2> HIDE DEF filled
    <2>3. CO!AsAny(filled.payload) \in WirePayloads
      BY <2>2, FieldWritten, FieldsTyped
    <2> QED BY <2>2, <2>3, FieldWritten
  <1>6. WireBlock = Wire(WireItems)
    BY DEF WireBlock, WireItems
  <1> HIDE DEF leaf, own, whole
  <1> QED BY <1>2, <1>4, <1>5, <1>6 DEF Yields

LEMMA DecodedTyped ==
  ASSUME NEW x \in {None, Null} \union Seq(WireBlock), NEW none \in {None, Null, <<>>}
  PROVE  /\ Yields(CO!Decoded(CO!UnmarshalContent, x, none), {None, Null} \union Seq(WireBlock))
         /\ Yields(CO!Decoded(CO!ParseContent, x, none), {None, Null} \union Seq(WireBlock))
         /\ Yields(CO!Decoded(CO!ParseResourceContents, x, none), {None, Null} \union Seq(WireBlock))
  <1> DEFINE one == [i \in DOMAIN x |-> CO!UnmarshalContent(x[i])]
             two == [i \in DOMAIN x |-> CO!ParseContent(x[i])]
             three == [i \in DOMAIN x |-> CO!ParseResourceContents(x[i])]
  <1>1. CASE CO!IsList(x)
    <2>1. /\ Len(x) \in Nat /\ DOMAIN x = 1..Len(x)
          /\ \A i \in 1..Len(x) : x[i] \in WireBlock
      BY <1>1, ListOfItems
    <2>2. \A i \in 1..Len(x) : Yields(one[i], WireBlock)
      BY <2>1, UnmarshalContentTyped
    <2>3. \A i \in 1..Len(x) : Yields(two[i], WireBlock)
      BY <2>1, ParseContentTyped
    <2>4. \A i \in 1..Len(x) : Yields(three[i], WireBlock)
      BY <2>1, ParseResourceTyped DEF WireBlock
    <2>5. DOMAIN one = 1..Len(x) /\ DOMAIN two = 1..Len(x) /\ DOMAIN three = 1..Len(x)
      BY <2>1
    <2>6. /\ CO!Decoded(CO!UnmarshalContent, x, none) = CO!All(one)
          /\ CO!Decoded(CO!ParseContent, x, none) = CO!All(two)
          /\ CO!Decoded(CO!ParseResourceContents, x, none) = CO!All(three)
      BY <1>1 DEF CO!Decoded
    <2> HIDE DEF one, two, three
    <2>7. /\ Yields(CO!All(one), Seq(WireBlock)) /\ Yields(CO!All(two), Seq(WireBlock))
          /\ Yields(CO!All(three), Seq(WireBlock))
      BY <2>1, <2>2, <2>3, <2>4, <2>5, AllTaken
    <2> QED BY <2>6, <2>7 DEF Yields
  <1>2. CASE ~CO!IsList(x)
    <2>1. /\ CO!Decoded(CO!UnmarshalContent, x, none) = <<none>>
          /\ CO!Decoded(CO!ParseContent, x, none) = <<none>>
          /\ CO!Decoded(CO!ParseResourceContents, x, none) = <<none>>
      BY <1>2 DEF CO!Decoded
    <2>2. none \in {None, Null} \union Seq(WireBlock)
      BY EmptySeq
    <2> QED BY <2>1, <2>2 DEF Yields
  <1> QED BY <1>1, <1>2

LEMMA MessageWritten ==
  ASSUME NEW m \in WireMessage
  PROVE  /\ \A x \in {None, Null} \union Seq(WireBlock) : [m EXCEPT !.blocks = x] \in WireMessage
         /\ \A p \in WirePayloads : [m EXCEPT !.payload = p] \in WireMessage
  BY DEF WireMessage

LEMMA WithTyped ==
  ASSUME NEW m \in WireMessage, NEW r, Yields(r, {None, Null} \union Seq(WireBlock))
  PROVE  Yields(CO!With(m, r), WireMessage) /\ Yields(CO!Structured(CO!With(m, r)), WireMessage)
  <1>1. CASE r = <<>>
    BY <1>1 DEF CO!With, CO!Structured, Yields
  <1>2. CASE r # <<>>
    <2> DEFINE filled == [m EXCEPT !.blocks = r[1]]
               p == filled.payload
               whole == [filled EXCEPT !.payload = CO!MarshalStructured(CO!AsAny(p), CO!RawStructuredContent(p))]
    <2>1. filled \in WireMessage
      BY <1>2, MessageWritten DEF Yields
    <2>2. CO!With(m, r) = <<filled>>
      BY <1>2 DEF CO!With
    <2>3. CO!Structured(<<filled>>) = <<whole>>
      BY DEF CO!Structured
    <2> HIDE DEF filled
    <2>4. p \in WirePayloads
      BY <2>1 DEF WireMessage
    <2>5. CO!MarshalStructured(CO!AsAny(p), CO!RawStructuredContent(p)) \in WirePayloads
      BY <2>4, FieldsTyped
    <2>6. whole \in WireMessage
      BY <2>1, <2>5, MessageWritten
    <2> HIDE DEF whole
    <2> QED BY <2>1, <2>2, <2>3, <2>6 DEF Yields
  <1> QED BY <1>1, <1>2

LEMMA ParseTyped ==
  ASSUME NEW m \in WireMessage
  PROVE  Yields(CO!Parse(m), WireMessage)
  <1> DEFINE L == {None, Null} \union Seq(WireBlock)
             D(x, none) == /\ Yields(CO!Decoded(CO!UnmarshalContent, x, none), L)
                           /\ Yields(CO!Decoded(CO!ParseContent, x, none), L)
                           /\ Yields(CO!Decoded(CO!ParseResourceContents, x, none), L)
  <1>1. m.blocks \in L
    BY DEF WireMessage
  <1>2. D(m.blocks, None) /\ D(m.blocks, Null) /\ D(m.blocks, <<>>)
    BY <1>1, DecodedTyped
  <1>3. Yields(<<>>, WireMessage)
    BY DEF Yields
  <1>4. Yields(<<None>>, L)
    BY DEF Yields
  <1>5. Yields(CO!ParseGetPromptResult(m), WireMessage)
    BY <1>2, <1>3, WithTyped DEF CO!ParseGetPromptResult
  <1>6. Yields(CO!ParseCallToolResult(m), WireMessage)
    BY <1>2, <1>3, WithTyped DEF CO!ParseCallToolResult
  <1>7. Yields(CO!ParseTaskResultResult(m), WireMessage)
    BY <1>2, <1>4, WithTyped DEF CO!ParseTaskResultResult
  <1>8. Yields(CO!ParseReadResourceResult(m), WireMessage)
    BY <1>2, <1>3, WithTyped DEF CO!ParseReadResourceResult
  <1>9. Yields(CO!ParseSamplingContent(m), WireMessage)
    BY <1>2, WithTyped DEF CO!ParseSamplingContent
  <1>10. m.kind \in {"prompt", "tool", "task", "resource", "sampling"}
    BY DEF WireMessage
  <1> QED BY <1>5, <1>6, <1>7, <1>8, <1>9, <1>10 DEF CO!Parse

LEMMA PlainTyped ==
  ASSUME NEW type \in CO!BlockTypes
  PROVE  CO!Plain(type) \in WireLeaf /\ CO!Plain(type).type = type
  BY DEF CO!Plain, CO!BlockTypes, WireLeaf, Wire, WireAnnotations, WireMeta, WireSizes, WireVariants,
         WireResourceMeta, WirePayloads

LEMMA RequiredTyped ==
  ASSUME NEW type
  PROVE  CO!Required(type) \subseteq {"data", "mimeType", "uri", "name", "id", "toolUseId"}
  BY DEF CO!Required

LEMMA VariedTyped ==
  ASSUME NEW b \in WireLeaf
  PROVE  CO!Varied(b) \subseteq WireLeaf
  <1> SUFFICES ASSUME NEW c \in CO!Varied(b) PROVE c \in WireLeaf
    OBVIOUS
  <1>1. CASE \E a \in CO!Annotations : c = [b EXCEPT !.annotations = a]
    <2>1. CO!Annotations \subseteq WireAnnotations
      BY DEF CO!Annotations, WireAnnotations
    <2> QED BY <1>1, <2>1, FieldWritten DEF WireLeaf
  <1>2. CASE \E m \in {"object", "string"} : c = [b EXCEPT !.meta = m]
    <2>1. {"object", "string"} \subseteq WireMeta
      BY DEF WireMeta
    <2> QED BY <1>2, <2>1, FieldWritten DEF WireLeaf
  <1>3. CASE \E e \in SUBSET CO!Required(b.type) : c = [b EXCEPT !.blank = e]
    <2>1. PICK e \in SUBSET CO!Required(b.type) : c = [b EXCEPT !.blank = e]
      BY <1>3
    <2>2. e \in SUBSET {"data", "mimeType", "uri", "name", "id", "toolUseId"}
      BY RequiredTyped
    <2> HIDE DEF CO!Required
    <2> QED BY <2>1, <2>2 DEF WireLeaf, Wire
  <1>4. CASE \E n \in {"number", "negative", "numeral"} : c = [b EXCEPT !.size = n]
    <2>1. {"number", "negative", "numeral"} \subseteq WireSizes
      BY DEF WireSizes
    <2> QED BY <1>4, <2>1, FieldWritten DEF WireLeaf
  <1>5. CASE \E v \in {"text", "blob", "both", "neither", "blob, text a number"},
                m \in {"none", "null", "object", "string"} :
               c = [b EXCEPT !.variant = v, !.resourceMeta = m]
    <2>1. PICK v \in WireVariants, m \in WireResourceMeta :
               c = [[b EXCEPT !.variant = v] EXCEPT !.resourceMeta = m]
      BY <1>5 DEF WireVariants, WireResourceMeta
    <2>2. [b EXCEPT !.variant = v] \in WireLeaf
      BY FieldWritten DEF WireLeaf
    <2> QED BY <2>1, <2>2, FieldWritten DEF WireLeaf
  <1>6. CASE \E p \in CO!Payloads : c = [b EXCEPT !.payload = p]
    <2>1. CO!Payloads \subseteq WirePayloads
      BY DEF WirePayloads, CO!Payloads
    <2> QED BY <1>6, <2>1, FieldWritten DEF WireLeaf
  <1> QED BY <1>1, <1>2, <1>3, <1>4, <1>5, <1>6 DEF CO!Varied

LEMMA LeafAmongBlocks == WireLeaf \subseteq WireBlock
  BY DEF WireLeaf, WireBlock, Wire

LEMMA BlocksTyped == CO!Leaves \subseteq WireLeaf /\ CO!Blocks \subseteq WireBlock
  <1>1. CO!Leaves \subseteq WireLeaf
    BY PlainTyped, VariedTyped DEF CO!Leaves
  <1>2. "tool_result" \in CO!BlockTypes
    BY DEF CO!BlockTypes
  <1>3. CO!Varied(CO!Plain("tool_result")) \subseteq WireBlock
    BY <1>2, PlainTyped, VariedTyped, LeafAmongBlocks
  <1>4. ASSUME NEW i \in {None, Null, <<>>} \union {<<leaf>> : leaf \in CO!Leaves}, NEW p \in CO!Payloads
        PROVE  CO!Holding(i, p) \in WireBlock
    <2>1. i \in WireItems
      <3>1. \A leaf \in WireLeaf : <<leaf>> \in Seq(WireLeaf)
        OBVIOUS
      <3> QED BY <1>1, <3>1, EmptySeq DEF WireItems
    <2>2. [CO!Plain("tool_result") EXCEPT !.items = i] \in Wire(WireItems)
      BY <1>2, <2>1, PlainTyped, FieldWritten DEF WireLeaf
    <2>3. p \in WirePayloads
      BY DEF CO!Payloads, WirePayloads
    <2> QED BY <2>2, <2>3, FieldWritten DEF WireBlock, WireItems, CO!Holding
  <1> DEFINE Results == {CO!Holding(i, p) :
                           i \in {None, Null, <<>>} \union {<<leaf>> : leaf \in CO!Leaves},
                           p \in CO!Payloads}
  <1>5. ASSUME NEW b \in CO!Blocks PROVE b \in WireBlock
    <2>0. CO!Blocks = CO!Leaves \union CO!Varied(CO!Plain("tool_result")) \union Results
      BY DEF CO!Blocks
    <2>1. CASE b \in CO!Leaves
      BY <2>1, <1>1, LeafAmongBlocks
    <2>2. CASE b \in CO!Varied(CO!Plain("tool_result"))
      BY <2>2, <1>3
    <2>3. CASE b \in Results
      <3>1. PICK i \in {None, Null, <<>>} \union {<<leaf>> : leaf \in CO!Leaves}, p \in CO!Payloads :
                 b = CO!Holding(i, p)
        BY <2>3
      <3> QED BY <3>1, <1>4
    <2> HIDE DEF Results
    <2> QED BY <2>0, <2>1, <2>2, <2>3
  <1> QED BY <1>1, <1>5

LEMMA MessagesTyped == CO!Messages \subseteq WireMessage
  <1> DEFINE L == {None, Null} \union Seq(WireBlock)
  <1>1. \A b \in WireBlock : <<b>> \in Seq(WireBlock)
    OBVIOUS
  <1>2. \A a, b \in WireBlock : <<a, b>> \in Seq(WireBlock)
    OBVIOUS
  <1>3. CO!Plain("text") \in WireBlock /\ CO!Plain("resource") \in WireBlock
    BY PlainTyped, LeafAmongBlocks DEF CO!BlockTypes
  <1>4. ASSUME NEW k \in {"prompt", "tool", "task", "resource", "sampling"}, NEW r \in {"user", "system"},
               NEW n \in BOOLEAN, NEW p \in CO!Payloads, NEW x \in L
        PROVE  CO!Message(k, r, n, p, x) \in WireMessage
    BY DEF CO!Message, WireMessage, CO!Payloads, WirePayloads
  <1>5. ASSUME NEW k \in {"prompt", "tool", "task", "resource", "sampling"},
               NEW x \in CO!Lists(CO!BlocksOf(k))
        PROVE  x \in L
    <2>1. CO!BlocksOf(k) \subseteq WireBlock
      BY BlocksTyped, LeafAmongBlocks DEF CO!BlocksOf
    <2> QED BY <1>1, <1>2, <1>3, <2>1 DEF CO!Lists
  <1>6. {None, Null, <<>>, <<CO!Plain("text")>>, <<CO!Plain("resource")>>} \subseteq L
    BY <1>1, <1>3, EmptySeq
  <1>7. "none" \in CO!Payloads
    BY DEF CO!Payloads
  <1> HIDE DEF L
  <1> DEFINE M1 == {CO!Message(k, "user", n, p, bs) :
                      k \in {"tool", "task"}, n \in BOOLEAN, p \in CO!Payloads,
                      bs \in {None, Null, <<>>, <<CO!Plain("text")>>}}
             M2 == {CO!Message(k, r, n, "none", bs) :
                      k \in {"prompt", "resource", "sampling"}, r \in {"user", "system"},
                      n \in BOOLEAN, bs \in {None, Null, <<>>, <<CO!Plain("resource")>>}}
             M3 == UNION {{CO!Message(k, "user", FALSE, "none", bs) : bs \in CO!Lists(CO!BlocksOf(k))} :
                            k \in {"prompt", "tool", "task", "resource", "sampling"}}
  <1>8. ASSUME NEW m \in CO!Messages PROVE m \in WireMessage
    <2>0. CO!Messages = M1 \union M2 \union M3
      BY DEF CO!Messages
    <2>1. CASE m \in M1
      <3>1. PICK k \in {"tool", "task"}, n \in BOOLEAN, p \in CO!Payloads,
                 bs \in {None, Null, <<>>, <<CO!Plain("text")>>} : m = CO!Message(k, "user", n, p, bs)
        BY <2>1
      <3>2. bs \in L
        BY <1>6
      <3> QED BY <3>1, <3>2, <1>4
    <2>2. CASE m \in M2
      <3>1. PICK k \in {"prompt", "resource", "sampling"}, r \in {"user", "system"}, n \in BOOLEAN,
                 bs \in {None, Null, <<>>, <<CO!Plain("resource")>>} : m = CO!Message(k, r, n, "none", bs)
        BY <2>2
      <3>2. bs \in L
        BY <1>6
      <3> QED BY <3>1, <3>2, <1>4, <1>7
    <2>3. CASE m \in M3
      <3>1. PICK k \in {"prompt", "tool", "task", "resource", "sampling"} :
                 \E bs \in CO!Lists(CO!BlocksOf(k)) : m = CO!Message(k, "user", FALSE, "none", bs)
        BY <2>3
      <3> QED BY <3>1, <1>4, <1>5, <1>7
    <2> HIDE DEF M1, M2, M3
    <2> QED BY <2>0, <2>1, <2>2, <2>3
  <1> QED BY <1>8

ContentInv ==
  /\ slot1 \in WireMessage /\ slot3 \in WireMessage
  /\ slot2 \in BOOLEAN /\ slot4 \in 0..MaxProxies

LEMMA ContentKept == CO!Spec => []ContentInv
  <1>1. CO!Init => ContentInv
    <2> SUFFICES ASSUME CO!Init PROVE ContentInv
      OBVIOUS
    <2>1. slot1 \in WireMessage /\ slot3 \in WireMessage
      BY MessagesTyped DEF CO!Init
    <2>2. MaxProxies \in Nat
      BY ContentAssumption DEF ContentAssumption
    <2>3. slot4 \in 0..MaxProxies
      BY <2>2 DEF CO!Init
    <2>4. slot2 \in BOOLEAN
      BY DEF CO!Init
    <2> QED BY <2>1, <2>3, <2>4 DEF ContentInv
  <1>2. ContentInv /\ [CO!Next]_CO!vars => ContentInv'
    <2> SUFFICES ASSUME ContentInv, [CO!Next]_CO!vars PROVE ContentInv'
      OBVIOUS
    <2>1. CASE UNCHANGED CO!vars
      BY <2>1 DEF CO!vars, ContentInv
    <2>2. CASE CO!Forward
      <3>1. Yields(CO!Parse(slot3), WireMessage)
        BY ParseTyped DEF ContentInv
      <3>2. /\ slot4 < MaxProxies /\ slot4' = slot4 + 1 /\ slot1' = slot1
            /\ slot2' = (CO!Parse(slot3) = <<>>)
            /\ slot3' = IF slot2' THEN slot3 ELSE CO!Parse(slot3)[1]
        BY <2>2 DEF CO!Forward
      <3>3. slot3' \in WireMessage
        BY <3>1, <3>2 DEF Yields, ContentInv
      <3>4. slot4' \in 0..MaxProxies
        BY <3>2, ContentAssumption DEF ContentInv, ContentAssumption
      <3>5. slot2' \in BOOLEAN
        BY <3>2
      <3> QED BY <3>2, <3>3, <3>4, <3>5 DEF ContentInv
    <2> QED BY <2>1, <2>2 DEF CO!Next
  <1> QED BY <1>1, <1>2, PTL DEF CO!Spec

LEMMA ContentTyped == CO!Spec => []CO!TypeOK
  <1>1. ContentInv => CO!TypeOK
    <2> SUFFICES ASSUME ContentInv PROVE CO!TypeOK
      OBVIOUS
    <2>1. slot3.payload \in CO!Payloads \union {"rounded"}
      BY DEF ContentInv, WireMessage, WirePayloads, CO!Payloads
    <2>2. ASSUME CO!IsList(slot3.blocks), NEW i \in DOMAIN slot3.blocks
          PROVE  slot3.blocks[i].type \in CO!BlockTypes
      <3>1. slot3.blocks[i] \in WireBlock
        BY <2>2, ListOfItems DEF ContentInv, WireMessage
      <3> QED BY <3>1, FieldWritten DEF WireBlock
    <2> QED BY <2>1, <2>2 DEF CO!TypeOK, ContentInv
  <1> QED BY <1>1, ContentKept, PTL

-----------------------------------------------------------------------------
(* What a decoder has made, it makes of itself.                            *)

LEMMA FieldKept ==
  ASSUME NEW I, NEW b \in Wire(I)
  PROVE  /\ [b EXCEPT !.annotations = b.annotations] = b /\ [b EXCEPT !.meta = b.meta] = b
         /\ [b EXCEPT !.size = b.size] = b /\ [b EXCEPT !.variant = b.variant] = b
         /\ [b EXCEPT !.resourceMeta = b.resourceMeta] = b
         /\ [b EXCEPT !.payload = b.payload] = b /\ [b EXCEPT !.items = b.items] = b
  BY DEF Wire

LEMMA FieldsAgain ==
  /\ \A p \in WirePayloads :
       /\ CO!AsAny(CO!AsAny(p)) = CO!AsAny(p)
       /\ CO!NullIfNil(CO!AsAny(CO!NullIfNil(CO!AsAny(p)))) = CO!NullIfNil(CO!AsAny(p))
  /\ \A a \in WireAnnotations : CO!ParseAnnotations(CO!ParseAnnotations(a)) = CO!ParseAnnotations(a)
  <1>1. ASSUME NEW p \in WirePayloads
        PROVE  /\ CO!AsAny(CO!AsAny(p)) = CO!AsAny(p)
               /\ CO!NullIfNil(CO!AsAny(CO!NullIfNil(CO!AsAny(p)))) = CO!NullIfNil(CO!AsAny(p))
    BY DEF WirePayloads, CO!AsAny, CO!NullIfNil
  <1>2. ASSUME NEW a \in WireAnnotations
        PROVE  CO!ParseAnnotations(CO!ParseAnnotations(a)) = CO!ParseAnnotations(a)
    BY DEF WireAnnotations, CO!ParseAnnotations
  <1> QED BY <1>1, <1>2

LEMMA UnmarshalLeafAgain ==
  ASSUME NEW I, NEW b \in Wire(I), CO!UnmarshalLeaf(b) # <<>>
  PROVE  /\ CO!UnmarshalLeaf(CO!UnmarshalLeaf(b)[1]) = CO!UnmarshalLeaf(b)
         /\ CO!UnmarshalLeaf(b)[1].type = b.type
  <1>1. ~(\/ b.annotations # None /\ b.annotations.priority = "numeral"
          \/ b.meta = "string"
          \/ b.type = "resource_link" /\ b.size = "numeral")
    BY DEF CO!UnmarshalLeaf
  <1>2. CASE b.type = "resource"
    <2> DEFINE v == IF b.variant = "both" THEN "text" ELSE b.variant
               m == IF b.resourceMeta = "null" THEN "none" ELSE b.resourceMeta
               c == [b EXCEPT !.variant = v]
               d == [c EXCEPT !.resourceMeta = m]
    <2>1. CO!UnmarshalLeaf(b) = <<d>>
      BY <1>1, <1>2 DEF CO!UnmarshalLeaf, CO!UnmarshalResource
    <2>2. /\ v # "both" /\ v \in WireVariants /\ m # "null" /\ m \in WireResourceMeta
          /\ v \notin {"neither", "blob, text a number"} /\ m # "string" /\ "uri" \notin b.blank
      BY <1>1, <1>2, FieldWritten DEF CO!UnmarshalLeaf, CO!UnmarshalResource, WireVariants, WireResourceMeta
    <2> HIDE DEF v, m
    <2>3. /\ c \in Wire(I) /\ c.variant = v /\ c.type = b.type
          /\ c.annotations = b.annotations /\ c.meta = b.meta /\ c.blank = b.blank
      BY <2>2, FieldWritten DEF Wire
    <2> HIDE DEF c
    <2>4. /\ d \in Wire(I) /\ d.variant = v /\ d.resourceMeta = m /\ d.type = b.type
          /\ d.annotations = b.annotations /\ d.meta = b.meta /\ d.blank = b.blank
      BY <2>2, <2>3, FieldWritten DEF Wire
    <2> HIDE DEF d
    <2>5. CO!UnmarshalResource(d) = <<d>>
      <3>1. [d EXCEPT !.variant = v, !.resourceMeta = m] = d
        BY <2>4 DEF Wire
      <3> QED BY <2>2, <2>4, <3>1 DEF CO!UnmarshalResource
    <2>6. CO!UnmarshalLeaf(d) = <<d>>
      BY <1>1, <1>2, <2>4, <2>5 DEF CO!UnmarshalLeaf
    <2> QED BY <2>1, <2>4, <2>6
  <1>3. CASE b.type = "tool_use"
    <2> DEFINE p == CO!NullIfNil(CO!AsAny(b.payload))
               d == [b EXCEPT !.payload = p]
    <2>1. CO!UnmarshalLeaf(b) = <<d>>
      BY <1>1, <1>3 DEF CO!UnmarshalLeaf
    <2>2. p \in WirePayloads /\ CO!NullIfNil(CO!AsAny(p)) = p
      BY FieldWritten, FieldsTyped, FieldsAgain
    <2> HIDE DEF p
    <2>3. /\ d \in Wire(I) /\ d.payload = p /\ d.type = b.type
          /\ d.annotations = b.annotations /\ d.meta = b.meta
      BY <2>2, FieldWritten DEF Wire
    <2> HIDE DEF d
    <2>4. [d EXCEPT !.payload = CO!NullIfNil(CO!AsAny(d.payload))] = d
      BY <2>2, <2>3, FieldKept
    <2>5. CO!UnmarshalLeaf(d) = <<d>>
      BY <1>1, <1>3, <2>3, <2>4 DEF CO!UnmarshalLeaf
    <2> QED BY <2>1, <2>3, <2>5
  <1>4. CASE b.type \notin {"resource", "tool_use"}
    <2>1. CO!UnmarshalLeaf(b) = <<b>>
      BY <1>1, <1>4 DEF CO!UnmarshalLeaf
    <2> QED BY <2>1
  <1> QED BY <1>2, <1>3, <1>4

LEMMA ParseResourceAgain ==
  ASSUME NEW I, NEW b \in Wire(I), CO!ParseResourceContents(b) # <<>>
  PROVE  /\ CO!ParseResourceContents(CO!ParseResourceContents(b)[1]) = CO!ParseResourceContents(b)
         /\ \E v \in WireVariants : CO!ParseResourceContents(b) = <<[b EXCEPT !.variant = v]>>
  <1> DEFINE v == CASE b.variant = "both" -> "text" [] b.variant = "blob, text a number" -> "blob"
                    [] OTHER -> b.variant
             c == [b EXCEPT !.variant = v]
  <1>1. CO!ParseResourceContents(b) = <<c>>
    BY DEF CO!ParseResourceContents
  <1>2. /\ ~("uri" \in b.blank \/ b.resourceMeta \in {"null", "string"} \/ b.variant = "neither")
        /\ v \in WireVariants /\ v \notin {"both", "neither", "blob, text a number"}
    BY FieldWritten DEF CO!ParseResourceContents, WireVariants
  <1> HIDE DEF v
  <1>3. /\ c \in Wire(I) /\ c.variant = v /\ c.blank = b.blank /\ c.resourceMeta = b.resourceMeta
    BY <1>2, FieldWritten DEF Wire
  <1>4. \E w \in WireVariants : CO!ParseResourceContents(b) = <<[b EXCEPT !.variant = w]>>
    BY <1>1, <1>2
  <1> HIDE DEF c
  <1>5. [c EXCEPT !.variant = v] = c
    BY <1>3, FieldKept
  <1>6. CO!ParseResourceContents(c) = <<c>>
    BY <1>2, <1>3, <1>5 DEF CO!ParseResourceContents
  <1> QED BY <1>1, <1>4, <1>6

LEMMA ParseLeafAgain ==
  ASSUME NEW I, NEW b \in Wire(I), CO!ParseLeaf(b) # <<>>
  PROVE  /\ CO!ParseLeaf(CO!ParseLeaf(b)[1]) = CO!ParseLeaf(b)
         /\ CO!ParseLeaf(b)[1].type = b.type
  <1> DEFINE annotated == [b EXCEPT !.annotations = CO!ParseAnnotations(b.annotations)]
             meta == IF b.meta = "string" THEN "none" ELSE b.meta
             parsed == [annotated EXCEPT !.meta = meta]
             Parsed(x) == [x EXCEPT !.annotations = CO!ParseAnnotations(@),
                                    !.meta = IF @ = "string" THEN "none" ELSE @]
             Size(x) == CASE x = "negative" -> "none" [] x = "numeral" -> "number" [] OTHER -> x
             Payload(x) == CO!NullIfNil(CO!AsAny(x))
  <1>1. b.blank = {}
    BY DEF CO!ParseLeaf
  <1>2. Parsed(b) = parsed
    BY DEF Wire
  <1>3. \A x : x.blank = {} =>
          CO!ParseLeaf(x) =
            CASE x.type = "resource" -> CO!ParseResourceContents(Parsed(x))
              [] x.type = "resource_link" -> <<[Parsed(x) EXCEPT !.size = Size(Parsed(x).size)]>>
              [] x.type = "tool_use" -> <<[Parsed(x) EXCEPT !.payload = Payload(Parsed(x).payload)]>>
              [] OTHER -> <<Parsed(x)>>
    BY DEF CO!ParseLeaf
  <1>4. annotated \in Wire(I)
    BY FieldWritten, FieldsTyped
  <1>5. meta \in WireMeta /\ meta # "string"
    BY FieldWritten DEF WireMeta
  <1>6. /\ parsed \in Wire(I) /\ parsed.annotations = CO!ParseAnnotations(b.annotations)
        /\ parsed.meta = meta /\ parsed.blank = {} /\ parsed.type = b.type
    <2> HIDE DEF meta
    <2>1. parsed \in Wire(I)
      BY <1>4, <1>5, FieldWritten
    <2> QED BY <1>1, <2>1 DEF Wire
  <1> HIDE DEF annotated, meta, parsed
  \* Parsing again leaves what has the annotations and the meta of parsed.
  <1>7. ASSUME NEW x \in Wire(I), x.annotations = parsed.annotations, x.meta = parsed.meta
        PROVE  Parsed(x) = x
    <2>1. CO!ParseAnnotations(x.annotations) = x.annotations
      BY <1>6, <1>7, FieldWritten, FieldsAgain
    <2> QED BY <1>5, <1>6, <1>7, <2>1 DEF Wire
  <1> HIDE DEF Parsed
  <1>8. CASE b.type = "resource"
    <2>1. CO!ParseLeaf(b) = CO!ParseResourceContents(parsed)
      BY <1>1, <1>2, <1>3, <1>8
    <2>2. PICK v \in WireVariants : CO!ParseResourceContents(parsed) = <<[parsed EXCEPT !.variant = v]>>
      BY <1>6, <2>1, ParseResourceAgain
    <2> DEFINE c == [parsed EXCEPT !.variant = v]
    <2>3. /\ c \in Wire(I) /\ c.annotations = parsed.annotations /\ c.meta = parsed.meta
          /\ c.blank = {} /\ c.type = b.type
      BY <1>6, FieldWritten DEF Wire
    <2>4. CO!ParseResourceContents(c) = <<c>>
      BY <1>6, <2>1, <2>2, ParseResourceAgain
    <2>6. CO!ParseLeaf(b) = <<c>>
      BY <2>1, <2>2
    <2> HIDE DEF c
    <2>5. CO!ParseLeaf(c) = <<c>>
      BY <1>3, <1>7, <1>8, <2>3, <2>4
    <2> QED BY <2>3, <2>5, <2>6
  <1>9. CASE b.type = "resource_link"
    <2> DEFINE n == Size(parsed.size)
               c == [parsed EXCEPT !.size = n]
    <2>1. CO!ParseLeaf(b) = <<c>>
      BY <1>1, <1>2, <1>3, <1>9
    <2>2. n \in WireSizes /\ Size(n) = n
      BY <1>6, FieldWritten DEF WireSizes
    <2> HIDE DEF Size
    <2>3. /\ c \in Wire(I) /\ c.annotations = parsed.annotations /\ c.meta = parsed.meta
          /\ c.blank = {} /\ c.type = b.type /\ c.size = n
      BY <1>6, <2>2, FieldWritten DEF Wire
    <2> HIDE DEF c, n
    <2>4. [c EXCEPT !.size = Size(c.size)] = c
      BY <2>2, <2>3, FieldKept
    <2>5. CO!ParseLeaf(c) = <<c>>
      BY <1>3, <1>7, <1>9, <2>3, <2>4
    <2> QED BY <2>1, <2>3, <2>5
  <1>10. CASE b.type = "tool_use"
    <2> DEFINE p == Payload(parsed.payload)
               c == [parsed EXCEPT !.payload = p]
    <2>1. CO!ParseLeaf(b) = <<c>>
      BY <1>1, <1>2, <1>3, <1>10
    <2>2. p \in WirePayloads /\ Payload(p) = p
      BY <1>6, FieldWritten, FieldsTyped, FieldsAgain
    <2> HIDE DEF Payload
    <2>3. /\ c \in Wire(I) /\ c.annotations = parsed.annotations /\ c.meta = parsed.meta
          /\ c.blank = {} /\ c.type = b.type /\ c.payload = p
      BY <1>6, <2>2, FieldWritten DEF Wire
    <2> HIDE DEF c, p
    <2>4. [c EXCEPT !.payload = Payload(c.payload)] = c
      BY <2>2, <2>3, FieldKept
    <2>5. CO!ParseLeaf(c) = <<c>>
      BY <1>3, <1>7, <1>10, <2>3, <2>4
    <2> QED BY <2>1, <2>3, <2>5
  <1>11. CASE b.type \notin {"resource", "resource_link", "tool_use"}
    <2>1. CO!ParseLeaf(b) = <<parsed>>
      BY <1>1, <1>2, <1>3, <1>11
    <2>2. CO!ParseLeaf(parsed) = <<parsed>>
      BY <1>3, <1>6, <1>7, <1>11
    <2> QED BY <1>6, <2>1, <2>2
  <1> QED BY <1>8, <1>9, <1>10, <1>11

\* A decoder makes one block of a block.
LEMMA LeafIsOne ==
  ASSUME NEW b
  PROVE  /\ CO!UnmarshalLeaf(b) # <<>> => CO!UnmarshalLeaf(b) = <<CO!UnmarshalLeaf(b)[1]>>
         /\ CO!ParseLeaf(b) # <<>> => CO!ParseLeaf(b) = <<CO!ParseLeaf(b)[1]>>
         /\ CO!ParseResourceContents(b) # <<>> => CO!ParseResourceContents(b) = <<CO!ParseResourceContents(b)[1]>>
  <1>1. /\ \E x : CO!UnmarshalResource(b) \in {<<>>, <<x>>}
        /\ \A y : \E x : CO!ParseResourceContents(y) \in {<<>>, <<x>>}
    BY DEF CO!UnmarshalResource, CO!ParseResourceContents
  <1> HIDE DEF CO!UnmarshalResource
  <1>2. \E x : CO!UnmarshalLeaf(b) \in {<<>>, <<x>>}
    BY <1>1 DEF CO!UnmarshalLeaf
  <1>3. \E x : CO!ParseLeaf(b) \in {<<>>, <<x>>}
    BY <1>1 DEF CO!ParseLeaf
  <1> QED BY <1>1, <1>2, <1>3

\* A list has been decoded if each of its elements has.
LEMMA AllMeans ==
  ASSUME NEW n \in Nat, NEW results, DOMAIN results = 1..n, CO!All(results) # <<>>
  PROVE  /\ CO!All(results) = <<[i \in 1..n |-> results[i][1]]>>
         /\ \A i \in 1..n : results[i] # <<>>
  BY DEF CO!All

LEMMA AllAgain ==
  ASSUME NEW S, NEW list \in Seq(S), NEW again, DOMAIN again = 1..Len(list),
         \A i \in 1..Len(list) : again[i] = <<list[i]>>
  PROVE  CO!All(again) = <<list>>
  <1>1. ~\E i \in DOMAIN again : again[i] = <<>>
    <2>1. \A x : <<x>> # <<>>
      OBVIOUS
    <2>2. \A i \in 1..Len(list) : again[i] # <<>>
      BY <2>1
    <2> QED BY <2>2
  <1>2. CO!All(again) = <<[i \in DOMAIN again |-> again[i][1]]>>
    BY <1>1 DEF CO!All
  <1>3. [i \in DOMAIN again |-> again[i][1]] = list
    <2>1. list = [i \in 1..Len(list) |-> list[i]]
      OBVIOUS
    <2> QED BY <2>1
  <1> QED BY <1>2, <1>3

\* The list of a tool's result, as each decoder makes it.
UnmarshalItems(x) ==
  IF CO!IsList(x) THEN CO!All([i \in DOMAIN x |-> CO!UnmarshalLeaf(x[i])]) ELSE <<Null>>
ParseItems(x) ==
  IF CO!IsList(x) THEN CO!All([i \in DOMAIN x |-> CO!ParseLeaf(x[i])]) ELSE <<Null>>

LEMMA UnmarshalItemsAgain ==
  ASSUME ContentAssumption, NEW x \in WireItems, UnmarshalItems(x) # <<>>
  PROVE  /\ UnmarshalItems(x) = <<UnmarshalItems(x)[1]>> /\ UnmarshalItems(x)[1] \in WireItems
         /\ UnmarshalItems(UnmarshalItems(x)[1]) = UnmarshalItems(x)
         /\ CO!IsList(x) =>
              /\ x \in Seq(WireLeaf) /\ CO!IsList(UnmarshalItems(x)[1])
              /\ UnmarshalItems(x)[1] \in Seq(WireLeaf)
              /\ Len(UnmarshalItems(x)[1]) = Len(x)
              /\ \A i \in 1..Len(x) : CO!UnmarshalLeaf(x[i]) = <<UnmarshalItems(x)[1][i]>>
         /\ ~CO!IsList(x) => UnmarshalItems(x)[1] = Null
  <1>1. CASE CO!IsList(x)
    <2>1. /\ x \in Seq(WireLeaf) /\ Len(x) \in Nat /\ DOMAIN x = 1..Len(x)
          /\ \A i \in 1..Len(x) : x[i] \in Wire({Null})
      BY <1>1, ListOfItems DEF WireItems, WireLeaf
    <2> DEFINE n == Len(x)
               each == [i \in 1..n |-> CO!UnmarshalLeaf(x[i])]
               list == [i \in 1..n |-> each[i][1]]
    <2>2. UnmarshalItems(x) = CO!All(each)
      BY <1>1, <2>1 DEF UnmarshalItems
    <2>3. DOMAIN each = 1..n /\ \A i \in 1..n : each[i] = CO!UnmarshalLeaf(x[i])
      OBVIOUS
    <2> HIDE DEF each
    <2>4. CO!All(each) = <<list>> /\ \A i \in 1..n : each[i] # <<>>
      BY <2>1, <2>2, <2>3, AllMeans
    <2>5. \A i \in 1..n : /\ list[i] \in WireLeaf /\ each[i] = <<list[i]>>
                          /\ CO!UnmarshalLeaf(list[i]) = <<list[i]>>
      <3> TAKE i \in 1..n
      <3>1. x[i] \in Wire({Null}) /\ CO!UnmarshalLeaf(x[i]) # <<>> /\ each[i] = CO!UnmarshalLeaf(x[i])
        BY <2>1, <2>3, <2>4
      <3>2. list[i] = CO!UnmarshalLeaf(x[i])[1]
        BY <3>1
      <3>3. CO!UnmarshalLeaf(x[i]) = <<list[i]>>
        BY <3>1, <3>2, LeafIsOne
      <3>4. list[i] \in WireLeaf
        BY <3>1, <3>2, UnmarshalLeafTyped DEF Yields, WireLeaf
      <3>5. CO!UnmarshalLeaf(list[i]) = CO!UnmarshalLeaf(x[i])
        BY <3>1, <3>2, UnmarshalLeafAgain
      <3> QED BY <3>1, <3>3, <3>4, <3>5
    <2>6. DOMAIN list = 1..n /\ list = [i \in 1..n |-> list[i]]
      OBVIOUS
    <2> HIDE DEF list
    <2>7. list \in Seq(WireLeaf) /\ Len(list) = n
      <3>1. list \in [1..n -> WireLeaf]
        BY <2>5, <2>6
      <3>2. list \in Seq(WireLeaf)
        BY <2>1, <3>1, SeqDef
      <3> QED BY <2>1, <2>6, <3>2, LenProperties
    <2>8. CO!IsList(list)
      BY <2>7 DEF CO!IsList, ContentAssumption
    <2>9. UnmarshalItems(list) = <<list>>
      <3> DEFINE again == [i \in DOMAIN list |-> CO!UnmarshalLeaf(list[i])]
      <3>1. DOMAIN again = 1..n /\ \A i \in 1..n : again[i] = <<list[i]>>
        BY <2>5, <2>6
      <3>2. UnmarshalItems(list) = CO!All(again)
        BY <2>8 DEF UnmarshalItems
      <3> HIDE DEF again
      <3> QED BY <2>7, <3>1, <3>2, AllAgain
    <2> HIDE DEF n
    <2>10. UnmarshalItems(x) = <<list>>
      BY <2>2, <2>4
    <2> QED BY <1>1, <2>1, <2>3, <2>5, <2>7, <2>8, <2>9, <2>10 DEF WireItems, n
  <1>2. CASE ~CO!IsList(x)
    BY <1>2 DEF UnmarshalItems, CO!IsList, WireItems
  <1> QED BY <1>1, <1>2

LEMMA ParseItemsAgain ==
  ASSUME ContentAssumption, NEW x \in WireItems, ParseItems(x) # <<>>
  PROVE  /\ ParseItems(x) = <<ParseItems(x)[1]>> /\ ParseItems(x)[1] \in WireItems
         /\ ParseItems(ParseItems(x)[1]) = ParseItems(x)
         /\ CO!IsList(x) =>
              /\ x \in Seq(WireLeaf) /\ CO!IsList(ParseItems(x)[1])
              /\ ParseItems(x)[1] \in Seq(WireLeaf)
              /\ Len(ParseItems(x)[1]) = Len(x)
              /\ \A i \in 1..Len(x) : CO!ParseLeaf(x[i]) = <<ParseItems(x)[1][i]>>
         /\ ~CO!IsList(x) => ParseItems(x)[1] = Null
  <1>1. CASE CO!IsList(x)
    <2>1. /\ x \in Seq(WireLeaf) /\ Len(x) \in Nat /\ DOMAIN x = 1..Len(x)
          /\ \A i \in 1..Len(x) : x[i] \in Wire({Null})
      BY <1>1, ListOfItems DEF WireItems, WireLeaf
    <2> DEFINE n == Len(x)
               each == [i \in 1..n |-> CO!ParseLeaf(x[i])]
               list == [i \in 1..n |-> each[i][1]]
    <2>2. ParseItems(x) = CO!All(each)
      BY <1>1, <2>1 DEF ParseItems
    <2>3. DOMAIN each = 1..n /\ \A i \in 1..n : each[i] = CO!ParseLeaf(x[i])
      OBVIOUS
    <2> HIDE DEF each
    <2>4. CO!All(each) = <<list>> /\ \A i \in 1..n : each[i] # <<>>
      BY <2>1, <2>2, <2>3, AllMeans
    <2>5. \A i \in 1..n : /\ list[i] \in WireLeaf /\ each[i] = <<list[i]>>
                          /\ CO!ParseLeaf(list[i]) = <<list[i]>>
      <3> TAKE i \in 1..n
      <3>1. x[i] \in Wire({Null}) /\ CO!ParseLeaf(x[i]) # <<>> /\ each[i] = CO!ParseLeaf(x[i])
        BY <2>1, <2>3, <2>4
      <3>2. list[i] = CO!ParseLeaf(x[i])[1]
        BY <3>1
      <3>3. CO!ParseLeaf(x[i]) = <<list[i]>>
        BY <3>1, <3>2, LeafIsOne
      <3>4. list[i] \in WireLeaf
        BY <3>1, <3>2, ParseLeafTyped DEF Yields, WireLeaf
      <3>5. CO!ParseLeaf(list[i]) = CO!ParseLeaf(x[i])
        BY <3>1, <3>2, ParseLeafAgain
      <3> QED BY <3>1, <3>3, <3>4, <3>5
    <2>6. DOMAIN list = 1..n /\ list = [i \in 1..n |-> list[i]]
      OBVIOUS
    <2> HIDE DEF list
    <2>7. list \in Seq(WireLeaf) /\ Len(list) = n
      <3>1. list \in [1..n -> WireLeaf]
        BY <2>5, <2>6
      <3>2. list \in Seq(WireLeaf)
        BY <2>1, <3>1, SeqDef
      <3> QED BY <2>1, <2>6, <3>2, LenProperties
    <2>8. CO!IsList(list)
      BY <2>7 DEF CO!IsList, ContentAssumption
    <2>9. ParseItems(list) = <<list>>
      <3> DEFINE again == [i \in DOMAIN list |-> CO!ParseLeaf(list[i])]
      <3>1. DOMAIN again = 1..n /\ \A i \in 1..n : again[i] = <<list[i]>>
        BY <2>5, <2>6
      <3>2. ParseItems(list) = CO!All(again)
        BY <2>8 DEF ParseItems
      <3> HIDE DEF again
      <3> QED BY <2>7, <3>1, <3>2, AllAgain
    <2> HIDE DEF n
    <2>10. ParseItems(x) = <<list>>
      BY <2>2, <2>4
    <2> QED BY <1>1, <2>1, <2>3, <2>5, <2>7, <2>8, <2>9, <2>10 DEF WireItems, n
  <1>2. CASE ~CO!IsList(x)
    BY <1>2 DEF ParseItems, CO!IsList, WireItems
  <1> QED BY <1>1, <1>2

LEMMA ContentMeans ==
  ASSUME NEW b \in WireBlock
  PROVE  /\ b \in Wire(WireItems) /\ b.items \in WireItems
         /\ b.type # "tool_result" => /\ CO!UnmarshalContent(b) = CO!UnmarshalLeaf(b)
                                      /\ CO!ParseContent(b) = CO!ParseLeaf(b)
         /\ b.type = "tool_result" =>
              /\ CO!UnmarshalContent(b) =
                   IF CO!UnmarshalLeaf(b) = <<>> \/ UnmarshalItems(b.items) = <<>> THEN <<>>
                   ELSE <<[CO!UnmarshalLeaf(b)[1] EXCEPT !.items = UnmarshalItems(b.items)[1],
                             !.payload = CO!MarshalStructured(CO!AsAny(@), CO!RawStructuredContent(@))]>>
              /\ CO!ParseContent(b) =
                   IF CO!ParseLeaf(b) = <<>> \/ ParseItems(b.items) = <<>> THEN <<>>
                   ELSE <<[CO!ParseLeaf(b)[1] EXCEPT
                             !.items = IF ParseItems(b.items)[1] = <<>> THEN Null ELSE ParseItems(b.items)[1],
                             !.payload = CO!AsAny(@)]>>
  <1>1. b \in Wire(WireItems)
    BY DEF WireBlock, WireItems
  <1>2. b.items \in WireItems
    BY <1>1, FieldWritten
  <1>3. /\ b.type # "tool_result" => CO!UnmarshalContent(b) = CO!UnmarshalLeaf(b)
        /\ b.type = "tool_result" =>
             CO!UnmarshalContent(b) =
                   IF CO!UnmarshalLeaf(b) = <<>> \/ UnmarshalItems(b.items) = <<>> THEN <<>>
                   ELSE <<[CO!UnmarshalLeaf(b)[1] EXCEPT !.items = UnmarshalItems(b.items)[1],
                             !.payload = CO!MarshalStructured(CO!AsAny(@), CO!RawStructuredContent(@))]>>
    BY DEF CO!UnmarshalContent, UnmarshalItems
  <1>4. /\ b.type # "tool_result" => CO!ParseContent(b) = CO!ParseLeaf(b)
        /\ b.type = "tool_result" =>
             CO!ParseContent(b) =
                   IF CO!ParseLeaf(b) = <<>> \/ ParseItems(b.items) = <<>> THEN <<>>
                   ELSE <<[CO!ParseLeaf(b)[1] EXCEPT
                             !.items = IF ParseItems(b.items)[1] = <<>> THEN Null ELSE ParseItems(b.items)[1],
                             !.payload = CO!AsAny(@)]>>
    BY DEF CO!ParseContent, ParseItems
  <1> QED BY <1>1, <1>2, <1>3, <1>4

LEMMA UnmarshalContentAgain ==
  ASSUME ContentAssumption, NEW b \in WireBlock, CO!UnmarshalContent(b) # <<>>
  PROVE  /\ CO!UnmarshalContent(CO!UnmarshalContent(b)[1]) = CO!UnmarshalContent(b)
         /\ CO!UnmarshalContent(b) = <<CO!UnmarshalContent(b)[1]>>
  <1>1. b \in Wire(WireItems) /\ b.items \in WireItems
    BY ContentMeans
  <1>2. CASE b.type # "tool_result"
    <2> DEFINE c == CO!UnmarshalLeaf(b)[1]
    <2>1. CO!UnmarshalContent(b) = CO!UnmarshalLeaf(b)
      BY <1>2, ContentMeans
    <2>2. /\ CO!UnmarshalLeaf(c) = CO!UnmarshalLeaf(b) /\ c.type # "tool_result"
          /\ CO!UnmarshalLeaf(b) = <<c>>
      BY <1>1, <1>2, <2>1, UnmarshalLeafAgain, LeafIsOne
    <2>3. c \in WireBlock
      BY <1>1, <2>1, UnmarshalLeafTyped DEF Yields, WireBlock, WireItems
    <2> HIDE DEF c
    <2>4. CO!UnmarshalContent(c) = CO!UnmarshalLeaf(c)
      BY <2>2, <2>3, ContentMeans
    <2> QED BY <2>1, <2>2, <2>4
  <1>3. CASE b.type = "tool_result"
    <2> DEFINE list == UnmarshalItems(b.items)[1]
               c == [b EXCEPT !.items = list]
    <2>1. /\ CO!UnmarshalLeaf(b) # <<>> /\ UnmarshalItems(b.items) # <<>>
          /\ CO!UnmarshalContent(b) =
               <<[CO!UnmarshalLeaf(b)[1] EXCEPT !.items = list,
                    !.payload = CO!MarshalStructured(CO!AsAny(@), CO!RawStructuredContent(@))]>>
      BY <1>3, ContentMeans
    <2>2. CO!UnmarshalLeaf(b) = <<b>>
      BY <1>3, <2>1 DEF CO!UnmarshalLeaf
    <2>3. list \in WireItems /\ UnmarshalItems(list) = <<list>>
      BY <1>1, <2>1, UnmarshalItemsAgain
    <2> HIDE DEF list
    <2>4. CO!UnmarshalContent(b) = <<c>>
      <3>1. CO!MarshalStructured(CO!AsAny(b.payload), CO!RawStructuredContent(b.payload)) = b.payload
        BY <1>1, FieldWritten, FieldsTyped
      <3>2. [b EXCEPT !.items = list,
               !.payload = CO!MarshalStructured(CO!AsAny(@), CO!RawStructuredContent(@))] = c
        BY <1>1, <3>1 DEF Wire
      <3> QED BY <2>1, <2>2, <3>2
    <2>5. /\ c \in Wire(WireItems) /\ c.items = list /\ c.type = b.type
          /\ c.annotations = b.annotations /\ c.meta = b.meta
      BY <1>1, <2>3, FieldWritten DEF Wire
    <2> HIDE DEF c
    <2>6. CO!UnmarshalLeaf(c) = <<c>>
      BY <1>3, <2>1, <2>5 DEF CO!UnmarshalLeaf
    <2>7. CO!UnmarshalContent(c) =
            <<[c EXCEPT !.items = list,
                 !.payload = CO!MarshalStructured(CO!AsAny(@), CO!RawStructuredContent(@))]>>
      <3>1. c \in WireBlock
        BY <2>5 DEF WireBlock, WireItems
      <3>2. <<c>> # <<>> /\ <<list>> # <<>> /\ <<c>>[1] = c /\ <<list>>[1] = list
        OBVIOUS
      <3> QED BY <1>3, <2>3, <2>5, <2>6, <3>1, <3>2, ContentMeans
    <2>8. CO!MarshalStructured(CO!AsAny(c.payload), CO!RawStructuredContent(c.payload)) = c.payload
      BY <2>5, FieldWritten, FieldsTyped
    <2>9. [c EXCEPT !.items = list,
             !.payload = CO!MarshalStructured(CO!AsAny(@), CO!RawStructuredContent(@))] = c
      BY <2>5, <2>8 DEF Wire
    <2> QED BY <2>4, <2>7, <2>9
  <1> QED BY <1>2, <1>3

LEMMA ParseContentAgain ==
  ASSUME ContentAssumption, NEW b \in WireBlock, CO!ParseContent(b) # <<>>
  PROVE  /\ CO!ParseContent(CO!ParseContent(b)[1]) = CO!ParseContent(b)
         /\ CO!ParseContent(b) = <<CO!ParseContent(b)[1]>>
  <1>1. b \in Wire(WireItems) /\ b.items \in WireItems
    BY ContentMeans
  <1>2. CASE b.type # "tool_result"
    <2> DEFINE c == CO!ParseLeaf(b)[1]
    <2>1. CO!ParseContent(b) = CO!ParseLeaf(b)
      BY <1>2, ContentMeans
    <2>2. /\ CO!ParseLeaf(c) = CO!ParseLeaf(b) /\ c.type # "tool_result"
          /\ CO!ParseLeaf(b) = <<c>>
      BY <1>1, <1>2, <2>1, ParseLeafAgain, LeafIsOne
    <2>3. c \in WireBlock
      BY <1>1, <2>1, ParseLeafTyped DEF Yields, WireBlock, WireItems
    <2> HIDE DEF c
    <2>4. CO!ParseContent(c) = CO!ParseLeaf(c)
      BY <2>2, <2>3, ContentMeans
    <2> QED BY <2>1, <2>2, <2>4
  <1>3. CASE b.type = "tool_result"
    <2> DEFINE list == ParseItems(b.items)[1]
               kept == IF list = <<>> THEN Null ELSE list
               leaf == CO!ParseLeaf(b)[1]
               p == CO!AsAny(leaf.payload)
               c == [leaf EXCEPT !.items = kept, !.payload = p]
    <2>1. CO!ParseLeaf(b) # <<>> /\ ParseItems(b.items) # <<>> /\ CO!ParseContent(b) = <<c>>
      BY <1>3, ContentMeans
    <2>2. /\ leaf \in Wire(WireItems) /\ leaf.type = "tool_result"
          /\ CO!ParseLeaf(b) = <<leaf>> /\ CO!ParseLeaf(leaf) = <<leaf>>
      BY <1>1, <1>3, <2>1, ParseLeafTyped, ParseLeafAgain, LeafIsOne DEF Yields
    <2>3. list \in WireItems /\ ParseItems(list) = <<list>>
      BY <1>1, <2>1, ParseItemsAgain
    <2>4. kept \in WireItems /\ ParseItems(kept) = <<kept>> /\ (IF kept = <<>> THEN Null ELSE kept) = kept
      <3>1. ParseItems(Null) = <<Null>> /\ Null \in WireItems
        BY DEF ParseItems, CO!IsList, WireItems
      <3> HIDE DEF list
      <3> QED BY <2>3, <3>1
    <2> HIDE DEF list, kept, leaf
    <2>5. p \in WirePayloads /\ CO!AsAny(p) = p
      BY <2>2, FieldWritten, FieldsTyped, FieldsAgain
    <2> HIDE DEF p
    <2>6. /\ c \in Wire(WireItems) /\ c.items = kept /\ c.payload = p /\ c.type = "tool_result"
          /\ c.annotations = leaf.annotations /\ c.meta = leaf.meta /\ c.blank = leaf.blank
      <3> DEFINE d == [leaf EXCEPT !.items = kept]
      <3>1. d \in Wire(WireItems) /\ c = [d EXCEPT !.payload = p]
        BY <2>2, <2>4, FieldWritten DEF Wire
      <3> HIDE DEF d
      <3>2. c \in Wire(WireItems)
        BY <2>5, <3>1, FieldWritten
      <3> QED BY <2>2, <3>2 DEF Wire
    <2> HIDE DEF c
    <2>7. CO!ParseLeaf(c) = <<c>>
      <3> DEFINE Parsed(x) == [x EXCEPT !.annotations = CO!ParseAnnotations(@),
                                        !.meta = IF @ = "string" THEN "none" ELSE @]
      <3>1. \A x : x.type = "tool_result" => CO!ParseLeaf(x) = IF x.blank # {} THEN <<>> ELSE <<Parsed(x)>>
        BY DEF CO!ParseLeaf
      <3>2. leaf.blank = {} /\ Parsed(leaf) = leaf
        <4> HIDE DEF Parsed
        <4> QED BY <2>2, <3>1
      <3>3. CO!ParseAnnotations(leaf.annotations) = leaf.annotations /\ leaf.meta # "string"
        BY <2>2, <3>2 DEF Wire
      <3>4. Parsed(c) = c
        BY <2>6, <3>3 DEF Wire
      <3> HIDE DEF Parsed
      <3> QED BY <2>6, <3>1, <3>2, <3>4
    <2>8. CO!ParseContent(c) = <<[c EXCEPT !.items = kept, !.payload = CO!AsAny(@)]>>
      <3>1. c \in WireBlock
        BY <2>6 DEF WireBlock, WireItems
      <3>2. <<c>> # <<>> /\ <<kept>> # <<>> /\ <<c>>[1] = c /\ <<kept>>[1] = kept
        OBVIOUS
      <3> QED BY <2>4, <2>6, <2>7, <3>1, <3>2, ContentMeans
    <2>9. [c EXCEPT !.items = kept, !.payload = CO!AsAny(@)] = c
      BY <2>5, <2>6 DEF Wire
    <2> QED BY <2>1, <2>8, <2>9 DEF c
  <1> QED BY <1>2, <1>3

LEMMA ListMade ==
  ASSUME ContentAssumption, NEW n \in Nat, NEW each, DOMAIN each = 1..n, CO!All(each) # <<>>,
         \A i \in 1..n : each[i] # <<>> => each[i] = <<each[i][1]>> /\ each[i][1] \in WireBlock
  PROVE  /\ CO!All(each) = <<CO!All(each)[1]>> /\ CO!All(each)[1] \in Seq(WireBlock)
         /\ CO!IsList(CO!All(each)[1]) /\ Len(CO!All(each)[1]) = n
         /\ \A i \in 1..n : each[i] = <<CO!All(each)[1][i]>>
         /\ CO!All(each)[1] = [i \in 1..n |-> CO!All(each)[1][i]]
  <1> DEFINE list == [i \in 1..n |-> each[i][1]]
  <1>1. CO!All(each) = <<list>> /\ \A i \in 1..n : each[i] # <<>>
    BY AllMeans
  <1>2. \A i \in 1..n : each[i] = <<list[i]>> /\ list[i] \in WireBlock
    BY <1>1
  <1>3. DOMAIN list = 1..n /\ list = [i \in 1..n |-> list[i]]
    OBVIOUS
  <1> HIDE DEF list
  <1>4. list \in [1..n -> WireBlock]
    BY <1>2, <1>3
  <1>5. list \in Seq(WireBlock)
    BY <1>4, SeqDef
  <1>6. Len(list) = n
    BY <1>3, <1>5, LenProperties
  <1>7. CO!IsList(list)
    BY <1>5 DEF CO!IsList, ContentAssumption
  <1> QED BY <1>1, <1>2, <1>3, <1>5, <1>6, <1>7

\* The blocks of a message, by each decoder.
Unmarshalled(x, none) == CO!Decoded(CO!UnmarshalContent, x, none)
Parsed(x, none) == CO!Decoded(CO!ParseContent, x, none)
ParsedResources(x, none) == CO!Decoded(CO!ParseResourceContents, x, none)

LEMMA UnmarshalledAgain ==
  ASSUME ContentAssumption, NEW x \in {None, Null} \union Seq(WireBlock), NEW none \in {None, Null, <<>>},
         NEW made, made = Unmarshalled(x, none), made # <<>>
  PROVE  /\ made = <<made[1]>> /\ Unmarshalled(made[1], none) = made
         /\ CO!IsList(x) => /\ made[1] \in Seq(WireBlock) /\ CO!IsList(made[1]) /\ Len(made[1]) = Len(x)
                            /\ \A i \in 1..Len(x) : CO!UnmarshalContent(x[i]) = <<made[1][i]>>
         /\ ~CO!IsList(x) => made[1] = none
  <1>1. CASE CO!IsList(x)
    <2> DEFINE n == Len(x)
               each == [i \in 1..n |-> CO!UnmarshalContent(x[i])]
               list == CO!All(each)[1]
               again == [i \in DOMAIN list |-> CO!UnmarshalContent(list[i])]
    <2>1. n \in Nat /\ DOMAIN x = 1..n /\ \A i \in 1..n : x[i] \in WireBlock
      BY <1>1, ListOfItems
    <2>2. made = CO!All(each)
      BY <1>1, <2>1 DEF CO!Decoded, Unmarshalled
    <2>3. \A i \in 1..n : each[i] # <<>> =>
            each[i] = <<each[i][1]>> /\ each[i][1] \in WireBlock /\ CO!UnmarshalContent(each[i][1]) = each[i]
      BY <2>1, UnmarshalContentAgain, UnmarshalContentTyped DEF Yields
    <2>4. DOMAIN each = 1..n /\ \A i \in 1..n : each[i] = CO!UnmarshalContent(x[i])
      OBVIOUS
    <2> HIDE DEF each, n
    <2>5. /\ made = <<list>> /\ list \in Seq(WireBlock) /\ CO!IsList(list) /\ Len(list) = n
          /\ \A i \in 1..n : each[i] = <<list[i]>>
          /\ list = [i \in 1..n |-> list[i]]
      BY <2>1, <2>2, <2>3, <2>4, ListMade
    <2> HIDE DEF list
    <2>6. DOMAIN again = 1..n /\ \A i \in 1..n : again[i] = <<list[i]>>
      <3>1. DOMAIN list = 1..n
        BY <2>5
      <3>2. \A i \in 1..n : each[i] # <<>> /\ each[i][1] = list[i]
        <4> TAKE i \in 1..n
        <4>1. each[i] = <<list[i]>>
          BY <2>5
        <4> QED BY <4>1
      <3>3. \A i \in 1..n : CO!UnmarshalContent(list[i]) = <<list[i]>>
        BY <2>3, <2>5, <3>2
      <3> QED BY <3>1, <3>3
    <2>7. Unmarshalled(list, none) = CO!All(again)
      BY <2>5 DEF CO!Decoded, Unmarshalled
    <2> HIDE DEF again
    <2>8. CO!All(again) = <<list>>
      BY <2>5, <2>6, AllAgain
    <2>9. made[1] = list
      BY <2>5
    <2>10. \A i \in 1..n : CO!UnmarshalContent(x[i]) = <<list[i]>>
      BY <2>4, <2>5
    <2> QED BY <1>1, <2>5, <2>7, <2>8, <2>9, <2>10 DEF n
  <1>2. CASE ~CO!IsList(x)
    <2>1. made = <<none>>
      BY <1>2 DEF CO!Decoded, Unmarshalled
    <2>2. Unmarshalled(none, none) = <<none>>
      <3>1. CASE CO!IsList(none)
        <4> DEFINE nothing == [i \in DOMAIN none |-> CO!UnmarshalContent(none[i])]
        <4>1. none = <<>>
          BY <3>1 DEF CO!IsList
        <4>2. none \in Seq({}) /\ Len(none) = 0 /\ DOMAIN nothing = 1..0
          BY <4>1, EmptySeq
        <4>3. Unmarshalled(none, none) = CO!All(nothing)
          BY <3>1 DEF CO!Decoded, Unmarshalled
        <4> HIDE DEF nothing
        <4>4. \A i \in 1..0 : nothing[i] = <<none[i]>>
          OBVIOUS
        <4> QED BY <4>2, <4>3, <4>4, AllAgain
      <3>2. CASE ~CO!IsList(none)
        BY <3>2 DEF CO!Decoded, Unmarshalled
      <3> QED BY <3>1, <3>2
    <2> QED BY <1>2, <2>1, <2>2
  <1> QED BY <1>1, <1>2

LEMMA ParsedAgain ==
  ASSUME ContentAssumption, NEW x \in {None, Null} \union Seq(WireBlock), NEW none \in {None, Null, <<>>},
         NEW made, made = Parsed(x, none), made # <<>>
  PROVE  /\ made = <<made[1]>> /\ Parsed(made[1], none) = made
         /\ CO!IsList(x) => /\ made[1] \in Seq(WireBlock) /\ CO!IsList(made[1]) /\ Len(made[1]) = Len(x)
                            /\ \A i \in 1..Len(x) : CO!ParseContent(x[i]) = <<made[1][i]>>
         /\ ~CO!IsList(x) => made[1] = none
  <1>1. CASE CO!IsList(x)
    <2> DEFINE n == Len(x)
               each == [i \in 1..n |-> CO!ParseContent(x[i])]
               list == CO!All(each)[1]
               again == [i \in DOMAIN list |-> CO!ParseContent(list[i])]
    <2>1. n \in Nat /\ DOMAIN x = 1..n /\ \A i \in 1..n : x[i] \in WireBlock
      BY <1>1, ListOfItems
    <2>2. made = CO!All(each)
      BY <1>1, <2>1 DEF CO!Decoded, Parsed
    <2>3. \A i \in 1..n : each[i] # <<>> =>
            each[i] = <<each[i][1]>> /\ each[i][1] \in WireBlock /\ CO!ParseContent(each[i][1]) = each[i]
      BY <2>1, ParseContentAgain, ParseContentTyped DEF Yields
    <2>4. DOMAIN each = 1..n /\ \A i \in 1..n : each[i] = CO!ParseContent(x[i])
      OBVIOUS
    <2> HIDE DEF each, n
    <2>5. /\ made = <<list>> /\ list \in Seq(WireBlock) /\ CO!IsList(list) /\ Len(list) = n
          /\ \A i \in 1..n : each[i] = <<list[i]>>
          /\ list = [i \in 1..n |-> list[i]]
      BY <2>1, <2>2, <2>3, <2>4, ListMade
    <2> HIDE DEF list
    <2>6. DOMAIN again = 1..n /\ \A i \in 1..n : again[i] = <<list[i]>>
      <3>1. DOMAIN list = 1..n
        BY <2>5
      <3>2. \A i \in 1..n : each[i] # <<>> /\ each[i][1] = list[i]
        <4> TAKE i \in 1..n
        <4>1. each[i] = <<list[i]>>
          BY <2>5
        <4> QED BY <4>1
      <3>3. \A i \in 1..n : CO!ParseContent(list[i]) = <<list[i]>>
        BY <2>3, <2>5, <3>2
      <3> QED BY <3>1, <3>3
    <2>7. Parsed(list, none) = CO!All(again)
      BY <2>5 DEF CO!Decoded, Parsed
    <2> HIDE DEF again
    <2>8. CO!All(again) = <<list>>
      BY <2>5, <2>6, AllAgain
    <2>9. made[1] = list
      BY <2>5
    <2>10. \A i \in 1..n : CO!ParseContent(x[i]) = <<list[i]>>
      BY <2>4, <2>5
    <2> QED BY <1>1, <2>5, <2>7, <2>8, <2>9, <2>10 DEF n
  <1>2. CASE ~CO!IsList(x)
    <2>1. made = <<none>>
      BY <1>2 DEF CO!Decoded, Parsed
    <2>2. Parsed(none, none) = <<none>>
      <3>1. CASE CO!IsList(none)
        <4> DEFINE nothing == [i \in DOMAIN none |-> CO!ParseContent(none[i])]
        <4>1. none = <<>>
          BY <3>1 DEF CO!IsList
        <4>2. none \in Seq({}) /\ Len(none) = 0 /\ DOMAIN nothing = 1..0
          BY <4>1, EmptySeq
        <4>3. Parsed(none, none) = CO!All(nothing)
          BY <3>1 DEF CO!Decoded, Parsed
        <4> HIDE DEF nothing
        <4>4. \A i \in 1..0 : nothing[i] = <<none[i]>>
          OBVIOUS
        <4> QED BY <4>2, <4>3, <4>4, AllAgain
      <3>2. CASE ~CO!IsList(none)
        BY <3>2 DEF CO!Decoded, Parsed
      <3> QED BY <3>1, <3>2
    <2> QED BY <1>2, <2>1, <2>2
  <1> QED BY <1>1, <1>2

LEMMA ResourcesAgain ==
  ASSUME ContentAssumption, NEW x \in {None, Null} \union Seq(WireBlock), NEW none \in {None, Null, <<>>},
         NEW made, made = ParsedResources(x, none), made # <<>>
  PROVE  /\ made = <<made[1]>> /\ ParsedResources(made[1], none) = made
         /\ CO!IsList(x) => /\ made[1] \in Seq(WireBlock) /\ CO!IsList(made[1]) /\ Len(made[1]) = Len(x)
                            /\ \A i \in 1..Len(x) : CO!ParseResourceContents(x[i]) = <<made[1][i]>>
         /\ ~CO!IsList(x) => made[1] = none
  <1>1. CASE CO!IsList(x)
    <2> DEFINE n == Len(x)
               each == [i \in 1..n |-> CO!ParseResourceContents(x[i])]
               list == CO!All(each)[1]
               again == [i \in DOMAIN list |-> CO!ParseResourceContents(list[i])]
    <2>1. n \in Nat /\ DOMAIN x = 1..n /\ \A i \in 1..n : x[i] \in WireBlock
      BY <1>1, ListOfItems
    <2>2. made = CO!All(each)
      BY <1>1, <2>1 DEF CO!Decoded, ParsedResources
    <2>3. \A i \in 1..n : each[i] # <<>> =>
            each[i] = <<each[i][1]>> /\ each[i][1] \in WireBlock /\ CO!ParseResourceContents(each[i][1]) = each[i]
      BY <2>1, ParseResourceAgain, ParseResourceTyped, LeafIsOne DEF Yields, WireBlock
    <2>4. DOMAIN each = 1..n /\ \A i \in 1..n : each[i] = CO!ParseResourceContents(x[i])
      OBVIOUS
    <2> HIDE DEF each, n
    <2>5. /\ made = <<list>> /\ list \in Seq(WireBlock) /\ CO!IsList(list) /\ Len(list) = n
          /\ \A i \in 1..n : each[i] = <<list[i]>>
          /\ list = [i \in 1..n |-> list[i]]
      BY <2>1, <2>2, <2>3, <2>4, ListMade
    <2> HIDE DEF list
    <2>6. DOMAIN again = 1..n /\ \A i \in 1..n : again[i] = <<list[i]>>
      <3>1. DOMAIN list = 1..n
        BY <2>5
      <3>2. \A i \in 1..n : each[i] # <<>> /\ each[i][1] = list[i]
        <4> TAKE i \in 1..n
        <4>1. each[i] = <<list[i]>>
          BY <2>5
        <4> QED BY <4>1
      <3>3. \A i \in 1..n : CO!ParseResourceContents(list[i]) = <<list[i]>>
        BY <2>3, <2>5, <3>2
      <3> QED BY <3>1, <3>3
    <2>7. ParsedResources(list, none) = CO!All(again)
      BY <2>5 DEF CO!Decoded, ParsedResources
    <2> HIDE DEF again
    <2>8. CO!All(again) = <<list>>
      BY <2>5, <2>6, AllAgain
    <2>9. made[1] = list
      BY <2>5
    <2>10. \A i \in 1..n : CO!ParseResourceContents(x[i]) = <<list[i]>>
      BY <2>4, <2>5
    <2> QED BY <1>1, <2>5, <2>7, <2>8, <2>9, <2>10 DEF n
  <1>2. CASE ~CO!IsList(x)
    <2>1. made = <<none>>
      BY <1>2 DEF CO!Decoded, ParsedResources
    <2>2. ParsedResources(none, none) = <<none>>
      <3>1. CASE CO!IsList(none)
        <4> DEFINE nothing == [i \in DOMAIN none |-> CO!ParseResourceContents(none[i])]
        <4>1. none = <<>>
          BY <3>1 DEF CO!IsList
        <4>2. none \in Seq({}) /\ Len(none) = 0 /\ DOMAIN nothing = 1..0
          BY <4>1, EmptySeq
        <4>3. ParsedResources(none, none) = CO!All(nothing)
          BY <3>1 DEF CO!Decoded, ParsedResources
        <4> HIDE DEF nothing
        <4>4. \A i \in 1..0 : nothing[i] = <<none[i]>>
          OBVIOUS
        <4> QED BY <4>2, <4>3, <4>4, AllAgain
      <3>2. CASE ~CO!IsList(none)
        BY <3>2 DEF CO!Decoded, ParsedResources
      <3> QED BY <3>1, <3>2
    <2> QED BY <1>2, <2>1, <2>2
  <1> QED BY <1>1, <1>2

\* Each kind of message: a condition, and a decoder of the blocks.
BlocksMade(m) ==
  CASE m.kind = "prompt" -> Parsed(m.blocks, Null)
    [] m.kind = "tool" -> Unmarshalled(m.blocks, <<>>)
    [] m.kind = "task" -> IF m.blocks = <<>> THEN <<None>> ELSE Unmarshalled(m.blocks, None)
    [] m.kind = "resource" -> ParsedResources(m.blocks, Null)
    [] m.kind = "sampling" -> Parsed(m.blocks, Null)
Unfit(m) ==
  \/ m.kind = "prompt" /\ m.role = "system" /\ CO!IsList(m.blocks) /\ m.blocks # <<>>
  \/ m.kind = "tool" /\ m.blocks = None /\ m.payload \in {"none", "null"} /\ ~m.needsInput
  \/ m.kind = "resource" /\ ~CO!IsList(m.blocks) /\ ~m.needsInput

LEMMA ParseMeans ==
  ASSUME NEW m \in WireMessage
  PROVE  CO!Parse(m) = IF Unfit(m) \/ BlocksMade(m) = <<>> THEN <<>>
                       ELSE <<[m EXCEPT !.blocks = BlocksMade(m)[1]]>>
  <1> DEFINE sent2 == [m EXCEPT !.blocks = BlocksMade(m)[1]]
  <1>1. [sent2 EXCEPT !.payload = CO!MarshalStructured(CO!AsAny(@), CO!RawStructuredContent(@))] = sent2
    <2>1. m.payload \in WirePayloads
      BY DEF WireMessage
    <2>2. CO!MarshalStructured(CO!AsAny(m.payload), CO!RawStructuredContent(m.payload)) = m.payload
      BY <2>1, FieldsTyped
    <2> QED BY <2>2 DEF WireMessage
  <1>2. /\ BlocksMade(m) = <<>> => /\ CO!With(m, BlocksMade(m)) = <<>>
                                   /\ CO!Structured(CO!With(m, BlocksMade(m))) = <<>>
        /\ BlocksMade(m) # <<>> => /\ CO!With(m, BlocksMade(m)) = <<sent2>>
                                   /\ CO!Structured(CO!With(m, BlocksMade(m))) = <<sent2>>
    <2> HIDE DEF BlocksMade
    <2>1. BlocksMade(m) = <<>> => /\ CO!With(m, BlocksMade(m)) = <<>>
                                  /\ CO!Structured(CO!With(m, BlocksMade(m))) = <<>>
      BY DEF CO!With, CO!Structured
    <2>2. BlocksMade(m) # <<>> => CO!With(m, BlocksMade(m)) = <<sent2>>
      BY DEF CO!With
    <2> HIDE DEF sent2
    <2>3. CO!Structured(<<sent2>>) = <<sent2>>
      BY <1>1 DEF CO!Structured
    <2> QED BY <2>1, <2>2, <2>3
  <1> HIDE DEF sent2
  <1>3. CASE m.kind = "prompt"
    <2>1. BlocksMade(m) = CO!Decoded(CO!ParseContent, m.blocks, Null)
      BY <1>3 DEF BlocksMade, Parsed
    <2>2. CO!Parse(m) = IF Unfit(m) THEN <<>> ELSE CO!With(m, BlocksMade(m))
      BY <1>3, <2>1 DEF CO!Parse, CO!ParseGetPromptResult, Unfit
    <2> QED BY <1>2, <2>2 DEF sent2
  <1>4. CASE m.kind = "tool"
    <2>1. BlocksMade(m) = CO!Decoded(CO!UnmarshalContent, m.blocks, <<>>)
      BY <1>4 DEF BlocksMade, Unmarshalled
    <2>2. CO!Parse(m) = IF Unfit(m) THEN <<>> ELSE CO!Structured(CO!With(m, BlocksMade(m)))
      BY <1>4, <2>1 DEF CO!Parse, CO!ParseCallToolResult, Unfit
    <2> QED BY <1>2, <2>2 DEF sent2
  <1>5. CASE m.kind = "task"
    <2>1. BlocksMade(m) = IF m.blocks = <<>> THEN <<None>> ELSE CO!Decoded(CO!UnmarshalContent, m.blocks, None)
      BY <1>5 DEF BlocksMade, Unmarshalled
    <2>2. CO!Parse(m) = CO!Structured(CO!With(m, BlocksMade(m))) /\ ~Unfit(m)
      BY <1>5, <2>1 DEF CO!Parse, CO!ParseTaskResultResult, Unfit
    <2> QED BY <1>2, <2>2 DEF sent2
  <1>6. CASE m.kind = "resource"
    <2>1. BlocksMade(m) = CO!Decoded(CO!ParseResourceContents, m.blocks, Null)
      BY <1>6 DEF BlocksMade, ParsedResources
    <2>2. CO!Parse(m) = IF Unfit(m) THEN <<>> ELSE CO!With(m, BlocksMade(m))
      BY <1>6, <2>1 DEF CO!Parse, CO!ParseReadResourceResult, Unfit
    <2> QED BY <1>2, <2>2 DEF sent2
  <1>7. CASE m.kind = "sampling"
    <2>1. BlocksMade(m) = CO!Decoded(CO!ParseContent, m.blocks, Null)
      BY <1>7 DEF BlocksMade, Parsed
    <2>2. CO!Parse(m) = CO!With(m, BlocksMade(m)) /\ ~Unfit(m)
      BY <1>7, <2>1 DEF CO!Parse, CO!ParseSamplingContent, Unfit
    <2> QED BY <1>2, <2>2 DEF sent2
  <1>8. m.kind \in {"prompt", "tool", "task", "resource", "sampling"}
    BY DEF WireMessage
  <1> QED BY <1>3, <1>4, <1>5, <1>6, <1>7, <1>8

\* What one hop lets pass, later hops let pass unchanged.
LEMMA ParseAgain ==
  ASSUME ContentAssumption, NEW m \in WireMessage, CO!Parse(m) # <<>>
  PROVE  /\ CO!Parse(CO!Parse(m)[1]) = CO!Parse(m) /\ CO!Parse(m) = <<CO!Parse(m)[1]>>
         /\ ~Unfit(m) /\ BlocksMade(m) # <<>>
         /\ CO!Parse(m)[1] = [m EXCEPT !.blocks = BlocksMade(m)[1]]
  <1> DEFINE L == {None, Null} \union Seq(WireBlock)
             x == BlocksMade(m)[1]
             next == [m EXCEPT !.blocks = x]
  <1>1. ~Unfit(m) /\ BlocksMade(m) # <<>> /\ CO!Parse(m) = <<next>>
    BY ParseMeans
  <1>2. m.blocks \in L /\ m.kind \in {"prompt", "tool", "task", "resource", "sampling"}
    BY DEF WireMessage
  <1>3. /\ BlocksMade(m) = <<x>> /\ x \in L
        /\ m.kind # "tool" /\ ~CO!IsList(m.blocks) => x \in {None, Null}
        /\ CO!IsList(m.blocks) /\ ~(m.kind = "task" /\ m.blocks = <<>>) =>
             CO!IsList(x) /\ x \in Seq(WireBlock) /\ Len(x) = Len(m.blocks)
        /\ m.kind = "prompt" => Parsed(x, Null) = <<x>>
        /\ m.kind = "tool" => Unmarshalled(x, <<>>) = <<x>> /\ x # None
        /\ m.kind = "task" => Unmarshalled(x, None) = <<x>> /\ x # <<>>
        /\ m.kind = "resource" => ParsedResources(x, Null) = <<x>>
        /\ m.kind = "sampling" => Parsed(x, Null) = <<x>>
    <2>1. /\ <<>> \in Seq(WireBlock) /\ None # <<>> /\ <<None>>[1] = None
          /\ ~CO!IsList(None) /\ ~CO!IsList(Null) /\ CO!IsList(<<>>) /\ \A y \in Seq(WireBlock) : CO!IsList(y)
      BY EmptySeq DEF ContentAssumption, CO!IsList
    <2>2. CO!IsList(m.blocks) => m.blocks \in Seq(WireBlock)
      BY <1>2 DEF CO!IsList
    <2>3. CASE m.kind \in {"prompt", "sampling"}
      <3>1. BlocksMade(m) = Parsed(m.blocks, Null)
        BY <2>3 DEF BlocksMade
      <3> HIDE DEF BlocksMade
      <3> QED BY <1>1, <1>2, <2>1, <2>3, <3>1, ParsedAgain
    <2>4. CASE m.kind = "tool"
      <3>1. BlocksMade(m) = Unmarshalled(m.blocks, <<>>)
        BY <2>4 DEF BlocksMade
      <3> HIDE DEF BlocksMade
      <3>2. /\ BlocksMade(m) = <<x>> /\ Unmarshalled(x, <<>>) = <<x>>
            /\ CO!IsList(m.blocks) => CO!IsList(x) /\ x \in Seq(WireBlock) /\ Len(x) = Len(m.blocks)
            /\ ~CO!IsList(m.blocks) => x = <<>>
        BY <1>1, <1>2, <3>1, UnmarshalledAgain
      <3>3. x # None
        BY <2>1, <3>2
      <3> QED BY <2>1, <2>4, <3>2, <3>3
    <2>5. CASE m.kind = "task" /\ m.blocks = <<>>
      <3>1. BlocksMade(m) = <<None>>
        BY <2>5 DEF BlocksMade
      <3>2. Unmarshalled(None, None) = <<None>>
        BY <2>1 DEF Unmarshalled, CO!Decoded
      <3> HIDE DEF BlocksMade
      <3> QED BY <2>1, <2>5, <3>1, <3>2
    <2>6. CASE m.kind = "task" /\ m.blocks # <<>>
      <3>1. BlocksMade(m) = Unmarshalled(m.blocks, None)
        BY <2>6 DEF BlocksMade
      <3> HIDE DEF BlocksMade
      <3>2. /\ BlocksMade(m) = <<x>> /\ Unmarshalled(x, None) = <<x>>
            /\ CO!IsList(m.blocks) => CO!IsList(x) /\ x \in Seq(WireBlock) /\ Len(x) = Len(m.blocks)
            /\ ~CO!IsList(m.blocks) => x = None
        BY <1>1, <1>2, <3>1, UnmarshalledAgain
      <3>3. CO!IsList(m.blocks) => x # <<>>
        BY <2>2, <2>6, <3>2
      <3> QED BY <2>1, <2>6, <3>2, <3>3
    <2>7. CASE m.kind = "resource"
      <3>1. BlocksMade(m) = ParsedResources(m.blocks, Null)
        BY <2>7 DEF BlocksMade
      <3> HIDE DEF BlocksMade
      <3> QED BY <1>1, <1>2, <2>1, <2>7, <3>1, ResourcesAgain
    <2> QED BY <1>2, <2>3, <2>4, <2>5, <2>6, <2>7
  <1> HIDE DEF x
  <1>4. /\ next \in WireMessage /\ next.blocks = x /\ next.kind = m.kind /\ next.role = m.role
        /\ next.needsInput = m.needsInput /\ next.payload = m.payload
    BY <1>2, <1>3 DEF WireMessage
  <1>5. [next EXCEPT !.blocks = x] = next
    BY <1>4 DEF WireMessage
  <1> HIDE DEF next
  <1>6. BlocksMade(next) = <<x>>
    BY <1>2, <1>3, <1>4 DEF BlocksMade
  <1>7. ~Unfit(next)
    <2>1. m.kind = "tool" => next.blocks # None
      BY <1>3, <1>4
    <2>2. m.kind = "resource" => CO!IsList(next.blocks) \/ next.needsInput
      BY <1>1, <1>2, <1>3, <1>4 DEF Unfit
    <2>3. m.kind = "prompt" => ~(m.role = "system" /\ CO!IsList(x) /\ x # <<>>)
      <3> SUFFICES ASSUME m.kind = "prompt", m.role = "system" PROVE ~(CO!IsList(x) /\ x # <<>>)
        OBVIOUS
      <3>1. CASE CO!IsList(m.blocks)
        <4>1. m.blocks = <<>>
          BY <1>1, <3>1 DEF Unfit
        <4>2. Len(x) = 0 /\ x \in Seq(WireBlock)
          BY <1>3, <3>1, <4>1
        <4> QED BY <4>2, EmptySeq
      <3>2. CASE ~CO!IsList(m.blocks)
        BY <1>3, <3>2 DEF CO!IsList
      <3> QED BY <3>1, <3>2
    <2> QED BY <1>4, <2>1, <2>2, <2>3 DEF Unfit
  <1>8. CO!Parse(next) = <<[next EXCEPT !.blocks = x]>>
    <2>1. <<x>> # <<>> /\ <<x>>[1] = x
      OBVIOUS
    <2> HIDE DEF BlocksMade, Unfit
    <2> QED BY <1>4, <1>6, <1>7, <2>1, ParseMeans
  <1>9. CO!Parse(m)[1] = next
    BY <1>1
  <1> QED BY <1>1, <1>5, <1>8, <1>9 DEF next, x

\* As long as nothing is refused, the message is what the first hop made of it.
ArrivedInv ==
  /\ slot4 = 0 => ~slot2 /\ slot3 = slot1
  /\ slot4 > 0 =>
       /\ slot2 <=> CO!Parse(slot1) = <<>>
       /\ ~slot2 => CO!Parse(slot1) = <<slot3>>

LEMMA ArrivedKept == ContentAssumption => (CO!Spec => []ArrivedInv)
  <1> SUFFICES ASSUME ContentAssumption PROVE CO!Spec => []ArrivedInv
    OBVIOUS
  <1>1. CO!Init => ArrivedInv
    BY DEF CO!Init, ArrivedInv
  <1>2. ContentInv /\ ArrivedInv /\ [CO!Next]_CO!vars => ArrivedInv'
    <2> SUFFICES ASSUME ContentInv, ArrivedInv, [CO!Next]_CO!vars PROVE ArrivedInv'
      OBVIOUS
    <2>1. CASE UNCHANGED CO!vars
      BY <2>1 DEF CO!vars, ArrivedInv
    <2>2. CASE CO!Forward
      <3>1. /\ slot4 < MaxProxies /\ slot4' = slot4 + 1 /\ slot1' = slot1 /\ ~slot2
            /\ slot2' = (CO!Parse(slot3) = <<>>)
            /\ slot3' = IF slot2' THEN slot3 ELSE CO!Parse(slot3)[1]
        BY <2>2 DEF CO!Forward
      <3>2. slot4 \in Nat /\ slot1 \in WireMessage
        BY DEF ContentInv
      <3>3. CASE slot4 = 0
        <4>1. slot3 = slot1
          BY <3>3 DEF ArrivedInv
        <4>2. CASE CO!Parse(slot1) = <<>>
          <5>1. slot2'
            BY <3>1, <4>1, <4>2
          <5>2. slot4' > 0
            BY <3>1, <3>2
          <5> QED BY <3>1, <4>2, <5>1, <5>2 DEF ArrivedInv
        <4>3. CASE CO!Parse(slot1) # <<>>
          <5>1. CO!Parse(slot1) = <<CO!Parse(slot1)[1]>>
            BY <3>2, <4>3, ParseAgain
          <5>2. ~slot2' /\ slot3' = CO!Parse(slot1)[1]
            BY <3>1, <4>1, <4>3
          <5>3. slot4' > 0
            BY <3>1, <3>2
          <5> QED BY <3>1, <4>3, <5>1, <5>2, <5>3 DEF ArrivedInv
        <4> QED BY <4>2, <4>3
      <3>4. CASE slot4 > 0
        <4>1. CO!Parse(slot1) = <<slot3>>
          BY <3>1, <3>4 DEF ArrivedInv
        <4>2. <<slot3>> # <<>> /\ <<slot3>>[1] = slot3
          OBVIOUS
        <4>3. CO!Parse(slot3) = <<slot3>>
          BY <3>2, <4>1, <4>2, ParseAgain
        <4>4. ~slot2' /\ slot3' = slot3
          BY <3>1, <4>2, <4>3
        <4>5. slot4' > 0
          BY <3>1, <3>2
        <4> QED BY <3>1, <4>1, <4>2, <4>4, <4>5 DEF ArrivedInv
      <3> QED BY <3>2, <3>3, <3>4
    <2> QED BY <2>1, <2>2 DEF CO!Next
  <1> QED BY <1>1, <1>2, ContentKept, PTL DEF CO!Spec

LEMMA ContentStable == ContentInv /\ ArrivedInv /\ ContentAssumption => CO!Stable
  <1> SUFFICES ASSUME ContentInv, ArrivedInv, ContentAssumption, slot4 > 0, ~slot2
               PROVE  CO!Parse(slot3) = <<slot3>>
    BY DEF CO!Stable
  <1>1. CO!Parse(slot1) = <<slot3>> /\ slot1 \in WireMessage
    BY DEF ArrivedInv, ContentInv
  <1>2. <<slot3>> # <<>> /\ <<slot3>>[1] = slot3
    OBVIOUS
  <1> QED BY <1>1, <1>2, ParseAgain

-----------------------------------------------------------------------------
(* What the library builds, both decoders take, and make the same of it.   *)

\* A block that a decoder has taken: numbers in a tool's input are rounded.
Taken(b) == [b EXCEPT !.payload = IF b.type = "tool_use" THEN CO!NullIfNil(CO!AsAny(@)) ELSE @]

LEMMA BuiltLeafTaken ==
  ASSUME NEW I, NEW b \in Wire(I), CO!BuiltLeaf(b)
  PROVE  /\ CO!UnmarshalLeaf(b) = <<Taken(b)>> /\ CO!ParseLeaf(b) = <<Taken(b)>>
         /\ CO!ParseResourceContents(b) = <<b>>
         /\ Taken(b) \in Wire(I) /\ CO!SameLeaf(b, Taken(b)) /\ Taken(b).items = b.items
         /\ Taken(b).type = b.type
         /\ b.type # "tool_use" => Taken(b) = b
  <1> DEFINE p == IF b.type = "tool_use" THEN CO!NullIfNil(CO!AsAny(b.payload)) ELSE b.payload
             Plain(x) == [x EXCEPT !.annotations = CO!ParseAnnotations(@),
                                   !.meta = IF @ = "string" THEN "none" ELSE @]
  <1>1. /\ b.blank = {} /\ b.meta # "string" /\ b.size \in {"none", "number"}
        /\ b.annotations # None => b.annotations.audience \subseteq {"user"} /\ b.annotations.priority # "numeral"
        /\ b.variant \in {"text", "blob"} /\ b.resourceMeta \in {"none", "object"}
        /\ b.type = "tool_use" => b.payload # "none"
    BY DEF CO!BuiltLeaf
  <1>2. p \in WirePayloads /\ (p = b.payload \/ p = CO!Rounded(b.payload))
    <2>1. b.payload \in WirePayloads
      BY FieldWritten
    <2> QED BY <1>1, <2>1 DEF WirePayloads, CO!NullIfNil, CO!AsAny, CO!Rounded
  <1>3. Taken(b) = [b EXCEPT !.payload = p]
    BY DEF Taken
  <1>4. b.type # "tool_use" => Taken(b) = b
    BY <1>3, FieldKept
  <1> HIDE DEF p
  <1>5. Taken(b) \in Wire(I) /\ Taken(b).items = b.items /\ Taken(b).type = b.type /\ Taken(b).payload = p
    BY <1>2, <1>3, FieldWritten DEF Wire
  <1>6. CO!SameLeaf(b, Taken(b))
    <2> DEFINE q == IF p = b.payload THEN b.payload ELSE CO!Rounded(b.payload)
    <2>1. q = p
      BY <1>2
    <2>2. [b EXCEPT !.payload = q, !.items = b.items] = [b EXCEPT !.payload = p]
      BY <2>1 DEF Wire
    <2> QED BY <1>3, <1>5, <2>2 DEF CO!SameLeaf
  <1>7. CO!ParseResourceContents(b) = <<b>> /\ CO!UnmarshalResource(b) = <<b>>
    <2>1. [b EXCEPT !.variant = b.variant] = b /\ [b EXCEPT !.variant = b.variant, !.resourceMeta = b.resourceMeta] = b
      BY DEF Wire
    <2> QED BY <1>1, <2>1 DEF CO!ParseResourceContents, CO!UnmarshalResource
  <1>8. CO!UnmarshalLeaf(b) = <<Taken(b)>>
    <2>1. CASE b.type = "tool_use"
      BY <1>1, <2>1 DEF CO!UnmarshalLeaf, Taken
    <2>2. CASE b.type # "tool_use"
      BY <1>1, <1>4, <1>7, <2>2 DEF CO!UnmarshalLeaf
    <2> QED BY <2>1, <2>2
  <1>9. CO!ParseLeaf(b) = <<Taken(b)>>
    <2>1. CO!ParseAnnotations(b.annotations) = b.annotations
      <3>1. b.annotations \in WireAnnotations
        BY FieldWritten
      <3> QED BY <1>1, <3>1 DEF WireAnnotations, CO!ParseAnnotations
    <2>2. Plain(b) = b
      BY <1>1, <2>1 DEF Wire
    <2>3. CO!ParseLeaf(b) =
            CASE b.type = "resource" -> CO!ParseResourceContents(Plain(b))
              [] b.type = "resource_link" -> <<[Plain(b) EXCEPT !.size =
                   CASE @ = "negative" -> "none" [] @ = "numeral" -> "number" [] OTHER -> @]>>
              [] b.type = "tool_use" -> <<[Plain(b) EXCEPT !.payload = CO!NullIfNil(CO!AsAny(@))]>>
              [] OTHER -> <<Plain(b)>>
      BY <1>1 DEF CO!ParseLeaf
    <2> HIDE DEF Plain
    <2>4. CASE b.type = "tool_use"
      BY <2>2, <2>3, <2>4 DEF Taken
    <2>5. CASE b.type = "resource_link"
      <3>1. [b EXCEPT !.size = CASE @ = "negative" -> "none" [] @ = "numeral" -> "number" [] OTHER -> @] = b
        BY <1>1, FieldKept
      <3> QED BY <1>4, <2>2, <2>3, <2>5, <3>1
    <2>6. CASE b.type \notin {"tool_use", "resource_link"}
      BY <1>4, <1>7, <2>2, <2>3, <2>6
    <2> QED BY <2>4, <2>5, <2>6
  <1> QED BY <1>4, <1>5, <1>6, <1>7, <1>8, <1>9

\* The list of a tool's result whose blocks have been taken.
TakenItems(x) == IF CO!IsList(x) THEN [i \in DOMAIN x |-> Taken(x[i])] ELSE Null

LEMMA BuiltItemsTaken ==
  ASSUME ContentAssumption, NEW x \in WireItems, x # None,
         CO!IsList(x) => \A i \in DOMAIN x : CO!BuiltLeaf(x[i])
  PROVE  /\ UnmarshalItems(x) = <<TakenItems(x)>> /\ ParseItems(x) = <<TakenItems(x)>>
         /\ CO!IsList(x) =>
              /\ Len(x) \in Nat /\ DOMAIN x = 1..Len(x) /\ Len(TakenItems(x)) = Len(x)
              /\ CO!IsList(TakenItems(x)) /\ (TakenItems(x) = <<>> <=> x = <<>>)
              /\ DOMAIN TakenItems(x) = 1..Len(x)
              /\ \A i \in 1..Len(x) : /\ TakenItems(x)[i] = Taken(x[i])
                                      /\ CO!SameLeaf(x[i], Taken(x[i])) /\ Taken(x[i]) \in WireLeaf
         /\ ~CO!IsList(x) => x = Null /\ TakenItems(x) = Null
  <1>1. CASE CO!IsList(x)
    <2>1. /\ x \in Seq(WireLeaf) /\ Len(x) \in Nat /\ DOMAIN x = 1..Len(x)
          /\ \A i \in 1..Len(x) : x[i] \in Wire({Null})
      BY <1>1, ListOfItems DEF WireItems, WireLeaf
    <2> DEFINE n == Len(x)
               list == [i \in 1..n |-> Taken(x[i])]
               typed == [i \in 1..n |-> CO!UnmarshalLeaf(x[i])]
               parsed == [i \in 1..n |-> CO!ParseLeaf(x[i])]
    <2>2. \A i \in 1..n : /\ CO!UnmarshalLeaf(x[i]) = <<Taken(x[i])>> /\ CO!ParseLeaf(x[i]) = <<Taken(x[i])>>
                          /\ Taken(x[i]) \in WireLeaf /\ CO!SameLeaf(x[i], Taken(x[i]))
      BY <1>1, <2>1, BuiltLeafTaken DEF WireLeaf
    <2>3. /\ DOMAIN list = 1..n /\ \A i \in 1..n : list[i] = Taken(x[i])
          /\ DOMAIN typed = 1..n /\ \A i \in 1..n : typed[i] = <<list[i]>>
          /\ DOMAIN parsed = 1..n /\ \A i \in 1..n : parsed[i] = <<list[i]>>
      BY <2>2
    <2>4. TakenItems(x) = list
      BY <1>1, <2>1 DEF TakenItems
    <2>5. UnmarshalItems(x) = CO!All(typed) /\ ParseItems(x) = CO!All(parsed)
      BY <1>1, <2>1 DEF UnmarshalItems, ParseItems
    <2>6. list \in Seq(WireLeaf)
      <3>1. list \in [1..n -> WireLeaf]
        BY <2>2
      <3> HIDE DEF list
      <3> QED BY <2>1, <3>1, SeqDef
    <2> HIDE DEF list, typed, parsed
    <2>7. Len(list) = n
      BY <2>1, <2>3, <2>6, LenProperties
    <2>8. CO!All(typed) = <<list>> /\ CO!All(parsed) = <<list>>
      BY <2>3, <2>6, <2>7, AllAgain
    <2>9. CO!IsList(list)
      BY <2>6 DEF CO!IsList, ContentAssumption
    <2>10. list = <<>> <=> x = <<>>
      BY <2>1, <2>6, <2>7, EmptySeq
    <2> QED BY <1>1, <2>1, <2>2, <2>3, <2>4, <2>5, <2>7, <2>8, <2>9, <2>10
  <1>2. CASE ~CO!IsList(x)
    BY <1>2 DEF CO!IsList, UnmarshalItems, ParseItems, TakenItems, WireItems
  <1> QED BY <1>1, <1>2

\* A leaf is the same as itself, whatever list it may have.
LEMMA SameItself ==
  ASSUME NEW I, NEW b \in Wire(I)
  PROVE  CO!SameLeaf(b, b)
  <1>1. [b EXCEPT !.payload = b.payload, !.items = b.items] = b
    BY DEF Wire
  <1> QED BY <1>1 DEF CO!SameLeaf

LEMMA BuiltResultTaken ==
  ASSUME ContentAssumption, NEW b \in WireBlock, CO!BuiltBlock(b), b.type = "tool_result"
  PROVE  /\ CO!UnmarshalContent(b) = <<[b EXCEPT !.items = TakenItems(b.items)]>>
         /\ CO!ParseContent(b) =
              <<[b EXCEPT !.items = IF TakenItems(b.items) = <<>> THEN Null ELSE TakenItems(b.items),
                          !.payload = CO!AsAny(@)]>>
         /\ CO!AsAny(b.payload) \in {b.payload, CO!Rounded(b.payload)}
  <1>1. b \in Wire(WireItems) /\ b.items \in WireItems
    BY ContentMeans
  <1>2. CO!BuiltLeaf(b) /\ b.items # None /\ (CO!IsList(b.items) => \A i \in DOMAIN b.items : CO!BuiltLeaf(b.items[i]))
    BY DEF CO!BuiltBlock
  <1> DEFINE list == TakenItems(b.items)
  <1>3. UnmarshalItems(b.items) = <<list>> /\ ParseItems(b.items) = <<list>>
    BY <1>1, <1>2, BuiltItemsTaken
  <1>4. CO!UnmarshalLeaf(b) = <<b>> /\ CO!ParseLeaf(b) = <<b>>
    BY <1>1, <1>2, BuiltLeafTaken
  <1> HIDE DEF list
  <1>5. <<b>> # <<>> /\ <<b>>[1] = b /\ <<list>> # <<>> /\ <<list>>[1] = list
    OBVIOUS
  <1>6. CO!MarshalStructured(CO!AsAny(b.payload), CO!RawStructuredContent(b.payload)) = b.payload
    BY <1>1, FieldWritten, FieldsTyped
  <1>7. [b EXCEPT !.items = list,
           !.payload = CO!MarshalStructured(CO!AsAny(@), CO!RawStructuredContent(@))] = [b EXCEPT !.items = list]
    BY <1>1, <1>6 DEF Wire
  <1>8. CO!UnmarshalContent(b) = <<[b EXCEPT !.items = list]>>
    <2>1. CO!UnmarshalContent(b) =
            <<[CO!UnmarshalLeaf(b)[1] EXCEPT !.items = UnmarshalItems(b.items)[1],
                 !.payload = CO!MarshalStructured(CO!AsAny(@), CO!RawStructuredContent(@))]>>
      BY <1>3, <1>4, <1>5, ContentMeans
    <2>2. CO!UnmarshalLeaf(b)[1] = b /\ UnmarshalItems(b.items)[1] = list
      BY <1>3, <1>4, <1>5
    <2> QED BY <1>7, <2>1, <2>2
  <1>9. CO!ParseContent(b) = <<[b EXCEPT !.items = IF list = <<>> THEN Null ELSE list, !.payload = CO!AsAny(@)]>>
    <2>1. CO!ParseContent(b) =
            <<[CO!ParseLeaf(b)[1] EXCEPT
                 !.items = IF ParseItems(b.items)[1] = <<>> THEN Null ELSE ParseItems(b.items)[1],
                 !.payload = CO!AsAny(@)]>>
      BY <1>3, <1>4, <1>5, ContentMeans
    <2>2. CO!ParseLeaf(b)[1] = b /\ ParseItems(b.items)[1] = list
      BY <1>3, <1>4, <1>5
    <2> QED BY <2>1, <2>2
  <1>10. CO!AsAny(b.payload) \in {b.payload, CO!Rounded(b.payload)}
    <2>1. b.payload # "null"
      BY <1>2 DEF CO!BuiltLeaf
    <2> QED BY <2>1 DEF CO!AsAny, CO!Rounded
  <1> QED BY <1>8, <1>9, <1>10 DEF list

\* What the two decoders make of a block that the library builds.
LEMMA BuiltBlockTaken ==
  ASSUME ContentAssumption, NEW b \in WireBlock, CO!BuiltBlock(b)
  PROVE  LET u == CO!UnmarshalContent(b)[1] v == CO!ParseContent(b)[1]
         IN  /\ CO!UnmarshalContent(b) = <<u>> /\ CO!ParseContent(b) = <<v>>
             /\ CO!SameBlock(b, u) /\ CO!SameBlock(b, v) /\ CO!SameBlock(u, v)
             /\ b.payload # "rounded" => CO!Exact(u)
             /\ CO!ParseResourceContents(b) = <<b>>
             /\ CO!SameBlock(b, b)
  <1>1. b \in Wire(WireItems) /\ b.items \in WireItems
    BY ContentMeans
  <1>2. CO!BuiltLeaf(b) /\ b.items # None /\ (CO!IsList(b.items) => \A i \in DOMAIN b.items : CO!BuiltLeaf(b.items[i]))
    BY DEF CO!BuiltBlock
  <1>3. CO!ParseResourceContents(b) = <<b>>
    BY <1>1, <1>2, BuiltLeafTaken
  <1>4. CO!SameBlock(b, b)
    <2>1. CO!SameLeaf(b, b)
      BY <1>1, SameItself
    <2>2. ASSUME CO!IsList(b.items), NEW i \in DOMAIN b.items PROVE CO!SameLeaf(b.items[i], b.items[i])
      <3>1. b.items[i] \in Wire({Null})
        BY <1>1, <2>2, ListOfItems DEF WireItems, WireLeaf
      <3> QED BY <3>1, SameItself
    <2>3. ~(CO!IsList(b.items) /\ b.items # <<>>) => b.items \in {Null, <<>>}
      BY <1>2 DEF CO!IsList
    <2> QED BY <2>1, <2>2, <2>3 DEF CO!SameBlock
  <1> DEFINE x == b.items
             list == TakenItems(b.items)
  <1>5. /\ CO!IsList(x) =>
              /\ Len(x) \in Nat /\ DOMAIN x = 1..Len(x) /\ Len(list) = Len(x)
              /\ CO!IsList(list) /\ (list = <<>> <=> x = <<>>) /\ DOMAIN list = 1..Len(x)
              /\ \A i \in 1..Len(x) : /\ list[i] = Taken(x[i])
                                      /\ CO!SameLeaf(x[i], Taken(x[i])) /\ Taken(x[i]) \in WireLeaf
        /\ ~CO!IsList(x) => x = Null /\ list = Null
    BY <1>1, <1>2, BuiltItemsTaken
  <1>6. CASE b.type # "tool_result"
    <2>1. CO!UnmarshalContent(b) = <<Taken(b)>> /\ CO!ParseContent(b) = <<Taken(b)>>
      BY <1>1, <1>2, <1>6, BuiltLeafTaken, ContentMeans
    <2>2. /\ Taken(b) \in Wire(WireItems) /\ CO!SameLeaf(b, Taken(b)) /\ Taken(b).items = x
          /\ Taken(b).type = b.type /\ (b.type # "tool_use" => Taken(b) = b)
      BY <1>1, <1>2, BuiltLeafTaken
    <2> HIDE DEF x, list
    <2>3. CO!SameLeaf(Taken(b), Taken(b))
      BY <2>2, SameItself
    <2>4. ASSUME CO!IsList(x), NEW i \in DOMAIN x PROVE CO!SameLeaf(x[i], x[i])
      <3>1. x[i] \in Wire({Null})
        BY <1>1, <2>4, ListOfItems DEF WireItems, WireLeaf, x
      <3> QED BY <3>1, SameItself
    <2>5. ~(CO!IsList(x) /\ x # <<>>) => x \in {Null, <<>>}
      BY <1>2 DEF CO!IsList, x
    <2>6. CO!SameBlock(b, Taken(b)) /\ CO!SameBlock(Taken(b), Taken(b))
      BY <2>2, <2>3, <2>4, <2>5 DEF CO!SameBlock, x
    <2>7. b.payload # "rounded" => CO!Exact(Taken(b))
      BY <2>2 DEF CO!Exact
    <2>8. <<Taken(b)>>[1] = Taken(b)
      OBVIOUS
    <2> QED BY <1>3, <1>4, <2>1, <2>6, <2>7, <2>8 DEF x
  <1>7. CASE b.type = "tool_result"
    <2> DEFINE kept == IF list = <<>> THEN Null ELSE list
               p == CO!AsAny(b.payload)
               u == [b EXCEPT !.items = list]
               v == [b EXCEPT !.items = kept, !.payload = p]
    <2>1. CO!UnmarshalContent(b) = <<u>> /\ CO!ParseContent(b) = <<v>> /\ p \in {b.payload, CO!Rounded(b.payload)}
      BY <1>7, BuiltResultTaken
    <2> HIDE DEF x, list, p
    <2>2. /\ u.items = list /\ u.payload = b.payload
          /\ v.items = kept /\ v.payload = p
      BY <1>1 DEF Wire
    <2>3. /\ [b EXCEPT !.payload = b.payload, !.items = list] = u
          /\ [b EXCEPT !.payload = p, !.items = kept] = v
          /\ [u EXCEPT !.payload = p, !.items = kept] = v
      BY <1>1 DEF Wire
    <2> DEFINE q == IF p = b.payload THEN b.payload ELSE CO!Rounded(b.payload)
    <2>4. q = p
      BY <2>1
    <2> HIDE DEF u, v, q
    <2>5. CO!SameLeaf(b, u)
      BY <2>2, <2>3 DEF CO!SameLeaf
    <2>6. CO!SameLeaf(b, v)
      BY <2>2, <2>3, <2>4 DEF CO!SameLeaf, q
    <2>7. CO!SameLeaf(u, v)
      BY <2>2, <2>3, <2>4 DEF CO!SameLeaf, q
    <2>8. ASSUME CO!IsList(x) /\ x # <<>>
          PROVE  CO!SameBlock(b, u) /\ CO!SameBlock(b, v) /\ CO!SameBlock(u, v)
      <3>1. kept = list
        BY <1>5, <2>8
      <3>2. \A i \in 1..Len(x) : CO!SameLeaf(x[i], list[i]) /\ CO!SameLeaf(list[i], list[i])
        <4> TAKE i \in 1..Len(x)
        <4>1. list[i] = Taken(x[i]) /\ CO!SameLeaf(x[i], Taken(x[i])) /\ Taken(x[i]) \in Wire({Null})
          BY <1>5, <2>8 DEF WireLeaf
        <4> QED BY <4>1, SameItself
      <3> HIDE DEF kept
      <3>3. CO!SameBlock(b, u) /\ CO!SameBlock(b, v)
        BY <1>5, <2>2, <2>5, <2>6, <2>8, <3>1, <3>2 DEF CO!SameBlock, x
      <3>4. CO!SameBlock(u, v)
        BY <1>5, <2>2, <2>7, <2>8, <3>1, <3>2 DEF CO!SameBlock
      <3> QED BY <3>3, <3>4
    <2>9. ASSUME ~(CO!IsList(x) /\ x # <<>>)
          PROVE  CO!SameBlock(b, u) /\ CO!SameBlock(b, v) /\ CO!SameBlock(u, v)
      <3>1. list \in {Null, <<>>} /\ kept = Null
        BY <1>5, <2>9
      <3> HIDE DEF kept
      <3>2. ~(CO!IsList(list) /\ list # <<>>)
        BY <3>1 DEF CO!IsList
      <3>3. CO!SameBlock(b, u) /\ CO!SameBlock(b, v)
        BY <2>2, <2>5, <2>6, <2>9, <3>1 DEF CO!SameBlock, x
      <3>4. CO!SameBlock(u, v)
        BY <2>2, <2>7, <3>1, <3>2 DEF CO!SameBlock
      <3> QED BY <3>3, <3>4
    <2>10. b.payload # "rounded" => CO!Exact(u)
      BY <2>2 DEF CO!Exact
    <2>11. <<u>>[1] = u /\ <<v>>[1] = v
      OBVIOUS
    <2> QED BY <1>3, <1>4, <2>1, <2>8, <2>9, <2>10, <2>11 DEF x
  <1> QED BY <1>6, <1>7

\* A message that the library builds is fit, and so is each of its blocks.
LEMMA BuiltListMade ==
  ASSUME ContentAssumption, NEW m \in WireMessage, CO!Built(m), CO!IsList(m.blocks), Len(m.blocks) > 0,
         \A i \in DOMAIN m.blocks : m.blocks[i].payload # "rounded"
  PROVE  LET x == BlocksMade(m)[1]
         IN  /\ BlocksMade(m) # <<>> /\ CO!IsList(x) /\ Len(x) = Len(m.blocks)
             /\ \A i \in DOMAIN m.blocks :
                  /\ CO!SameBlock(m.blocks[i], x[i])
                  /\ m.kind \in {"tool", "task"} => CO!Exact(x[i])
  <1> DEFINE n == Len(m.blocks)
             b(i) == m.blocks[i]
  <1>1. /\ m.blocks \in Seq(WireBlock) /\ n \in Nat /\ DOMAIN m.blocks = 1..n
        /\ \A i \in 1..n : b(i) \in WireBlock
    BY ListOfItems DEF WireMessage
  <1>2. \A i \in 1..n : CO!BuiltBlock(b(i)) /\ b(i).payload # "rounded"
    BY <1>1 DEF CO!Built
  <1> DEFINE typed == [i \in 1..n |-> CO!UnmarshalContent(b(i))]
             parsed == [i \in 1..n |-> CO!ParseContent(b(i))]
             read == [i \in 1..n |-> CO!ParseResourceContents(b(i))]
  <1>3. /\ Unmarshalled(m.blocks, None) = CO!All(typed) /\ Unmarshalled(m.blocks, <<>>) = CO!All(typed)
        /\ Parsed(m.blocks, Null) = CO!All(parsed) /\ ParsedResources(m.blocks, Null) = CO!All(read)
    BY <1>1 DEF Unmarshalled, Parsed, ParsedResources, CO!Decoded
  <1>4. m.blocks # <<>>
    OBVIOUS
  <1>5. BlocksMade(m) = IF m.kind \in {"tool", "task"} THEN CO!All(typed)
                        ELSE IF m.kind = "resource" THEN CO!All(read) ELSE CO!All(parsed)
    BY <1>3, <1>4 DEF BlocksMade, WireMessage
  <1>6. \A i \in 1..n : /\ typed[i] = <<typed[i][1]>> /\ typed[i][1] \in WireBlock
                        /\ CO!SameBlock(b(i), typed[i][1]) /\ CO!Exact(typed[i][1])
                        /\ parsed[i] = <<parsed[i][1]>> /\ parsed[i][1] \in WireBlock
                        /\ CO!SameBlock(b(i), parsed[i][1])
                        /\ read[i] = <<b(i)>> /\ CO!SameBlock(b(i), b(i))
    <2> TAKE i \in 1..n
    <2>1. typed[i] = CO!UnmarshalContent(b(i)) /\ parsed[i] = CO!ParseContent(b(i))
          /\ read[i] = CO!ParseResourceContents(b(i)) /\ b(i) \in WireBlock
          /\ CO!BuiltBlock(b(i)) /\ b(i).payload # "rounded"
      BY <1>1, <1>2
    <2> HIDE DEF typed, parsed, read, b
    <2>2. /\ CO!UnmarshalContent(b(i)) = <<CO!UnmarshalContent(b(i))[1]>>
          /\ CO!ParseContent(b(i)) = <<CO!ParseContent(b(i))[1]>>
          /\ CO!SameBlock(b(i), CO!UnmarshalContent(b(i))[1]) /\ CO!SameBlock(b(i), CO!ParseContent(b(i))[1])
          /\ CO!Exact(CO!UnmarshalContent(b(i))[1])
          /\ CO!ParseResourceContents(b(i)) = <<b(i)>> /\ CO!SameBlock(b(i), b(i))
      BY <2>1, BuiltBlockTaken
    <2>3. \A y : <<y>> # <<>>
      OBVIOUS
    <2>4. CO!UnmarshalContent(b(i))[1] \in WireBlock /\ CO!ParseContent(b(i))[1] \in WireBlock
      BY <2>1, <2>2, <2>3, UnmarshalContentTyped, ParseContentTyped DEF Yields
    <2> QED BY <2>1, <2>2, <2>4
  <1>7. DOMAIN typed = 1..n /\ DOMAIN parsed = 1..n /\ DOMAIN read = 1..n
    OBVIOUS
  <1> HIDE DEF typed, parsed, read, b, n
  <1>8. ASSUME NEW each, DOMAIN each = 1..n, \A i \in 1..n : each[i] = <<each[i][1]>> /\ each[i][1] \in WireBlock
        PROVE  LET x == CO!All(each)[1]
               IN  /\ CO!All(each) # <<>> /\ CO!IsList(x) /\ Len(x) = n
                   /\ \A i \in 1..n : x[i] = each[i][1]
    <2>1. \A y : <<y>> # <<>>
      OBVIOUS
    <2>2. CO!All(each) # <<>>
      <3>1. ~\E i \in DOMAIN each : each[i] = <<>>
        BY <1>8, <2>1
      <3> QED BY <2>1, <3>1 DEF CO!All
    <2>3. /\ CO!IsList(CO!All(each)[1]) /\ Len(CO!All(each)[1]) = n
          /\ \A i \in 1..n : each[i] = <<CO!All(each)[1][i]>>
      BY <1>1, <1>8, <2>2, ListMade
    <2> QED BY <2>2, <2>3
  <1>9. CASE m.kind \in {"tool", "task"}
    <2>1. BlocksMade(m) = CO!All(typed)
      BY <1>5, <1>9
    <2>2. LET x == CO!All(typed)[1]
          IN  CO!All(typed) # <<>> /\ CO!IsList(x) /\ Len(x) = n /\ \A i \in 1..n : x[i] = typed[i][1]
      BY <1>6, <1>7, <1>8
    <2> HIDE DEF BlocksMade
    <2> QED BY <1>1, <1>6, <1>9, <2>1, <2>2 DEF n, b
  <1>10. CASE m.kind = "resource"
    <2>1. BlocksMade(m) = CO!All(read)
      BY <1>5, <1>10
    <2>2. \A i \in 1..n : read[i] = <<read[i][1]>> /\ read[i][1] \in WireBlock /\ read[i][1] = b(i)
      BY <1>1, <1>6
    <2>3. LET x == CO!All(read)[1]
          IN  CO!All(read) # <<>> /\ CO!IsList(x) /\ Len(x) = n /\ \A i \in 1..n : x[i] = read[i][1]
      BY <1>7, <1>8, <2>2
    <2> HIDE DEF BlocksMade
    <2>4. \A i \in 1..n : CO!SameBlock(b(i), read[i][1])
      BY <1>6, <2>2
    <2>5. m.kind \notin {"tool", "task"}
      BY <1>10
    <2> QED BY <1>1, <2>1, <2>3, <2>4, <2>5 DEF n, b
  <1>11. CASE m.kind \in {"prompt", "sampling"}
    <2>1. BlocksMade(m) = CO!All(parsed)
      BY <1>5, <1>11
    <2>2. LET x == CO!All(parsed)[1]
          IN  CO!All(parsed) # <<>> /\ CO!IsList(x) /\ Len(x) = n /\ \A i \in 1..n : x[i] = parsed[i][1]
      BY <1>6, <1>7, <1>8
    <2> HIDE DEF BlocksMade
    <2> QED BY <1>1, <1>6, <1>11, <2>1, <2>2 DEF n, b
  <1>12. m.kind \in {"prompt", "tool", "task", "resource", "sampling"}
    BY DEF WireMessage
  <1> QED BY <1>9, <1>10, <1>11, <1>12

LEMMA DecodersAgreed == ContentInv /\ ContentAssumption => CO!DecodersAgree
  <1> SUFFICES ASSUME ContentInv, ContentAssumption, CO!IsList(slot3.blocks), NEW i \in DOMAIN slot3.blocks,
                      CO!BuiltBlock(slot3.blocks[i])
               PROVE  CO!SameBlock(CO!UnmarshalContent(slot3.blocks[i])[1], CO!ParseContent(slot3.blocks[i])[1])
    BY DEF CO!DecodersAgree
  <1>1. slot3.blocks[i] \in WireBlock
    BY ListOfItems DEF ContentInv, WireMessage
  <1> QED BY <1>1, BuiltBlockTaken

\* What is first sent has not been rounded.
LEMMA VariedWhole ==
  ASSUME NEW b \in WireLeaf, b.payload # "rounded"
  PROVE  \A c \in CO!Varied(b) : c.payload # "rounded"
  <1> SUFFICES ASSUME NEW c \in CO!Varied(b) PROVE c.payload # "rounded"
    OBVIOUS
  <1>1. CASE \/ \E a \in CO!Annotations : c = [b EXCEPT !.annotations = a]
             \/ \E m \in {"object", "string"} : c = [b EXCEPT !.meta = m]
             \/ \E e \in SUBSET CO!Required(b.type) : c = [b EXCEPT !.blank = e]
             \/ \E n \in {"number", "negative", "numeral"} : c = [b EXCEPT !.size = n]
             \/ \E v \in {"text", "blob", "both", "neither", "blob, text a number"},
                   m \in {"none", "null", "object", "string"} :
                  c = [b EXCEPT !.variant = v, !.resourceMeta = m]
    <2> HIDE DEF CO!Required, CO!Annotations
    <2> QED BY <1>1 DEF WireLeaf, Wire
  <1>2. CASE \E p \in CO!Payloads : c = [b EXCEPT !.payload = p]
    BY <1>2 DEF CO!Payloads, WireLeaf, Wire
  <1> QED BY <1>1, <1>2 DEF CO!Varied

LEMMA BlocksWhole == \A b \in CO!Leaves \union CO!Blocks : b.payload # "rounded"
  <1>1. \A type \in CO!BlockTypes : /\ CO!Plain(type) \in WireLeaf /\ CO!Plain(type).payload # "rounded"
                                    /\ CO!Plain(type).payload = "small"
    <2>1. \A type : CO!Plain(type).payload = "small"
      BY DEF CO!Plain
    <2> QED BY <2>1, PlainTyped
  <1>2. \A b \in CO!Leaves : b.payload # "rounded"
    BY <1>1, VariedWhole DEF CO!Leaves
  <1>3. "tool_result" \in CO!BlockTypes
    BY DEF CO!BlockTypes
  <1>4. \A b \in CO!Varied(CO!Plain("tool_result")) : b.payload # "rounded"
    BY <1>1, <1>3, VariedWhole
  <1>5. \A i : \A p \in CO!Payloads : CO!Holding(i, p).payload # "rounded"
    <2> TAKE i
    <2> TAKE p \in CO!Payloads
    <2>1. CO!Holding(i, p).payload = p
      BY DEF CO!Holding, CO!Plain
    <2> QED BY <2>1 DEF CO!Payloads
  <1> DEFINE Results == {CO!Holding(i, p) :
                           i \in {None, Null, <<>>} \union {<<leaf>> : leaf \in CO!Leaves},
                           p \in CO!Payloads}
  <1>6. \A b \in Results : b.payload # "rounded"
    BY <1>5
  <1>7. CO!Blocks = CO!Leaves \union CO!Varied(CO!Plain("tool_result")) \union Results
    BY DEF CO!Blocks
  <1> HIDE DEF Results
  <1> QED BY <1>2, <1>4, <1>6, <1>7

WholeList(x) == CO!IsList(x) => \A i \in DOMAIN x : x[i].payload # "rounded"

LEMMA MessagesWhole == \A m \in CO!Messages : WholeList(m.blocks)
  <1>1. \A type \in {"text", "resource"} : CO!Plain(type).payload # "rounded"
    BY DEF CO!Plain
  <1>2. /\ WholeList(None) /\ WholeList(Null) /\ WholeList(<<>>)
        /\ \A a : a.payload # "rounded" => WholeList(<<a>>)
        /\ \A a, b : a.payload # "rounded" /\ b.payload # "rounded" => WholeList(<<a, b>>)
    BY DEF WholeList, CO!IsList
  <1>3. \A x \in {None, Null, <<>>, <<CO!Plain("text")>>, <<CO!Plain("resource")>>} : WholeList(x)
    BY <1>1, <1>2
  <1>4. ASSUME NEW k, NEW x \in CO!Lists(CO!BlocksOf(k)) PROVE WholeList(x)
    <2>1. \A b \in CO!BlocksOf(k) : b.payload # "rounded"
      BY BlocksWhole DEF CO!BlocksOf
    <2> QED BY <1>1, <1>2, <2>1 DEF CO!Lists
  <1>5. \A k, r, n, p, x : CO!Message(k, r, n, p, x).blocks = x
    BY DEF CO!Message
  <1> DEFINE M1 == {CO!Message(k, "user", n, p, bs) :
                      k \in {"tool", "task"}, n \in BOOLEAN, p \in CO!Payloads,
                      bs \in {None, Null, <<>>, <<CO!Plain("text")>>}}
             M2 == {CO!Message(k, r, n, "none", bs) :
                      k \in {"prompt", "resource", "sampling"}, r \in {"user", "system"},
                      n \in BOOLEAN, bs \in {None, Null, <<>>, <<CO!Plain("resource")>>}}
             M3 == UNION {{CO!Message(k, "user", FALSE, "none", bs) : bs \in CO!Lists(CO!BlocksOf(k))} :
                            k \in {"prompt", "tool", "task", "resource", "sampling"}}
  <1>6. CO!Messages = M1 \union M2 \union M3
    BY DEF CO!Messages
  <1>7. \A m \in M1 \union M2 : WholeList(m.blocks)
    BY <1>3, <1>5
  <1>8. \A m \in M3 : WholeList(m.blocks)
    <2> SUFFICES ASSUME NEW m \in M3 PROVE WholeList(m.blocks)
      OBVIOUS
    <2>1. PICK k \in {"prompt", "tool", "task", "resource", "sampling"} :
               \E bs \in CO!Lists(CO!BlocksOf(k)) : m = CO!Message(k, "user", FALSE, "none", bs)
      OBVIOUS
    <2>2. PICK bs \in CO!Lists(CO!BlocksOf(k)) : m = CO!Message(k, "user", FALSE, "none", bs)
      BY <2>1
    <2>3. WholeList(bs)
      BY <1>4
    <2> HIDE DEF M1, M2, M3
    <2>4. m.blocks = bs
      BY <2>2 DEF CO!Message
    <2> QED BY <2>3, <2>4
  <1> HIDE DEF M1, M2, M3
  <1> QED BY <1>6, <1>7, <1>8

LEMMA BuiltMade ==
  ASSUME ContentAssumption, NEW m \in WireMessage, CO!Built(m), WholeList(m.blocks)
  PROVE  LET x == BlocksMade(m)[1]
         IN  /\ ~Unfit(m) /\ BlocksMade(m) # <<>>
             /\ ~CO!IsList(m.blocks) => x = m.blocks
             /\ CO!IsList(m.blocks) =>
                  /\ Len(x) = Len(m.blocks)
                  /\ \A i \in DOMAIN m.blocks :
                       /\ CO!SameBlock(m.blocks[i], x[i])
                       /\ m.kind \in {"tool", "task"} => CO!Exact(x[i])
  <1>1. m.kind \in {"prompt", "tool", "task", "resource", "sampling"} /\ m.blocks \in {None, Null} \union Seq(WireBlock)
    BY DEF WireMessage
  <1>2. /\ m.role # "system"
        /\ m.kind = "tool" => CO!IsList(m.blocks)
        /\ m.kind = "task" => m.blocks \notin {Null, <<>>}
        /\ m.kind = "resource" => m.blocks # None /\ (CO!IsList(m.blocks) \/ m.needsInput)
        /\ m.kind \in {"prompt", "sampling"} => m.blocks # None
    BY <1>1 DEF CO!Built
  <1>3. ~Unfit(m)
    BY <1>2 DEF Unfit, CO!IsList
  <1>4. CASE ~CO!IsList(m.blocks)
    <2>1. m.blocks = IF m.kind = "task" THEN None ELSE Null
      BY <1>1, <1>2, <1>4 DEF CO!IsList
    <2>2. m.kind # "tool"
      BY <1>2, <1>4
    <2>3. m.kind = "task" => m.blocks # <<>>
      BY <1>2
    <2>4. BlocksMade(m) = <<m.blocks>>
      BY <1>1, <1>4, <2>1, <2>2, <2>3 DEF BlocksMade, Parsed, Unmarshalled, ParsedResources, CO!Decoded
    <2> HIDE DEF BlocksMade
    <2> QED BY <1>3, <1>4, <2>4
  <1>5. CASE CO!IsList(m.blocks) /\ Len(m.blocks) = 0
    <2>1. m.blocks = <<>> /\ DOMAIN m.blocks = {}
      BY <1>1, <1>5, EmptySeq DEF CO!IsList
    <2>2. m.kind # "task"
      BY <1>2, <2>1
    <2>3. CO!All(<<>>) = <<<<>>>>
      BY DEF CO!All
    <2>4. BlocksMade(m) = <<<<>>>>
      <3>1. \A none : /\ Unmarshalled(<<>>, none) = CO!All(<<>>) /\ Parsed(<<>>, none) = CO!All(<<>>)
                      /\ ParsedResources(<<>>, none) = CO!All(<<>>)
        BY <1>5, <2>1 DEF Unmarshalled, Parsed, ParsedResources, CO!Decoded
      <3> QED BY <1>1, <2>1, <2>2, <2>3, <3>1 DEF BlocksMade
    <2> HIDE DEF BlocksMade
    <2> QED BY <1>3, <1>5, <2>1, <2>4
  <1>6. CASE CO!IsList(m.blocks) /\ Len(m.blocks) > 0
    <2>1. \A i \in DOMAIN m.blocks : m.blocks[i].payload # "rounded"
      BY <1>6 DEF WholeList
    <2> HIDE DEF BlocksMade
    <2> QED BY <1>3, <1>6, <2>1, BuiltListMade
  <1>7. CO!IsList(m.blocks) => Len(m.blocks) \in Nat
    BY <1>1, ListOfItems
  <1> QED BY <1>4, <1>5, <1>6, <1>7

LEMMA FirstWhole == CO!Spec => []WholeList(slot1.blocks)
  <1>1. CO!Init => WholeList(slot1.blocks)
    BY MessagesWhole DEF CO!Init
  <1>2. WholeList(slot1.blocks) /\ [CO!Next]_CO!vars => WholeList(slot1.blocks)'
    BY DEF CO!Next, CO!Forward, CO!vars
  <1> QED BY <1>1, <1>2, PTL DEF CO!Spec

\* What the library builds arrives as it was sent.
LEMMA BuiltArrived ==
  ContentInv /\ ArrivedInv /\ WholeList(slot1.blocks) /\ ContentAssumption => CO!BuiltArrives
  <1> SUFFICES ASSUME ContentInv, ArrivedInv, WholeList(slot1.blocks), ContentAssumption, CO!Built(slot1)
               PROVE  /\ ~slot2 /\ slot3.payload = slot1.payload
                      /\ IF CO!IsList(slot1.blocks)
                           THEN /\ Len(slot3.blocks) = Len(slot1.blocks)
                                /\ \A i \in DOMAIN slot1.blocks :
                                     /\ CO!SameBlock(slot1.blocks[i], slot3.blocks[i])
                                     /\ slot3.kind \in {"tool", "task"} => CO!Exact(slot3.blocks[i])
                           ELSE slot3.blocks = slot1.blocks
    BY DEF CO!BuiltArrives
  <1>1. slot1 \in WireMessage /\ slot4 \in Nat
    BY DEF ContentInv
  <1>2. ASSUME CO!IsList(slot1.blocks), NEW i \in DOMAIN slot1.blocks
        PROVE  /\ slot1.blocks[i] \in WireBlock /\ CO!BuiltBlock(slot1.blocks[i])
               /\ slot1.blocks[i].payload # "rounded"
    BY <1>1, <1>2, ListOfItems DEF WireMessage, CO!Built, WholeList
  <1>3. CASE slot4 = 0
    <2>1. ~slot2 /\ slot3 = slot1
      BY <1>3 DEF ArrivedInv
    <2>2. ASSUME CO!IsList(slot1.blocks), NEW i \in DOMAIN slot1.blocks
          PROVE  CO!SameBlock(slot1.blocks[i], slot1.blocks[i]) /\ CO!Exact(slot1.blocks[i])
      <3>1. slot1.blocks[i] \in WireBlock /\ CO!BuiltBlock(slot1.blocks[i]) /\ slot1.blocks[i].payload # "rounded"
        BY <1>2, <2>2
      <3>2. CO!SameBlock(slot1.blocks[i], slot1.blocks[i])
        BY <3>1, BuiltBlockTaken
      <3> QED BY <3>1, <3>2 DEF CO!Exact
    <2> QED BY <2>1, <2>2
  <1>4. CASE slot4 > 0
    <2> DEFINE x == BlocksMade(slot1)[1]
    <2>1. /\ ~Unfit(slot1) /\ BlocksMade(slot1) # <<>>
          /\ ~CO!IsList(slot1.blocks) => x = slot1.blocks
          /\ CO!IsList(slot1.blocks) =>
               /\ Len(x) = Len(slot1.blocks)
               /\ \A i \in DOMAIN slot1.blocks :
                    /\ CO!SameBlock(slot1.blocks[i], x[i])
                    /\ slot1.kind \in {"tool", "task"} => CO!Exact(x[i])
      BY <1>1, BuiltMade DEF WholeList
    <2> HIDE DEF x
    <2>2. CO!Parse(slot1) = <<[slot1 EXCEPT !.blocks = x]>>
      BY <1>1, <2>1, ParseMeans DEF x
    <2>3. ~slot2
      BY <1>4, <2>2 DEF ArrivedInv
    <2>4. slot3 = [slot1 EXCEPT !.blocks = x]
      BY <1>4, <2>2, <2>3 DEF ArrivedInv
    <2>5. slot3.payload = slot1.payload /\ slot3.blocks = x /\ slot3.kind = slot1.kind
      BY <1>1, <2>4 DEF WireMessage
    <2> QED BY <2>1, <2>3, <2>5
  <1> QED BY <1>1, <1>3, <1>4

LEMMA ContentAlwaysArrives == ContentAssumption => (CO!Spec => []CO!ContentArrives)
  <1> SUFFICES ASSUME ContentAssumption PROVE CO!Spec => []CO!ContentArrives
    OBVIOUS
  <1>1. ContentInv /\ ArrivedInv /\ WholeList(slot1.blocks) => CO!ContentArrives
    BY ContentStable, DecodersAgreed, BuiltArrived DEF CO!ContentArrives
  <1> QED BY <1>1, ContentKept, ArrivedKept, FirstWhole, PTL

LEMMA CallsPart == PartsSpec => [](part = "calls" => CL!TypeOK /\ CL!Served)
  <1>1. PartsInit /\ part = "calls" => CL!Init
    BY DEF PartsInit
  <1>2. [PartsNext]_PartsVars /\ part = "calls" => [CL!Next]_CL!vars
    BY DEF PartsNext, PartsVars, CL!vars
  <1>3. [PartsNext]_PartsVars => UNCHANGED part
    BY DEF PartsNext, PartsVars
  <1>4. CL!Spec => [](CL!TypeOK /\ CL!Served)
    BY CallsTyped, CallsServed, PTL
  <1>5. UNCHANGED part => ((part = "calls") <=> (part = "calls")')
    OBVIOUS
  <1> QED BY <1>1, <1>2, <1>3, <1>4, <1>5, PTL DEF PartsSpec, CL!Spec

LEMMA SubscriptionsPart == PartsSpec => [](part = "subscriptions" => SB!TypeOK /\ SB!Subscribed)
  <1>1. PartsInit /\ part = "subscriptions" => SB!Init
    BY DEF PartsInit
  <1>2. [PartsNext]_PartsVars /\ part = "subscriptions" => [SB!Next]_SB!vars
    BY DEF PartsNext, PartsVars, SB!vars
  <1>3. [PartsNext]_PartsVars => UNCHANGED part
    BY DEF PartsNext, PartsVars
  <1>4. SB!Spec => [](SB!TypeOK /\ SB!Subscribed)
    BY SubscriptionTyped, StreamsAsAsked, PTL
  <1>5. UNCHANGED part => ((part = "subscriptions") <=> (part = "subscriptions")')
    OBVIOUS
  <1> QED BY <1>1, <1>2, <1>3, <1>4, <1>5, PTL DEF PartsSpec, SB!Spec

LEMMA ArgumentsPart == PartsSpec => [](part = "arguments" => AR!TypeOK /\ AR!ArgumentsRead)
  <1>1. PartsInit /\ part = "arguments" => AR!Init
    BY DEF PartsInit
  <1>2. [PartsNext]_PartsVars /\ part = "arguments" => [AR!Next]_AR!vars
    BY DEF PartsNext, PartsVars, AR!vars
  <1>3. [PartsNext]_PartsVars => UNCHANGED part
    BY DEF PartsNext, PartsVars
  <1>4. AR!Spec => [](AR!TypeOK /\ AR!ArgumentsRead)
    BY ArgumentsTyped
  <1>5. UNCHANGED part => ((part = "arguments") <=> (part = "arguments")')
    OBVIOUS
  <1> QED BY <1>1, <1>2, <1>3, <1>4, <1>5, PTL DEF PartsSpec, AR!Spec

LEMMA ContentPart == PartsSpec => [](part = "content" => CO!TypeOK /\ CO!ContentArrives)
  <1>1. PartsInit /\ part = "content" => CO!Init
    BY DEF PartsInit
  <1>2. [PartsNext]_PartsVars /\ part = "content" => [CO!Next]_CO!vars
    BY DEF PartsNext, PartsVars, CO!vars
  <1>3. [PartsNext]_PartsVars => UNCHANGED part
    BY DEF PartsNext, PartsVars
  <1>4. CO!Spec => [](CO!TypeOK /\ CO!ContentArrives)
    BY ContentTyped, ContentAlwaysArrives, ContentAssumption, PTL
  <1>5. UNCHANGED part => ((part = "content") <=> (part = "content")')
    OBVIOUS
  <1> QED BY <1>1, <1>2, <1>3, <1>4, <1>5, PTL DEF PartsSpec, CO!Spec

-----------------------------------------------------------------------------
(* The other components.                                                   *)

P == INSTANCE PartsProofs WITH activeSessions <- slot2, closed <- slot1,
    terminated <- slot4, get <- slot7, hooks <- slot6, sessions <- slot3,
    init <- slot5, post <- slot8, cleaner <- slot9, object <- slot10,
    sender <- slot11, owns <- slot12, started <- slot2, session <- slot3,
    done <- slot7, call <- slot4, starting <- slot5, registered <- slot8,
    forwarders <- slot9, result <- slot10, responses <- slot9,
    answer <- slot6, reader <- slot10, current <- slot8, isCommand <- slot1,
    resourcesReady <- slot3, child <- slot5, cleanup <- slot11,
    request <- slot12, stdin <- slot13, stdout <- slot14,
    closeCalled <- slot15, answers <- slot9, driver <- slot1, pc <- slot2,
    calls <- slot3, loadShedding <- slot4, asked <- slot5, askedAt <- slot6,
    state <- slot7, helper <- slot8, gathered <- slot10, failed <- slot11,
    client <- slot7, sent <- slot1, server <- slot2, requests <- slot4,
    version <- slot5, initialized <- slot8, serverIsModern <- slot9,
    requestIDCounter <- slot1, asker <- slot3, samplingRequests <- slot5,
    requestChan <- slot6, received <- slot8, lost <- slot10,
    serverMetadata <- slot1, metadataOnce <- slot2, fetchErr <- slot3,
    knownIssuer <- slot5, credentials <- slot6, store <- slot7,
    refresh <- slot8, registration <- slot9, discovery <- slot10,
    flow <- slot11, expectedState <- slot12,
    authorizationTransaction <- slot13, urls <- slot14, issued <- slot15,
    presetSentTo <- slot16, codeSends <- slot17, replaced <- slot18,
    tools <- slot1, toolName <- slot2, toolHeaderBindings <- slot3,
    sessionTools <- slot4, knownTools <- slot5, lister <- slot6,
    callTool <- slot7, definitions <- slot9, changes <- slot6,
    cached <- slot2, invalidating <- slot3, compiles <- slot5, build <- slot1,
    processes <- slot2, schemas <- slot3, definer <- slot4, saver <- slot5,
    file <- slot6, tempFiles <- slot7, marshaled <- slot8, users <- slot9,
    modern <- slot1, hasHandler <- slot2, caller <- slot4, events <- slot5,
    connection <- slot6, streams <- slot7, cursor <- slot8, ctxDone <- slot11,
    incoming <- slot12, handled <- slot13, unfinished <- slot14,
    kind <- slot1, capability <- slot2, items <- slot3, taskTools <- slot4,
    sessionItems <- slot5, changer <- slot8, notifications <- slot9,
    view <- slot10, again <- slot11, dropped <- slot12, stayed <- slot13,
    logs <- slot14

\* What PartsProofs takes for granted is assumed here too.
LEMMA Given ==
  /\ P!HttpSessionsAssumption /\ P!OAuthAssumption /\ P!TransportsAssumption
  /\ P!RoundTripsAssumption /\ P!NegotiationAssumption /\ P!SubscriptionsAssumption
  /\ P!ServerRequestsAssumption /\ P!HeadersAssumption /\ P!SchemaCacheAssumption
  /\ P!CallsAssumption /\ P!ArgumentsAssumption /\ P!PowersAssumption
  /\ P!ListensAssumption /\ P!RegistryAssumption /\ P!ContentAssumption
  <1>1. P!HttpSessionsAssumption /\ P!OAuthAssumption /\ P!TransportsAssumption
    BY HttpSessionsAssumption, OAuthAssumption, TransportsAssumption
       DEF HttpSessionsAssumption, OAuthAssumption, TransportsAssumption
  <1>2. P!RoundTripsAssumption /\ P!NegotiationAssumption /\ P!SubscriptionsAssumption
    BY RoundTripsAssumption, NegotiationAssumption, SubscriptionsAssumption
       DEF RoundTripsAssumption, NegotiationAssumption, SubscriptionsAssumption
  <1>3. P!ServerRequestsAssumption /\ P!HeadersAssumption /\ P!SchemaCacheAssumption
    BY ServerRequestsAssumption, HeadersAssumption, SchemaCacheAssumption
       DEF ServerRequestsAssumption, HeadersAssumption, SchemaCacheAssumption
  <1>4. P!CallsAssumption /\ P!ArgumentsAssumption /\ P!PowersAssumption
    BY CallsAssumption, ArgumentsAssumption, PowersAssumption
       DEF CallsAssumption, ArgumentsAssumption, PowersAssumption
  <1>5. P!ListensAssumption /\ P!RegistryAssumption
    BY ListensAssumption, RegistryAssumption
       DEF ListensAssumption, RegistryAssumption, IsFiniteSet, P!IsFiniteSet
  <1>6. P!ContentAssumption
    BY ContentAssumption
       DEF ContentAssumption, WireBlock, P!WireBlock, WireLeaf, P!WireLeaf, Wire, P!Wire,
           WireAnnotations, P!WireAnnotations, WireMeta, P!WireMeta, WireSizes, P!WireSizes,
           WireVariants, P!WireVariants, WireResourceMeta, P!WireResourceMeta,
           WirePayloads, P!WirePayloads
  <1> QED BY <1>1, <1>2, <1>3, <1>4, <1>5, <1>6

LEMMA Proved ==
  /\ P!HS!Spec => []P!HS!TypeOK
  /\ P!HS!Spec => []P!HS!LeavesNothing
  /\ P!IP!Spec => []P!IP!TypeOK
  /\ P!IP!Spec => []P!IP!LetsGo
  /\ P!SC!Spec => []P!SC!TypeOK
  /\ P!SC!Spec => []P!SC!LetsGo
  /\ P!RT!Spec => []P!RT!TypeOK
  /\ P!RT!Spec => []P!RT!AnswersComplete
  /\ P!NG!Spec => []P!NG!TypeOK
  /\ P!NG!Spec => []P!NG!Negotiated
  /\ P!SR!Spec => []P!SR!TypeOK
  /\ P!SR!Spec => []P!SR!AsksAnswered
  /\ P!OA!Spec => []P!OA!TypeOK
  /\ P!OA!Spec => []P!OA!CredentialsStayHome
  /\ P!HD!Spec => []P!HD!TypeOK
  /\ P!HD!Spec => []P!HD!HeadersAgree
  /\ P!VA!Spec => []P!VA!TypeOK
  /\ P!VA!Spec => []P!VA!SchemasApply
  /\ P!SH!Spec => []P!SH!TypeOK
  /\ P!SH!Spec => []P!SH!SchemasKept
  /\ P!RS!Spec => []P!RS!TypeOK
  /\ P!RS!Spec => []P!RS!StreamRead
  /\ P!RG!Spec => []P!RG!TypeOK
  /\ P!RG!Spec => []P!RG!ClientSeesTheRegistry
  <1>1. /\ P!HS!Spec => []P!HS!TypeOK
        /\ P!HS!Spec => []P!HS!LeavesNothing
        /\ P!IP!Spec => []P!IP!TypeOK
        /\ P!IP!Spec => []P!IP!LetsGo
        /\ P!SC!Spec => []P!SC!TypeOK
        /\ P!SC!Spec => []P!SC!LetsGo
        /\ P!RT!Spec => []P!RT!TypeOK
        /\ P!RT!Spec => []P!RT!AnswersComplete
    BY P!SessionsTypes, P!SessionsLeaveNothing,
       P!InProcessTyped, P!InProcessLetsGo,
       P!StdioTyped, P!StdioLetsGo,
       P!RoundTripsTyped, P!RoundTripsComplete, Given
  <1>2. /\ P!NG!Spec => []P!NG!TypeOK
        /\ P!NG!Spec => []P!NG!Negotiated
        /\ P!SR!Spec => []P!SR!TypeOK
        /\ P!SR!Spec => []P!SR!AsksAnswered
        /\ P!OA!Spec => []P!OA!TypeOK
        /\ P!OA!Spec => []P!OA!CredentialsStayHome
        /\ P!HD!Spec => []P!HD!TypeOK
        /\ P!HD!Spec => []P!HD!HeadersAgree
    BY P!NegotiationTyped, P!VersionsAgree,
       P!AsksTyped, P!AsksGetAnswers,
       P!OAuthTyped, P!CredentialsAtHome,
       P!HeadersTyped, P!HeadersSayTheSame, Given
  <1>3. /\ P!VA!Spec => []P!VA!TypeOK
        /\ P!VA!Spec => []P!VA!SchemasApply
        /\ P!SH!Spec => []P!SH!TypeOK
        /\ P!SH!Spec => []P!SH!SchemasKept
        /\ P!RS!Spec => []P!RS!TypeOK
        /\ P!RS!Spec => []P!RS!StreamRead
        /\ P!RG!Spec => []P!RG!TypeOK
        /\ P!RG!Spec => []P!RG!ClientSeesTheRegistry
    BY P!ValidationTyped, P!SchemasApply,
       P!CacheTyped, P!SchemasKept,
       P!ResponseTyped, P!StreamReadInOrder,
       P!RegistryWellTyped, P!RegistrySeen, Given
  <1> QED BY <1>1, <1>2, <1>3


-----------------------------------------------------------------------------
(* A component is the same under both instances.                           *)
LEMMA HttpSessionsSame ==
  /\ HS!Init => P!HS!Init
  /\ HS!Next => P!HS!Next
  /\ P!HS!TypeOK => HS!TypeOK
  /\ P!HS!LeavesNothing => HS!LeavesNothing
  <1>1. HS!Init => P!HS!Init
    BY DEF HS!Init, P!HS!Init
  <1>2. HS!Next => P!HS!Next
    BY DEF HS!Next, HS!Initializing, HS!Getting, HS!Posting, HS!Cleaning,
          HS!InitRespond, HS!InitCheck, HS!InitStore, HS!InitRegister, HS!Get,
          HS!GetRegister, HS!GetEnds, HS!GetUnregister, HS!Post, HS!PostLookup,
          HS!TrySend, HS!PostRegister, HS!PostReturns, HS!Terminate, HS!CloseSessions,
          HS!CleanupUnregister, HS!CleanupDelete, HS!RegisterSession,
          HS!UnregisterSession, HS!IsNext, P!HS!Next, P!HS!Initializing, P!HS!Getting,
          P!HS!Posting, P!HS!Cleaning, P!HS!InitRespond, P!HS!InitCheck, P!HS!InitStore,
          P!HS!InitRegister, P!HS!Get, P!HS!GetRegister, P!HS!GetEnds,
          P!HS!GetUnregister, P!HS!Post, P!HS!PostLookup, P!HS!TrySend,
          P!HS!PostRegister, P!HS!PostReturns, P!HS!Terminate, P!HS!CloseSessions,
          P!HS!CleanupUnregister, P!HS!CleanupDelete, P!HS!RegisterSession,
          P!HS!UnregisterSession, P!HS!IsNext
  <1>3. P!HS!TypeOK => HS!TypeOK
    BY DEF HS!TypeOK, HS!Objects, P!HS!TypeOK, P!HS!Objects
  <1>4. P!HS!LeavesNothing => HS!LeavesNothing
    BY DEF HS!LeavesNothing, HS!LookedAfter, P!HS!LeavesNothing, P!HS!LookedAfter
  <1> QED BY <1>1, <1>2, <1>3, <1>4

LEMMA InProcessSame ==
  /\ IP!Init => P!IP!Init
  /\ IP!Next => P!IP!Next
  /\ P!IP!TypeOK => IP!TypeOK
  /\ P!IP!LetsGo => IP!LetsGo
  <1>1. IP!Init => P!IP!Init
    BY DEF IP!Init, P!IP!Init
  <1>2. IP!Next => P!IP!Next
    BY DEF IP!Next, IP!Starting, IP!Closing, IP!ForwarderEnds, IP!Start, IP!GivesUp,
          IP!RegisterSession, IP!PublishSession, IP!StartUnregisters, IP!Forward,
          IP!Close, IP!CloseDone, IP!CloseUnregisters, IP!Returns, IP!UnregisterSession,
          P!IP!Next, P!IP!Starting, P!IP!Closing, P!IP!ForwarderEnds, P!IP!Start,
          P!IP!GivesUp, P!IP!RegisterSession, P!IP!PublishSession,
          P!IP!StartUnregisters, P!IP!Forward, P!IP!Close, P!IP!CloseDone,
          P!IP!CloseUnregisters, P!IP!Returns, P!IP!UnregisterSession
  <1>3. P!IP!TypeOK => IP!TypeOK
    BY DEF IP!TypeOK, P!IP!TypeOK
  <1>4. P!IP!LetsGo => IP!LetsGo
    BY DEF IP!LetsGo, IP!Over, P!IP!LetsGo, P!IP!Over
  <1> QED BY <1>1, <1>2, <1>3, <1>4

LEMMA StdioClientSame ==
  /\ SC!Init => P!SC!Init
  /\ SC!Next => P!SC!Next
  /\ P!SC!TypeOK => SC!TypeOK
  /\ P!SC!LetsGo => SC!LetsGo
  <1>1. SC!Init => P!SC!Init
    BY DEF SC!Init, SC!Calls, P!SC!Init, P!SC!Calls
  <1>2. SC!Next => P!SC!Next
    BY DEF SC!Next, SC!Starting, SC!Close, SC!Calls, SC!Cleanup, SC!CleanedUp,
          SC!GivesUp, SC!WaitReturns, P!SC!GivesUp, P!SC!WaitReturns, SC!Requesting,
          SC!ServerAnswers, SC!ServerDies, SC!Reading, SC!Start, SC!SpawnFails,
          SC!Spawn, SC!Publish, SC!StartReader, SC!requestVars,
          SC!readerVars, SC!SendRequest, SC!Write, SC!Answered, SC!Cancelled,
          SC!SeesDone, SC!Leaves, SC!procVars, SC!ReaderChecks, SC!ReaderReads,
          SC!ReaderAnswers, SC!ReaderDeletes, SC!ReaderEnds, P!SC!Next, P!SC!Starting,
          P!SC!Close, P!SC!Calls, P!SC!Cleanup, P!SC!CleanedUp, P!SC!Requesting,
          P!SC!ServerAnswers, P!SC!ServerDies, P!SC!Reading, P!SC!Start,
          P!SC!SpawnFails, P!SC!Spawn, P!SC!Publish, P!SC!StartReader, P!SC!requestVars,
          P!SC!readerVars, P!SC!SendRequest, P!SC!Write, P!SC!Answered, P!SC!Cancelled,
          P!SC!SeesDone, P!SC!Leaves, P!SC!procVars, P!SC!ReaderChecks,
          P!SC!ReaderReads, P!SC!ReaderAnswers, P!SC!ReaderDeletes, P!SC!ReaderEnds
  <1>3. P!SC!TypeOK => SC!TypeOK
    BY DEF SC!TypeOK, SC!Calls, P!SC!TypeOK, P!SC!Calls
  <1>4. P!SC!LetsGo => SC!LetsGo
    BY DEF SC!LetsGo, SC!Over, SC!Calls, P!SC!LetsGo, P!SC!Over, P!SC!Calls
  <1> QED BY <1>1, <1>2, <1>3, <1>4

LEMMA RoundTripsSame ==
  /\ RT!Init => P!RT!Init
  /\ RT!Next => P!RT!Next
  /\ P!RT!TypeOK => RT!TypeOK
  /\ P!RT!AnswersComplete => RT!AnswersComplete
  <1>1. RT!Init => P!RT!Init
    BY DEF RT!Init, RT!NoAnswers, RT!NoHelpers, P!RT!Init, P!RT!NoAnswers,
          P!RT!NoHelpers
  <1>2. RT!Next => P!RT!Next
    BY DEF RT!Next, RT!Finishes, RT!ShedsLoad, RT!LeavesToCaller, RT!NeedsInput,
          RT!Answers, RT!Fails, RT!CallsAgain, RT!NoAnswers, P!RT!Next, P!RT!Finishes,
          P!RT!ShedsLoad, P!RT!LeavesToCaller, P!RT!NeedsInput, P!RT!Answers,
          P!RT!Fails, P!RT!CallsAgain, P!RT!NoAnswers
  <1>3. P!RT!TypeOK => RT!TypeOK
    BY DEF RT!TypeOK, P!RT!TypeOK
  <1>4. P!RT!AnswersComplete => RT!AnswersComplete
    BY DEF RT!AnswersComplete, P!RT!AnswersComplete
  <1> QED BY <1>1, <1>2, <1>3, <1>4

LEMMA NegotiationSame ==
  /\ NG!Init => P!NG!Init
  /\ NG!Next => P!NG!Next
  /\ P!NG!TypeOK => NG!TypeOK
  /\ P!NG!Negotiated => NG!Negotiated
  <1>1. NG!Init => P!NG!Init
    BY DEF NG!Init, NG!Versions, NG!NoAnswer, NG!ClientIdle, P!NG!Init, P!NG!Versions,
          P!NG!NoAnswer, P!NG!ClientIdle
  <1>2. NG!Next => P!NG!Next
    BY DEF NG!Next, NG!Initialize, NG!Discovered, NG!Renegotiates, NG!Unsupported,
          NG!NoDiscovery, NG!Answered, NG!Notified, NG!GivesUp, NG!HandleDiscover,
          NG!RefuseDiscover, NG!HandleInitialize, NG!IsModern, NG!Probe, NG!Latest,
          NG!ClientIdle, NG!Handshake, NG!DiscoveredVersion, NG!NoAnswer, NG!Mutual,
          NG!ProbeFails, NG!Accepts, NG!Respond, NG!NegotiateLegacy, NG!Send,
          NG!Highest, NG!LatestLegacy, NG!Max, P!NG!Next, P!NG!Initialize,
          P!NG!Discovered, P!NG!Renegotiates, P!NG!Unsupported, P!NG!NoDiscovery,
          P!NG!Answered, P!NG!Notified, P!NG!GivesUp, P!NG!HandleDiscover,
          P!NG!RefuseDiscover, P!NG!HandleInitialize, P!NG!IsModern, P!NG!Probe,
          P!NG!Latest, P!NG!ClientIdle, P!NG!Handshake, P!NG!DiscoveredVersion,
          P!NG!NoAnswer, P!NG!Mutual, P!NG!ProbeFails, P!NG!Accepts, P!NG!Respond,
          P!NG!NegotiateLegacy, P!NG!Send, P!NG!Highest, P!NG!LatestLegacy, P!NG!Max
  <1>3. P!NG!TypeOK => NG!TypeOK
    BY DEF NG!TypeOK, NG!Versions, P!NG!TypeOK, P!NG!Versions
  <1>4. P!NG!Negotiated => NG!Negotiated
    BY DEF NG!Negotiated, NG!IsModern, P!NG!Negotiated, P!NG!IsModern
  <1> QED BY <1>1, <1>2, <1>3, <1>4

LEMMA ServerRequestsSame ==
  /\ SR!Init => P!SR!Init
  /\ SR!Next => P!SR!Next
  /\ P!SR!TypeOK => SR!TypeOK
  /\ P!SR!AsksAnswered => SR!AsksAnswered
  <1>1. SR!Init => P!SR!Init
    BY DEF SR!Init, SR!Askers, SR!NoAsk, SR!Objects, SR!NoGet, SR!NoAnswer, P!SR!Init,
          P!SR!Askers, P!SR!NoAsk, P!SR!Objects, P!SR!NoGet, P!SR!NoAnswer
  <1>2. SR!Next => P!SR!Next
    BY DEF SR!Next, SR!Get, SR!Write, SR!GetEnds, SR!Forward, SR!CleanUp, SR!Askers,
          SR!Store, SR!Register, SR!TrySend, SR!PostWrite, SR!PostReturns, SR!Queue,
          SR!Take, SR!ContextEnds, SR!Return, SR!Answer, SR!Locate, SR!Deliver,
          SR!GetSame, SR!AskersOf, SR!NoGet, SR!InBounds, SR!NextID, SR!AskSame,
          SR!Request, SR!AskerStep, SR!Handle, SR!Response, SR!Cardinality,
          SR!IsFiniteSet, P!SR!Next, P!SR!Get, P!SR!Write, P!SR!GetEnds, P!SR!Forward,
          P!SR!CleanUp, P!SR!Askers, P!SR!Store, P!SR!Register, P!SR!TrySend,
          P!SR!PostWrite, P!SR!PostReturns, P!SR!Queue, P!SR!Take, P!SR!ContextEnds,
          P!SR!Return, P!SR!Answer, P!SR!Locate, P!SR!Deliver, P!SR!GetSame,
          P!SR!AskersOf, P!SR!NoGet, P!SR!InBounds, P!SR!NextID, P!SR!AskSame,
          P!SR!Request, P!SR!AskerStep, P!SR!Handle, P!SR!Response, P!SR!Cardinality,
          P!SR!IsFiniteSet
  <1>3. P!SR!TypeOK => SR!TypeOK
    BY DEF SR!TypeOK, SR!Askers, SR!Objects, SR!Cardinality, SR!IsFiniteSet,
          P!SR!TypeOK, P!SR!Askers, P!SR!Objects, P!SR!Cardinality, P!SR!IsFiniteSet
  <1>4. P!SR!AsksAnswered => SR!AsksAnswered
    BY DEF SR!AsksAnswered, SR!OwnAnswer, SR!PendingIsAsked, SR!AskedOnce, SR!Askers,
          SR!Objects, SR!Places, SR!AskersOf, SR!Cardinality, SR!IsFiniteSet,
          P!SR!AsksAnswered, P!SR!OwnAnswer, P!SR!PendingIsAsked, P!SR!AskedOnce,
          P!SR!Askers, P!SR!Objects, P!SR!Places, P!SR!AskersOf, P!SR!Cardinality,
          P!SR!IsFiniteSet
  <1> QED BY <1>1, <1>2, <1>3, <1>4

LEMMA OAuthSame ==
  /\ OA!Init => P!OA!Init
  /\ OA!Next => P!OA!Next
  /\ P!OA!TypeOK => OA!TypeOK
  /\ P!OA!CredentialsStayHome => OA!CredentialsStayHome
  <1>1. OA!Init => P!OA!Init
    BY DEF OA!Init, OA!NoMetadata, OA!NoCredentials, OA!NoToken, OA!NoRefresh,
          OA!NoRegistration, OA!Procs, OA!NoDiscovery, OA!FlowIdle, OA!NoTransaction,
          OA!URLs, P!OA!Init, P!OA!NoMetadata, P!OA!NoCredentials, P!OA!NoToken,
          P!OA!NoRefresh, P!OA!NoRegistration, P!OA!Procs, P!OA!NoDiscovery,
          P!OA!FlowIdle, P!OA!NoTransaction, P!OA!URLs
  <1>2. OA!Next => P!OA!Next
    BY DEF OA!Next, OA!Procs, OA!FetchEnds, OA!AwaitEnds,
          OA!SetProtectedResourceMetadataURL, OA!GetValidToken, OA!StartRefresh,
          OA!StopWaiting, OA!Refreshing, OA!Registered, OA!RegistrationFails,
          OA!Flowing, OA!metaVars, OA!flowVars, OA!NoMetadata, OA!NoToken,
          OA!RefreshStoredToken, OA!RefreshDiscovered, OA!SendRefresh,
          OA!RefreshAnswered, OA!RefreshFails, OA!TokenExpires, OA!StillBound,
          OA!RegistrationOver, OA!RegisterClient, OA!GetAuthorizationURL, OA!Callback,
          OA!FlowDiscovered, OA!Register, OA!BindURL, OA!PublishURL, OA!ExchangeCode,
          OA!Exchanged, OA!GivesUp, OA!RefreshOver, OA!Discover, OA!NoDiscovery,
          OA!Discovered, OA!Bindable, OA!Binding, OA!SentTo, OA!NoRegistration,
          OA!FlowIdle, OA!NoTransaction, OA!NeedsClient, OA!NoRefresh, OA!NoCredentials,
          OA!Migrates, P!OA!Next, P!OA!Procs, P!OA!FetchEnds, P!OA!AwaitEnds,
          P!OA!SetProtectedResourceMetadataURL, P!OA!GetValidToken, P!OA!StartRefresh,
          P!OA!StopWaiting, P!OA!Refreshing, P!OA!Registered, P!OA!RegistrationFails,
          P!OA!Flowing, P!OA!metaVars, P!OA!flowVars, P!OA!NoMetadata, P!OA!NoToken,
          P!OA!RefreshStoredToken, P!OA!RefreshDiscovered, P!OA!SendRefresh,
          P!OA!RefreshAnswered, P!OA!RefreshFails, P!OA!TokenExpires, P!OA!StillBound,
          P!OA!RegistrationOver, P!OA!RegisterClient, P!OA!GetAuthorizationURL,
          P!OA!Callback, P!OA!FlowDiscovered, P!OA!Register, P!OA!BindURL,
          P!OA!PublishURL, P!OA!ExchangeCode, P!OA!Exchanged, P!OA!GivesUp,
          P!OA!RefreshOver, P!OA!Discover, P!OA!NoDiscovery, P!OA!Discovered,
          P!OA!Bindable, P!OA!Binding, P!OA!SentTo, P!OA!NoRegistration, P!OA!FlowIdle,
          P!OA!NoTransaction, P!OA!NeedsClient, P!OA!NoRefresh, P!OA!NoCredentials,
          P!OA!Migrates
  <1>3. P!OA!TypeOK => OA!TypeOK
    BY DEF OA!TypeOK, OA!Metadata, OA!IssuerOrNone, OA!Credentials, OA!TokenRecord,
          OA!Procs, OA!Transactions, OA!URLs, OA!Tokens, OA!Clients, P!OA!TypeOK,
          P!OA!Metadata, P!OA!IssuerOrNone, P!OA!Credentials, P!OA!TokenRecord,
          P!OA!Procs, P!OA!Transactions, P!OA!URLs, P!OA!Tokens, P!OA!Clients
  <1>4. P!OA!CredentialsStayHome => OA!CredentialsStayHome
    BY DEF OA!CredentialsStayHome, OA!Belongs, OA!URLs, OA!Cardinality, OA!IsFiniteSet,
          P!OA!CredentialsStayHome, P!OA!Belongs, P!OA!URLs, P!OA!Cardinality,
          P!OA!IsFiniteSet
  <1> QED BY <1>1, <1>2, <1>3, <1>4

LEMMA HeadersSame ==
  /\ HD!Init => P!HD!Init
  /\ HD!Next => P!HD!Next
  /\ P!HD!TypeOK => HD!TypeOK
  /\ P!HD!HeadersAgree => HD!HeadersAgree
  <1>1. HD!Init => P!HD!Init
    BY DEF HD!Init, HD!NoTool, HD!NoCall, HD!Missing, HD!NoHeaders, P!HD!Init,
          P!HD!NoTool, P!HD!NoCall, P!HD!Missing, P!HD!NoHeaders
  <1>2. HD!Next => P!HD!Next
    BY DEF HD!Next, HD!Definitions, HD!AddTools, HD!SetTools, HD!SetSessionTools,
          HD!DeleteTools, HD!ListTools, HD!ListReturns, HD!Arguments, HD!Missing,
          HD!CallTool, HD!Sendable, HD!Plain, HD!EncodeHeaderValue, HD!Other,
          HD!ValidateBound, HD!ValidateByBody, HD!Valid, HD!BindingsOf, HD!Changed,
          HD!NoTool, HD!Definition, HD!Send, HD!NoCall, HD!OverHTTP, HD!NoHeaders,
          HD!ParamHeaders, HD!Decoded, HD!BindingsForCall, HD!Verdict, HD!NameAgrees,
          HD!ParamsAgree, HD!HeaderAgrees, P!HD!Next, P!HD!Definitions, P!HD!AddTools,
          P!HD!SetTools, P!HD!SetSessionTools, P!HD!DeleteTools, P!HD!ListTools,
          P!HD!ListReturns, P!HD!Arguments, P!HD!Missing, P!HD!CallTool, P!HD!Sendable,
          P!HD!Plain, P!HD!EncodeHeaderValue, P!HD!Other, P!HD!ValidateBound,
          P!HD!ValidateByBody, P!HD!Valid, P!HD!BindingsOf, P!HD!Changed, P!HD!NoTool,
          P!HD!Definition, P!HD!Send, P!HD!NoCall, P!HD!OverHTTP, P!HD!NoHeaders,
          P!HD!ParamHeaders, P!HD!Decoded, P!HD!BindingsForCall, P!HD!Verdict,
          P!HD!NameAgrees, P!HD!ParamsAgree, P!HD!HeaderAgrees
  <1>3. P!HD!TypeOK => HD!TypeOK
    BY DEF HD!TypeOK, HD!Definitions, HD!Valid, HD!Arguments, HD!Missing, HD!Encoded,
          HD!BindingsOf, HD!Sendable, P!HD!TypeOK, P!HD!Definitions, P!HD!Valid,
          P!HD!Arguments, P!HD!Missing, P!HD!Encoded, P!HD!BindingsOf, P!HD!Sendable
  <1>4. P!HD!HeadersAgree => HD!HeadersAgree
    BY DEF HD!HeadersAgree, HD!BindingsAreTheTools, HD!ListedCallsPass,
          HD!AcceptedAgrees, HD!NoTool, HD!BindingsOf, HD!Definition, HD!Valid,
          HD!Decoded, HD!Sendable, HD!Plain, P!HD!HeadersAgree,
          P!HD!BindingsAreTheTools, P!HD!ListedCallsPass, P!HD!AcceptedAgrees,
          P!HD!NoTool, P!HD!BindingsOf, P!HD!Definition, P!HD!Valid, P!HD!Decoded,
          P!HD!Sendable, P!HD!Plain
  <1> QED BY <1>1, <1>2, <1>3, <1>4

LEMMA ValidationSame ==
  /\ VA!Init => P!VA!Init
  /\ VA!Next => P!VA!Next
  /\ P!VA!TypeOK => VA!TypeOK
  /\ P!VA!SchemasApply => VA!SchemasApply
  <1>1. VA!Init => P!VA!Init
    BY DEF VA!Init, VA!Tools, VA!Sides, VA!NoCall, VA!AllSchemas, P!VA!Init, P!VA!Tools,
          P!VA!Sides, P!VA!NoCall, P!VA!AllSchemas
  <1>2. VA!Next => P!VA!Next
    BY DEF VA!Next, VA!AddTools, VA!SetSessionTools, VA!SetTools, VA!invalidate,
          VA!CallTool, VA!StartTask, VA!Handler, VA!Sides, VA!Look, VA!Compile,
          VA!Tools, VA!Change, VA!AllSchemas, VA!Lookup, VA!Step, VA!NoCall,
          VA!ToolsSame, VA!Found, VA!Validated, VA!Judge, VA!Compiling, P!VA!Next,
          P!VA!AddTools, P!VA!SetSessionTools, P!VA!SetTools, P!VA!invalidate,
          P!VA!CallTool, P!VA!StartTask, P!VA!Handler, P!VA!Sides, P!VA!Look,
          P!VA!Compile, P!VA!Tools, P!VA!Change, P!VA!AllSchemas, P!VA!Lookup,
          P!VA!Step, P!VA!NoCall, P!VA!ToolsSame, P!VA!Found, P!VA!Validated,
          P!VA!Judge, P!VA!Compiling
  <1>3. P!VA!TypeOK => VA!TypeOK
    BY DEF VA!TypeOK, VA!Tools, VA!Sides, VA!AllSchemas, P!VA!TypeOK, P!VA!Tools,
          P!VA!Sides, P!VA!AllSchemas
  <1>4. P!VA!SchemasApply => VA!SchemasApply
    BY DEF VA!SchemasApply, VA!HandlersGetValid, VA!AnswersConform, VA!CompiledOnce,
          VA!Sides, VA!AllSchemas, P!VA!SchemasApply, P!VA!HandlersGetValid,
          P!VA!AnswersConform, P!VA!CompiledOnce, P!VA!Sides, P!VA!AllSchemas
  <1> QED BY <1>1, <1>2, <1>3, <1>4

LEMMA SchemaCacheSame ==
  /\ SH!Init => P!SH!Init
  /\ SH!Next => P!SH!Next
  /\ P!SH!TypeOK => SH!TypeOK
  /\ P!SH!SchemasKept => SH!SchemasKept
  <1>1. SH!Init => P!SH!Init
    BY DEF SH!Init, SH!Empty, SH!NoTool, SH!NoSave, P!SH!Init, P!SH!Empty, P!SH!NoTool,
          P!SH!NoSave
  <1>2. SH!Next => P!SH!Next
    BY DEF SH!Next, SH!Look, SH!WarmFor, SH!Warm, SH!Remove, SH!Marshal, SH!CreateTemp,
          SH!Write, SH!Rename, SH!Restart, SH!Use, SH!DefinerSame, SH!SchemaForRaw,
          SH!SaverStep, SH!HalfWritten, SH!Returned, SH!Empty, SH!NoTool, SH!NoSave,
          P!SH!Next, P!SH!Look, P!SH!WarmFor, P!SH!Warm, P!SH!Remove, P!SH!Marshal,
          P!SH!CreateTemp, P!SH!Write, P!SH!Rename, P!SH!Restart, P!SH!Use,
          P!SH!DefinerSame, P!SH!SchemaForRaw, P!SH!SaverStep, P!SH!HalfWritten,
          P!SH!Returned, P!SH!Empty, P!SH!NoTool, P!SH!NoSave
  <1>3. P!SH!TypeOK => SH!TypeOK
    BY DEF SH!TypeOK, SH!Schema, P!SH!TypeOK, P!SH!Schema
  <1>4. P!SH!SchemasKept => SH!SchemasKept
    BY DEF SH!SchemasKept, SH!FileIsWhole, SH!NothingLeftBehind, SH!ToolsFit,
          P!SH!SchemasKept, P!SH!FileIsWhole, P!SH!NothingLeftBehind, P!SH!ToolsFit
  <1> QED BY <1>1, <1>2, <1>3, <1>4

LEMMA ResponseStreamSame ==
  /\ RS!Init => P!RS!Init
  /\ RS!Next => P!RS!Next
  /\ P!RS!TypeOK => RS!TypeOK
  /\ P!RS!StreamRead => RS!StreamRead
  <1>1. RS!Init => P!RS!Init
    BY DEF RS!Init, RS!NoConnection, P!RS!Init, P!RS!NoConnection
  <1>2. RS!Next => P!RS!Next
    BY DEF RS!Next, RS!Send, RS!Disconnect, RS!SessionMoves, RS!Dispatch,
          RS!EndOfStream, RS!BrokenOff, RS!resumeSSE, RS!Return, RS!Cancel, RS!TimesOut,
          RS!HandlerReturns, RS!sendResponseToServer, RS!EventKinds, RS!Cuts, RS!IsNext,
          RS!handle, RS!Ended, RS!AfterEnd, RS!NoConnection, RS!Replayed, RS!Incoming,
          P!RS!Next, P!RS!Send, P!RS!Disconnect, P!RS!SessionMoves, P!RS!Dispatch,
          P!RS!EndOfStream, P!RS!BrokenOff, P!RS!resumeSSE, P!RS!Return, P!RS!Cancel,
          P!RS!TimesOut, P!RS!HandlerReturns, P!RS!sendResponseToServer,
          P!RS!EventKinds, P!RS!Cuts, P!RS!IsNext, P!RS!handle, P!RS!Ended,
          P!RS!AfterEnd, P!RS!NoConnection, P!RS!Replayed, P!RS!Incoming
  <1>3. P!RS!TypeOK => RS!TypeOK
    BY DEF RS!TypeOK, RS!EventKinds, RS!Cuts, P!RS!TypeOK, P!RS!EventKinds, P!RS!Cuts
  <1>4. P!RS!StreamRead => RS!StreamRead
    BY DEF RS!StreamRead, RS!HandlesRun, RS!ReasonGiven, RS!Range, P!RS!StreamRead,
          P!RS!HandlesRun, P!RS!ReasonGiven, P!RS!Range
  <1> QED BY <1>1, <1>2, <1>3, <1>4

LEMMA RegistrySame ==
  /\ RG!Init => P!RG!Init
  /\ RG!Next => P!RG!Next
  /\ P!RG!TypeOK => RG!TypeOK
  /\ P!RG!ClientSeesTheRegistry => RG!ClientSeesTheRegistry
  <1>1. RG!Init => P!RG!Init
    BY DEF RG!Init, RG!Absent, RG!ClientIdle, P!RG!Init, P!RG!Absent, P!RG!ClientIdle
  <1>2. RG!Next => P!RG!Next
    BY DEF RG!Next, RG!Changing, RG!ChangingSession, RG!Announce, RG!SendLogMessage,
          RG!Receive, RG!Listing, RG!IsNext, RG!AddTools, RG!SetTools, RG!AddTaskTools,
          RG!DeleteTools, RG!AddResources, RG!SetResources, RG!DeleteResources,
          RG!AddResourceTemplates, RG!SetResourceTemplates, RG!AddPrompts,
          RG!SetPrompts, RG!DeletePrompts, RG!ReadSessionItems, RG!AddSessionItems,
          RG!DeleteSessionItems, RG!LeaveSessionItems, RG!Offer, RG!List, RG!ReadBase,
          RG!Page, RG!Listed, RG!Add, RG!Present, RG!Set, RG!Implicitly, RG!Versions,
          RG!Change, RG!Entered, RG!Delete, RG!StoreSessionItems, RG!Removed, RG!Absent,
          RG!IsQueued, RG!ClientIdle, RG!Base, RG!Merged, RG!RestOf, RG!IsPage,
          RG!IsFull, RG!DefaultOf, RG!After, RG!Name, RG!Cardinality, P!RG!Next,
          P!RG!Changing, P!RG!ChangingSession, P!RG!Announce, P!RG!SendLogMessage,
          P!RG!Receive, P!RG!Listing, P!RG!IsNext, P!RG!AddTools, P!RG!SetTools,
          P!RG!AddTaskTools, P!RG!DeleteTools, P!RG!AddResources, P!RG!SetResources,
          P!RG!DeleteResources, P!RG!AddResourceTemplates, P!RG!SetResourceTemplates,
          P!RG!AddPrompts, P!RG!SetPrompts, P!RG!DeletePrompts, P!RG!ReadSessionItems,
          P!RG!AddSessionItems, P!RG!DeleteSessionItems, P!RG!LeaveSessionItems,
          P!RG!Offer, P!RG!List, P!RG!ReadBase, P!RG!Page, P!RG!Listed, P!RG!Add,
          P!RG!Present, P!RG!Set, P!RG!Implicitly, P!RG!Versions, P!RG!Change,
          P!RG!Entered, P!RG!Delete, P!RG!StoreSessionItems, P!RG!Removed, P!RG!Absent,
          P!RG!IsQueued, P!RG!ClientIdle, P!RG!Base, P!RG!Merged, P!RG!RestOf,
          P!RG!IsPage, P!RG!IsFull, P!RG!DefaultOf, P!RG!After, P!RG!Name,
          P!RG!Cardinality
  <1>3. P!RG!TypeOK => RG!TypeOK
    BY DEF RG!TypeOK, RG!Maps, RG!Present, RG!Versions, P!RG!TypeOK, P!RG!Maps,
          P!RG!Present, P!RG!Versions
  <1>4. P!RG!ClientSeesTheRegistry => RG!ClientSeesTheRegistry
    BY DEF RG!ClientSeesTheRegistry, RG!After, RG!Quiet, RG!Merged, RG!Base, RG!Name,
          RG!IsQueued, P!RG!ClientSeesTheRegistry, P!RG!After, P!RG!Quiet, P!RG!Merged,
          P!RG!Base, P!RG!Name, P!RG!IsQueued
  <1> QED BY <1>1, <1>2, <1>3, <1>4

-----------------------------------------------------------------------------
(* A behavior of one part is a behavior of its component.                  *)

LEMMA HttpSessionsPart == PartsSpec => [](part = "sessions" => HS!TypeOK /\ HS!LeavesNothing)
  <1>1. PartsInit /\ part = "sessions" => P!HS!Init
    BY HttpSessionsSame DEF PartsInit
  <1>2. [PartsNext]_PartsVars /\ part = "sessions" => [P!HS!Next]_P!HS!vars
    BY HttpSessionsSame DEF PartsNext, PartsVars, P!HS!vars
  <1>3. [PartsNext]_PartsVars => UNCHANGED part
    BY DEF PartsNext, PartsVars
  <1>4. P!HS!Spec => [](P!HS!TypeOK /\ P!HS!LeavesNothing)
    BY Proved, PTL
  <1>5. P!HS!TypeOK /\ P!HS!LeavesNothing => HS!TypeOK /\ HS!LeavesNothing
    BY HttpSessionsSame
  <1>6. UNCHANGED part => ((part = "sessions") <=> (part = "sessions")')
    OBVIOUS
  <1> QED BY <1>1, <1>2, <1>3, <1>4, <1>5, <1>6, PTL DEF PartsSpec, P!HS!Spec

LEMMA InProcessPart == PartsSpec => [](part = "inprocess" => IP!TypeOK /\ IP!LetsGo)
  <1>1. PartsInit /\ part = "inprocess" => P!IP!Init
    BY InProcessSame DEF PartsInit
  <1>2. [PartsNext]_PartsVars /\ part = "inprocess" => [P!IP!Next]_P!IP!vars
    BY InProcessSame DEF PartsNext, PartsVars, P!IP!vars
  <1>3. [PartsNext]_PartsVars => UNCHANGED part
    BY DEF PartsNext, PartsVars
  <1>4. P!IP!Spec => [](P!IP!TypeOK /\ P!IP!LetsGo)
    BY Proved, PTL
  <1>5. P!IP!TypeOK /\ P!IP!LetsGo => IP!TypeOK /\ IP!LetsGo
    BY InProcessSame
  <1>6. UNCHANGED part => ((part = "inprocess") <=> (part = "inprocess")')
    OBVIOUS
  <1> QED BY <1>1, <1>2, <1>3, <1>4, <1>5, <1>6, PTL DEF PartsSpec, P!IP!Spec

LEMMA StdioClientPart == PartsSpec => [](part = "stdio" => SC!TypeOK /\ SC!LetsGo)
  <1>1. PartsInit /\ part = "stdio" => P!SC!Init
    BY StdioClientSame DEF PartsInit
  <1>2. [PartsNext]_PartsVars /\ part = "stdio" => [P!SC!Next]_P!SC!vars
    BY StdioClientSame DEF PartsNext, PartsVars, P!SC!vars
  <1>3. [PartsNext]_PartsVars => UNCHANGED part
    BY DEF PartsNext, PartsVars
  <1>4. P!SC!Spec => [](P!SC!TypeOK /\ P!SC!LetsGo)
    BY Proved, PTL
  <1>5. P!SC!TypeOK /\ P!SC!LetsGo => SC!TypeOK /\ SC!LetsGo
    BY StdioClientSame
  <1>6. UNCHANGED part => ((part = "stdio") <=> (part = "stdio")')
    OBVIOUS
  <1> QED BY <1>1, <1>2, <1>3, <1>4, <1>5, <1>6, PTL DEF PartsSpec, P!SC!Spec

LEMMA RoundTripsPart == PartsSpec => [](part = "roundtrips" => RT!TypeOK /\ RT!AnswersComplete)
  <1>1. PartsInit /\ part = "roundtrips" => P!RT!Init
    BY RoundTripsSame DEF PartsInit
  <1>2. [PartsNext]_PartsVars /\ part = "roundtrips" => [P!RT!Next]_P!RT!vars
    BY RoundTripsSame DEF PartsNext, PartsVars, P!RT!vars
  <1>3. [PartsNext]_PartsVars => UNCHANGED part
    BY DEF PartsNext, PartsVars
  <1>4. P!RT!Spec => [](P!RT!TypeOK /\ P!RT!AnswersComplete)
    BY Proved, PTL
  <1>5. P!RT!TypeOK /\ P!RT!AnswersComplete => RT!TypeOK /\ RT!AnswersComplete
    BY RoundTripsSame
  <1>6. UNCHANGED part => ((part = "roundtrips") <=> (part = "roundtrips")')
    OBVIOUS
  <1> QED BY <1>1, <1>2, <1>3, <1>4, <1>5, <1>6, PTL DEF PartsSpec, P!RT!Spec

LEMMA NegotiationPart == PartsSpec => [](part = "negotiation" => NG!TypeOK /\ NG!Negotiated)
  <1>1. PartsInit /\ part = "negotiation" => P!NG!Init
    BY NegotiationSame DEF PartsInit
  <1>2. [PartsNext]_PartsVars /\ part = "negotiation" => [P!NG!Next]_P!NG!vars
    BY NegotiationSame DEF PartsNext, PartsVars, P!NG!vars
  <1>3. [PartsNext]_PartsVars => UNCHANGED part
    BY DEF PartsNext, PartsVars
  <1>4. P!NG!Spec => [](P!NG!TypeOK /\ P!NG!Negotiated)
    BY Proved, PTL
  <1>5. P!NG!TypeOK /\ P!NG!Negotiated => NG!TypeOK /\ NG!Negotiated
    BY NegotiationSame
  <1>6. UNCHANGED part => ((part = "negotiation") <=> (part = "negotiation")')
    OBVIOUS
  <1> QED BY <1>1, <1>2, <1>3, <1>4, <1>5, <1>6, PTL DEF PartsSpec, P!NG!Spec

LEMMA ServerRequestsPart == PartsSpec => [](part = "asks" => SR!TypeOK /\ SR!AsksAnswered)
  <1>1. PartsInit /\ part = "asks" => P!SR!Init
    BY ServerRequestsSame DEF PartsInit
  <1>2. [PartsNext]_PartsVars /\ part = "asks" => [P!SR!Next]_P!SR!vars
    BY ServerRequestsSame DEF PartsNext, PartsVars, P!SR!vars
  <1>3. [PartsNext]_PartsVars => UNCHANGED part
    BY DEF PartsNext, PartsVars
  <1>4. P!SR!Spec => [](P!SR!TypeOK /\ P!SR!AsksAnswered)
    BY Proved, PTL
  <1>5. P!SR!TypeOK /\ P!SR!AsksAnswered => SR!TypeOK /\ SR!AsksAnswered
    BY ServerRequestsSame
  <1>6. UNCHANGED part => ((part = "asks") <=> (part = "asks")')
    OBVIOUS
  <1> QED BY <1>1, <1>2, <1>3, <1>4, <1>5, <1>6, PTL DEF PartsSpec, P!SR!Spec

LEMMA OAuthPart == PartsSpec => [](part = "oauth" => OA!TypeOK /\ OA!CredentialsStayHome)
  <1>1. PartsInit /\ part = "oauth" => P!OA!Init
    BY OAuthSame DEF PartsInit
  <1>2. [PartsNext]_PartsVars /\ part = "oauth" => [P!OA!Next]_P!OA!vars
    BY OAuthSame DEF PartsNext, PartsVars, P!OA!vars, P!OA!metaVars, P!OA!flowVars
  <1>3. [PartsNext]_PartsVars => UNCHANGED part
    BY DEF PartsNext, PartsVars
  <1>4. P!OA!Spec => [](P!OA!TypeOK /\ P!OA!CredentialsStayHome)
    BY Proved, PTL
  <1>5. P!OA!TypeOK /\ P!OA!CredentialsStayHome => OA!TypeOK /\ OA!CredentialsStayHome
    BY OAuthSame
  <1>6. UNCHANGED part => ((part = "oauth") <=> (part = "oauth")')
    OBVIOUS
  <1> QED BY <1>1, <1>2, <1>3, <1>4, <1>5, <1>6, PTL DEF PartsSpec, P!OA!Spec

LEMMA HeadersPart == PartsSpec => [](part = "headers" => HD!TypeOK /\ HD!HeadersAgree)
  <1>1. PartsInit /\ part = "headers" => P!HD!Init
    BY HeadersSame DEF PartsInit
  <1>2. [PartsNext]_PartsVars /\ part = "headers" => [P!HD!Next]_P!HD!vars
    BY HeadersSame DEF PartsNext, PartsVars, P!HD!vars
  <1>3. [PartsNext]_PartsVars => UNCHANGED part
    BY DEF PartsNext, PartsVars
  <1>4. P!HD!Spec => [](P!HD!TypeOK /\ P!HD!HeadersAgree)
    BY Proved, PTL
  <1>5. P!HD!TypeOK /\ P!HD!HeadersAgree => HD!TypeOK /\ HD!HeadersAgree
    BY HeadersSame
  <1>6. UNCHANGED part => ((part = "headers") <=> (part = "headers")')
    OBVIOUS
  <1> QED BY <1>1, <1>2, <1>3, <1>4, <1>5, <1>6, PTL DEF PartsSpec, P!HD!Spec

LEMMA ValidationPart == PartsSpec => [](part = "validation" => VA!TypeOK /\ VA!SchemasApply)
  <1>1. PartsInit /\ part = "validation" => P!VA!Init
    BY ValidationSame DEF PartsInit
  <1>2. [PartsNext]_PartsVars /\ part = "validation" => [P!VA!Next]_P!VA!vars
    BY ValidationSame DEF PartsNext, PartsVars, P!VA!vars
  <1>3. [PartsNext]_PartsVars => UNCHANGED part
    BY DEF PartsNext, PartsVars
  <1>4. P!VA!Spec => [](P!VA!TypeOK /\ P!VA!SchemasApply)
    BY Proved, PTL
  <1>5. P!VA!TypeOK /\ P!VA!SchemasApply => VA!TypeOK /\ VA!SchemasApply
    BY ValidationSame
  <1>6. UNCHANGED part => ((part = "validation") <=> (part = "validation")')
    OBVIOUS
  <1> QED BY <1>1, <1>2, <1>3, <1>4, <1>5, <1>6, PTL DEF PartsSpec, P!VA!Spec

LEMMA SchemaCachePart == PartsSpec => [](part = "schemas" => SH!TypeOK /\ SH!SchemasKept)
  <1>1. PartsInit /\ part = "schemas" => P!SH!Init
    BY SchemaCacheSame DEF PartsInit
  <1>2. [PartsNext]_PartsVars /\ part = "schemas" => [P!SH!Next]_P!SH!vars
    BY SchemaCacheSame DEF PartsNext, PartsVars, P!SH!vars
  <1>3. [PartsNext]_PartsVars => UNCHANGED part
    BY DEF PartsNext, PartsVars
  <1>4. P!SH!Spec => [](P!SH!TypeOK /\ P!SH!SchemasKept)
    BY Proved, PTL
  <1>5. P!SH!TypeOK /\ P!SH!SchemasKept => SH!TypeOK /\ SH!SchemasKept
    BY SchemaCacheSame
  <1>6. UNCHANGED part => ((part = "schemas") <=> (part = "schemas")')
    OBVIOUS
  <1> QED BY <1>1, <1>2, <1>3, <1>4, <1>5, <1>6, PTL DEF PartsSpec, P!SH!Spec

LEMMA ResponseStreamPart == PartsSpec => [](part = "responses" => RS!TypeOK /\ RS!StreamRead)
  <1>1. PartsInit /\ part = "responses" => P!RS!Init
    BY ResponseStreamSame DEF PartsInit
  <1>2. [PartsNext]_PartsVars /\ part = "responses" => [P!RS!Next]_P!RS!vars
    BY ResponseStreamSame DEF PartsNext, PartsVars, P!RS!vars
  <1>3. [PartsNext]_PartsVars => UNCHANGED part
    BY DEF PartsNext, PartsVars
  <1>4. P!RS!Spec => [](P!RS!TypeOK /\ P!RS!StreamRead)
    BY Proved, PTL
  <1>5. P!RS!TypeOK /\ P!RS!StreamRead => RS!TypeOK /\ RS!StreamRead
    BY ResponseStreamSame
  <1>6. UNCHANGED part => ((part = "responses") <=> (part = "responses")')
    OBVIOUS
  <1> QED BY <1>1, <1>2, <1>3, <1>4, <1>5, <1>6, PTL DEF PartsSpec, P!RS!Spec

LEMMA RegistryPart == PartsSpec => [](part = "registry" => RG!TypeOK /\ RG!ClientSeesTheRegistry)
  <1>1. PartsInit /\ part = "registry" => P!RG!Init
    BY RegistrySame DEF PartsInit
  <1>2. [PartsNext]_PartsVars /\ part = "registry" => [P!RG!Next]_P!RG!vars
    BY RegistrySame DEF PartsNext, PartsVars, P!RG!vars
  <1>3. [PartsNext]_PartsVars => UNCHANGED part
    BY DEF PartsNext, PartsVars
  <1>4. P!RG!Spec => [](P!RG!TypeOK /\ P!RG!ClientSeesTheRegistry)
    BY Proved, PTL
  <1>5. P!RG!TypeOK /\ P!RG!ClientSeesTheRegistry => RG!TypeOK /\ RG!ClientSeesTheRegistry
    BY RegistrySame
  <1>6. UNCHANGED part => ((part = "registry") <=> (part = "registry")')
    OBVIOUS
  <1> QED BY <1>1, <1>2, <1>3, <1>4, <1>5, <1>6, PTL DEF PartsSpec, P!RG!Spec

-----------------------------------------------------------------------------
(* The invariants of the run.                                              *)

\* However the handlers of one session interleave - initialize, GETs, POSTs and
\* clean-ups - they leave no entry behind in the maps of the server
\* (streamable_http.go, session.go).
THEOREM SessionsLeaveNothing == PartsSpec => []LeavesNothing
  <1>1. PartsSpec => [](part = "sessions" => HS!LeavesNothing)
    BY HttpSessionsPart, PTL
  <1>2. (part = "sessions" => HS!LeavesNothing) => LeavesNothing
    BY DEF LeavesNothing
  <1> QED BY <1>1, <1>2, PTL

\* However calls of Start, Close and of requests interleave, the stdio transport has
\* waited for its process once they have returned, or Close has said that it gave up
\* on one that outlived the kill (stdio.go).
THEOREM StdioTransportLetsGo == PartsSpec => []StdioLetsGo
  <1>1. PartsSpec => [](part = "stdio" => SC!LetsGo)
    BY StdioClientPart, PTL
  <1>2. (part = "stdio" => SC!LetsGo) => StdioLetsGo
    BY DEF StdioLetsGo
  <1> QED BY <1>1, <1>2, PTL

\* However calls of Start and Close interleave, the server has no session of a closed
\* in-process transport (inprocess.go).
THEOREM InProcessTransportLetsGo == PartsSpec => []InProcessLetsGo
  <1>1. PartsSpec => [](part = "inprocess" => IP!LetsGo)
    BY InProcessPart, PTL
  <1>2. (part = "inprocess" => IP!LetsGo) => InProcessLetsGo
    BY DEF InProcessLetsGo
  <1> QED BY <1>1, <1>2, PTL

\* However often a handler asks for input, it is called again with every answer and
\* its own state (client.multiRoundTrip, server.resolveMultiRoundTrip).
THEOREM RoundTripsComplete == PartsSpec => []AnswersComplete
  <1>1. PartsSpec => [](part = "roundtrips" => RT!AnswersComplete)
    BY RoundTripsPart, PTL
  <1>2. (part = "roundtrips" => RT!AnswersComplete) => AnswersComplete
    BY DEF AnswersComplete
  <1> QED BY <1>1, <1>2, PTL

\* Client and server agree on the version the client settles on, whatever versions
\* each knows (Client.Initialize, handleInitialize, handleDiscover).
THEOREM VersionsAgree == PartsSpec => []Negotiated
  <1>1. PartsSpec => [](part = "negotiation" => NG!Negotiated)
    BY NegotiationPart, PTL
  <1>2. (part = "negotiation" => NG!Negotiated) => Negotiated
    BY DEF Negotiated
  <1> QED BY <1>1, <1>2, PTL

\* A subscription carries what was asked for and allowed, misses none of it, and a
\* client has one at a time (Client.Listen, handleSubscriptionsListen,
\* broadcastToSession); the events of a stream that is resumed are handled in order,
\* with none left out (handleSSEResponse, readSSEWithCursor).
THEOREM StreamsBringAll == PartsSpec => []StreamsDeliver
  <1>1. PartsSpec => [](part = "subscriptions" => SB!Subscribed)
    BY SubscriptionsPart, PTL
  <1>2. PartsSpec => [](part = "responses" => RS!StreamRead)
    BY ResponseStreamPart, PTL
  <1>3. (part = "subscriptions" => SB!Subscribed) /\ (part = "responses" => RS!StreamRead) => StreamsDeliver
    BY DEF StreamsDeliver
  <1> QED BY <1>1, <1>2, <1>3, PTL

\* A handler that asks the client gets the answer to its own request, once, and
\* nothing it asked stays pending (RequestSampling, RequestElicitation,
\* deliverSamplingResponse).
THEOREM AsksGetAnswers == PartsSpec => []AsksAnswered
  <1>1. PartsSpec => [](part = "asks" => SR!AsksAnswered)
    BY ServerRequestsPart, PTL
  <1>2. (part = "asks" => SR!AsksAnswered) => AsksAnswered
    BY DEF AsksAnswered
  <1> QED BY <1>1, <1>2, PTL

\* Credentials, codes and tokens go to the issuer they are from, and those for a
\* single use go once (client/transport/oauth.go, oauth_binding.go).
THEOREM CredentialsAtHome == PartsSpec => []CredentialsStayHome
  <1>1. PartsSpec => [](part = "oauth" => OA!CredentialsStayHome)
    BY OAuthPart, PTL
  <1>2. (part = "oauth" => OA!CredentialsStayHome) => CredentialsStayHome
    BY DEF CredentialsStayHome
  <1> QED BY <1>1, <1>2, PTL

\* A call that passes says the same in its headers as in its body, whoever sent it,
\* and a call by a definition just listed does pass (GenerateParamHeaders,
\* ValidateParamHeadersWithBindings).
THEOREM HeadersSayTheSame == PartsSpec => []HeadersAgree
  <1>1. PartsSpec => [](part = "headers" => HD!HeadersAgree)
    BY HeadersPart, PTL
  <1>2. (part = "headers" => HD!HeadersAgree) => HeadersAgree
    BY DEF HeadersAgree
  <1> QED BY <1>1, <1>2, PTL

\* However the pages of a listing interleave with the changes, it has each item that was
\* there all along, and once, and a client that lists when it is told to ends up with
\* what there is (listByPagination, sendNotificationToSpecificClient).
THEOREM RegistryAsListed == PartsSpec => []ClientSeesTheRegistry
  <1>1. PartsSpec => [](part = "registry" => RG!ClientSeesTheRegistry)
    BY RegistryPart, PTL
  <1>2. (part = "registry" => RG!ClientSeesTheRegistry) => ClientSeesTheRegistry
    BY DEF ClientSeesTheRegistry
  <1> QED BY <1>1, <1>2, PTL

\* Hooks come in pairs, and what a call runs is what the lists show and the filters
\* let pass (HandleMessage, handleToolCall).
THEOREM ServedAsListed == PartsSpec => []Served
  <1>1. PartsSpec => [](part = "calls" => CL!Served)
    BY CallsPart, PTL
  <1>2. (part = "calls" => CL!Served) => Served
    BY DEF Served
  <1> QED BY <1>1, <1>2, PTL

\* Arguments and results fit the schema of the tool that is called, also while tools
\* are redefined (validation.go), and a tool gets the schema of its own type, out of
\* the cache or not, whatever crashes (schema_cache.go).
THEOREM SchemasFitTools == PartsSpec => []SchemasFit
  <1>1. PartsSpec => [](part = "schemas" => SH!SchemasKept)
    BY SchemaCachePart, PTL
  <1>2. PartsSpec => [](part = "validation" => VA!SchemasApply)
    BY ValidationPart, PTL
  <1>3. (part = "schemas" => SH!SchemasKept) /\ (part = "validation" => VA!SchemasApply) => SchemasFit
    BY DEF SchemasFit
  <1> QED BY <1>1, <1>2, <1>3, PTL

\* A number is read as the caller sent it, whatever its form and the proxies between,
\* and the readers agree on it (CallToolParams, GetInt, ParseInt); content that is
\* built is taken and arrives as it was built, up to the rounding of numbers in it, and
\* the decoders agree (UnmarshalContent, ParseContent).
THEOREM DataAsSent == PartsSpec => []DataArrives
  <1>1. PartsSpec => [](part = "arguments" => AR!ArgumentsRead)
    BY ArgumentsPart, PTL
  <1>2. PartsSpec => [](part = "content" => CO!ContentArrives)
    BY ContentPart, PTL
  <1>3. (part = "arguments" => AR!ArgumentsRead) /\ (part = "content" => CO!ContentArrives) => DataArrives
    BY DEF DataArrives
  <1> QED BY <1>1, <1>2, <1>3, PTL

\* The variables of each component have their types.
THEOREM PartsTyped == PartsSpec => []PartsTypeOK
  <1> DEFINE Types1 == /\ part = "sessions" => HS!TypeOK
                       /\ part = "inprocess" => IP!TypeOK
                       /\ part = "stdio" => SC!TypeOK
                       /\ part = "roundtrips" => RT!TypeOK
             Types2 == /\ part = "negotiation" => NG!TypeOK
                       /\ part = "asks" => SR!TypeOK
                       /\ part = "oauth" => OA!TypeOK
                       /\ part = "headers" => HD!TypeOK
             Types3 == /\ part = "validation" => VA!TypeOK
                       /\ part = "schemas" => SH!TypeOK
                       /\ part = "responses" => RS!TypeOK
                       /\ part = "registry" => RG!TypeOK
             Types4 == /\ part = "calls" => CL!TypeOK
                       /\ part = "subscriptions" => SB!TypeOK
                       /\ part = "arguments" => AR!TypeOK
                       /\ part = "content" => CO!TypeOK
  <1>1. PartsSpec => []Types1
    BY HttpSessionsPart, InProcessPart, StdioClientPart, RoundTripsPart, PTL
  <1>2. PartsSpec => []Types2
    BY NegotiationPart, ServerRequestsPart, OAuthPart, HeadersPart, PTL
  <1>3. PartsSpec => []Types3
    BY ValidationPart, SchemaCachePart, ResponseStreamPart, RegistryPart, PTL
  <1>4. PartsSpec => []Types4
    BY CallsPart, SubscriptionsPart, ArgumentsPart, ContentPart, PTL
  <1>5. Types1 /\ Types2 /\ Types3 /\ Types4 => PartsTypeOK
    BY DEF PartsTypeOK
  <1> HIDE DEF Types1, Types2, Types3, Types4
  <1> QED BY <1>1, <1>2, <1>3, <1>4, <1>5, PTL
=============================================================================
