----------------------------- MODULE Validation -----------------------------
(***************************************************************************)
(* The validation of a tool's arguments and results by its JSON schemas    *)
(* (input_validation.go, output_validation.go, handleToolCall and the two  *)
(* executions of a task in server.go).  Schemas are compiled when they are *)
(* first needed and cached, while the tool of that name is defined again,  *)
(* deleted, or replaced for one session.                                   *)
(***************************************************************************)
EXTENDS Naturals, Sequences, FiniteSets

CONSTANTS
  Callers,      \* calls of the one tool
  InSession,    \* those whose session may have its own tool of that name
  Values,       \* arguments, and structured content
  Schemas,      \* sets of values
  None,
  MaxChanges    \* bound: definitions of the tool after the first

VARIABLES
  tools,        \* the server's definition, and the session's
  cached,       \* what a validator has compiled, by the schema's digest
  invalidating, \* SetTools and DeleteTools that have changed the definition
  call,         \* handleToolCall, or the execution of a task
  compiles,     \* history: compilations since the cache was last emptied
  changes       \* bound

vars == <<tools, cached, invalidating, call, compiles, changes>>

-----------------------------------------------------------------------------
\* A schema accepts some values, does not compile, or is not declared.
AllSchemas ==
  {[is |-> "schema", of |-> s] : s \in Schemas}
    \union {[is |-> "malformed", of |-> {}], [is |-> "none", of |-> {}]}
\* One for both sides; they are validated apart.
Tools == {[input |-> s, output |-> s] : s \in AllSchemas}
Sides == {"input", "output"}
Compiling == [input |-> "compile input", output |-> "compile output"]

NoCall == [pc |-> "idle", tool |-> None, task |-> FALSE, arguments |-> None,
           content |-> None, isError |-> FALSE]

Init ==
  /\ tools \in [server : Tools, session : Tools \union {None}]
  /\ cached = [side \in Sides |-> {}]
  /\ invalidating = 0
  /\ call = [c \in Callers |-> NoCall]
  /\ compiles = [side \in Sides |-> [s \in AllSchemas |-> 0]]
  /\ changes = 0

-----------------------------------------------------------------------------
(* Definitions change.                                                      *)

Change(new) ==
  /\ changes < MaxChanges /\ changes' = changes + 1
  /\ tools' = new
  /\ UNCHANGED <<cached, call, compiles>>

\* AddTools invalidates nothing: the new schema has another digest.
AddTools == /\ \E t \in Tools : Change([tools EXCEPT !.server = t])
            /\ UNCHANGED invalidating
SetSessionTools == /\ \E t \in Tools \union {None} : Change([tools EXCEPT !.session = t])
                   /\ UNCHANGED invalidating

\* SetTools and DeleteTools invalidate once they have unlocked the tools.
SetTools == /\ \E t \in Tools \union {None} : Change([tools EXCEPT !.server = t])
            /\ invalidating' = invalidating + 1

invalidate ==
  /\ invalidating > 0 /\ invalidating' = invalidating - 1
  /\ cached' = [side \in Sides |-> {}]
  /\ compiles' = [side \in Sides |-> [s \in AllSchemas |-> 0]]
  /\ UNCHANGED <<tools, call, changes>>

-----------------------------------------------------------------------------
(* A call.                                                                  *)

Step(c, next) == call' = [call EXCEPT ![c] = next]
ToolsSame == UNCHANGED <<tools, invalidating, changes>>

\* The session's own tool first.
Lookup(c) ==
  IF c \in InSession /\ tools.session # None THEN tools.session ELSE tools.server

\* handleToolCall, to the validation or to handleTaskAugmentedToolCall.
CallTool(c) ==
  /\ call[c].pc = "idle" /\ Lookup(c) # None
  /\ \E v \in Values, task \in BOOLEAN :
       Step(c, [NoCall EXCEPT !.pc = IF task THEN "task" ELSE "input",
                              !.tool = Lookup(c), !.task = task, !.arguments = v])
  /\ ToolsSame /\ UNCHANGED <<cached, compiles>>

\* A task's tool is looked up again, and its arguments are not validated.
StartTask(c) ==
  /\ call[c].pc = "task"
  /\ Step(c, IF Lookup(c) = None THEN [call[c] EXCEPT !.pc = "error"]
             ELSE [call[c] EXCEPT !.pc = "handler", !.tool = Lookup(c)])
  /\ ToolsSame /\ UNCHANGED <<cached, compiles>>

\* The call after its arguments or its content have been validated.
Validated(c, conforms) ==
  CASE call[c].pc \in {"input", "compile input"} ->
         [call[c] EXCEPT !.pc = IF conforms THEN "handler" ELSE "refused"]
    [] OTHER ->
         [call[c] EXCEPT !.pc = "answered", !.isError = ~conforms,
                         !.content = IF conforms THEN @ ELSE None]

\* What a validator of one side makes of the call's value.
Judge(c, side, compiled) ==
  IF compiled.is # "schema" THEN TRUE
  ELSE (IF side = "input" THEN call[c].arguments ELSE call[c].content) \in compiled.of

\* Mutant: by the name of the tool alone.
Found_ByName(side, schema) == cached[side]

\* What is compiled, by the digest of the schema.
Found(side, schema) == {entry \in cached[side] : entry = schema}

\* validate, validateStructured, and lookupOrCompile under its read lock.
Look(c, side) ==
  LET schema == call[c].tool[side] found == Found(side, schema) IN
  /\ call[c].pc = side
  /\ Step(c, IF schema.is = "none" THEN Validated(c, TRUE)
             ELSE IF found # {} THEN Validated(c, Judge(c, side, CHOOSE e \in found : TRUE))
             ELSE [call[c] EXCEPT !.pc = Compiling[side]])
  /\ ToolsSame /\ UNCHANGED <<cached, compiles>>

\* lookupOrCompile under its write lock; an error is cached too.
Compile(c, side) ==
  LET schema == call[c].tool[side] found == Found(side, schema) IN
  /\ call[c].pc = Compiling[side]
  /\ IF found # {} THEN UNCHANGED <<cached, compiles>>
     ELSE /\ cached' = [cached EXCEPT ![side] = @ \union {schema}]
          /\ compiles' = [compiles EXCEPT ![side][schema] = @ + 1]
  /\ Step(c, Validated(c, Judge(c, side, IF found # {} THEN CHOOSE e \in found : TRUE
                                         ELSE schema)))
  /\ ToolsSame

\* The handler returns structured content or none, or an error.
Handler(c) ==
  /\ call[c].pc = "handler"
  /\ \E v \in Values \union {None}, e \in BOOLEAN :
       Step(c, [call[c] EXCEPT !.pc = IF e \/ v = None THEN "answered" ELSE "output",
                               !.content = v, !.isError = e])
  /\ ToolsSame /\ UNCHANGED <<cached, compiles>>

Next ==
  \/ AddTools \/ SetSessionTools \/ SetTools \/ invalidate
  \/ \E c \in Callers :
       \/ CallTool(c) \/ StartTask(c) \/ Handler(c)
       \/ \E side \in Sides : Look(c, side) \/ Compile(c, side)

Spec == Init /\ [][Next]_vars
-----------------------------------------------------------------------------
TypeOK ==
  /\ tools \in [server : Tools \union {None}, session : Tools \union {None}]
  /\ cached \in [Sides -> SUBSET AllSchemas]
  /\ \A c \in Callers : call[c].tool \in Tools \union {None}

\* A handler gets the arguments of a synchronous call only if the schema of the
\* very definition whose handler it is accepts them, however often the tool is
\* defined meanwhile; one that does not compile blocks nothing
\* (WithInputSchemaValidation).
HandlersGetValid ==
  \A c \in Callers : call[c].pc # "idle" /\ ~call[c].task =>
    LET s == call[c].tool.input rejects == s.is = "schema" /\ call[c].arguments \notin s.of IN
    /\ call[c].pc \in {"handler", "output", "compile output", "answered"} => ~rejects
    /\ call[c].pc = "refused" => rejects

\* The client never sees content that violates the definition it comes from, of
\* a call or of a task (WithOutputSchemaValidation).
AnswersConform ==
  \A c \in Callers : call[c].pc = "answered" /\ ~call[c].isError /\ call[c].content # None =>
    LET s == call[c].tool.output IN s.is = "schema" => call[c].content \in s.of

\* A schema is compiled once until the cache is emptied (lookupOrCompile).
CompiledOnce ==
  \A side \in Sides, s \in AllSchemas :
    compiles[side][s] = IF s \in cached[side] THEN 1 ELSE 0

SchemasApply == HandlersGetValid /\ AnswersConform /\ CompiledOnce
=============================================================================
