------------------------------- MODULE Headers -------------------------------
(***************************************************************************)
(* What a tools/call says twice, in its body and in HTTP headers           *)
(* (mcp/headers.go, client/protocol.go, server/response.go): the name of   *)
(* the tool, and the arguments its definition binds to headers.            *)
(*                                                                         *)
(* The client takes the bindings from the definition it last listed, the   *)
(* server from those it keeps for its registered tools, and refuses a call *)
(* whose headers do not agree with its body.  The definition changes while *)
(* lists and calls are under way.  Other senders put anything in a header. *)
(***************************************************************************)
EXTENDS Integers, FiniteSets

CONSTANTS
  Params, HeaderNames,
  Listers,       \* goroutines of the client that list the tools
  None,
  MaxDefinitions \* bound: changes of the definition

VARIABLES
  toolName,      \* "word" or "padded", see below
  tools,         \* the server's definition: [kind, def], or none
  toolHeaderBindings,
  sessionTools,  \* the session's own definition, or none
  knownTools,    \* the client's definition, or none
  lister,        \* each list
  callTool,      \* the call
  current,       \* whether what the client listed last is still so
  definitions    \* bound

vars == <<toolName, tools, toolHeaderBindings, sessionTools, knownTools,
          lister, callTool, current, definitions>>

\* The header each parameter is bound to, if any.
Definitions == [Params -> HeaderNames \union {None}]
NoTool == [kind |-> "none", def |-> None]

\* ExtractParamHeaderBindings
BindingsOf(def) == {b \in Params \X HeaderNames : def[b[1]] = b[2]}

\* ValidateParamHeaderAnnotations: no header is bound twice.
Valid(def) == \A b, c \in BindingsOf(def) : b[2] = c[2] => b = c

-----------------------------------------------------------------------------
(* Values: absent or null; one a header can carry as it is; one it cannot, *)
(* such as text with space around it; the empty string; and one that is    *)
(* no string, Boolean or integer of at most 53 bits.                       *)

Sendable == {"word", "padded", "empty"}
Arguments == [Params -> Sendable \union {"absent", "unfit"}]
Missing == [p \in Params |-> "missing"]      \* params without arguments

\* Header values as sent: plain, in Base64, or in what only looks like it.
Encoded == [form : {"plain", "base64", "broken"}, value : Sendable]
Plain(v) == [form |-> "plain", value |-> v]
NoHeaders == [h \in HeaderNames |-> None]

\* Mutant: every value goes as it is.
EncodeHeaderValue_AsItIs(v) == Plain(v)

EncodeHeaderValue(v) ==
  [form |-> IF v = "padded" THEN "base64" ELSE "plain", value |-> v]

\* What HTTP makes of a value with space around it.
OverHTTP(e) == IF e = Plain("padded") THEN Plain("word") ELSE e

Decoded(e, v) == e.form # "broken" /\ e.value = v

\* GenerateParamHeaders
ParamHeaders(def, arguments) ==
  [h \in HeaderNames |->
     LET bound == {b \in BindingsOf(def) : b[2] = h /\ arguments[b[1]] \in Sendable} IN
     IF bound = {} THEN None ELSE EncodeHeaderValue(arguments[(CHOOSE b \in bound : TRUE)[1]])]

\* ValidateStandardHeaders, for the name.
NameAgrees == callTool.name # None /\ callTool.name # Plain("empty")
              /\ Decoded(callTool.name, toolName)

\* ValidateParamHeadersWithBindings
HeaderAgrees(header, argument) ==
  CASE argument = "missing" -> TRUE
    [] argument = "absent" -> header \in {None, Plain("empty")}
    [] OTHER -> header # None /\ Decoded(header, argument)
ParamsAgree(bindings) ==
  \A b \in bindings : HeaderAgrees(callTool.headers[b[2]], callTool.arguments[b[1]])

-----------------------------------------------------------------------------
NoCall == [pc |-> "idle", arguments |-> Missing, headers |-> NoHeaders, name |-> None,
           own |-> FALSE, fresh |-> FALSE, verdict |-> "none", bindings |-> {}]

Init ==
  /\ toolName \in {"word", "padded"}
  /\ tools = NoTool /\ toolHeaderBindings = None /\ sessionTools = None
  /\ knownTools = None
  /\ lister = [l \in Listers |-> [pc |-> "idle", page |-> None, current |-> FALSE]]
  /\ callTool = NoCall
  /\ current = FALSE /\ definitions = 0

-----------------------------------------------------------------------------
(* The application: one critical section each.                              *)

Changed ==
  /\ definitions < MaxDefinitions /\ definitions' = definitions + 1
  /\ current' = FALSE
  /\ lister' = [l \in Listers |-> [lister[l] EXCEPT !.current = FALSE]]
  /\ callTool' = [callTool EXCEPT !.fresh = FALSE]
  /\ UNCHANGED <<toolName, knownTools>>

\* AddTools or AddTaskTools: they panic for a definition that is not valid,
\* and for a name that the other has.
AddTools(kind, def) ==
  /\ Valid(def) /\ tools.kind \in {"none", kind}
  /\ tools' = [kind |-> kind, def |-> def]
  /\ toolHeaderBindings' = BindingsOf(def)
  /\ Changed /\ UNCHANGED sessionTools

\* SetTools leaves the task tools alone.
SetTools(def) ==
  /\ def # None => Valid(def) /\ tools.kind # "task"
  /\ IF def = None
       THEN IF tools.kind = "regular" THEN tools' = NoTool /\ toolHeaderBindings' = None
                                      ELSE UNCHANGED <<tools, toolHeaderBindings>>
       ELSE /\ tools' = [kind |-> "regular", def |-> def]
            /\ toolHeaderBindings' = BindingsOf(def)
  /\ Changed /\ UNCHANGED sessionTools

DeleteTools ==
  /\ tools.kind = "regular"
  /\ tools' = NoTool /\ toolHeaderBindings' = None
  /\ Changed /\ UNCHANGED sessionTools

\* The session's own SetSessionTools checks nothing.
SetSessionTools(def) ==
  /\ sessionTools' = def
  /\ Changed /\ UNCHANGED <<tools, toolHeaderBindings>>

\* The session's definition takes precedence.
Definition == IF sessionTools # None THEN sessionTools ELSE tools.def

\* headerBindingsForCall: what the server keeps, or the session's definition.
BindingsForCall ==
  IF sessionTools # None THEN BindingsOf(sessionTools)
  ELSE IF tools = NoTool THEN {}
  ELSE IF toolHeaderBindings = None THEN BindingsOf(tools.def)
  ELSE toolHeaderBindings

-----------------------------------------------------------------------------
(* The client.                                                              *)

\* The server answers a list.
ListTools(l) ==
  /\ lister[l].pc = "idle"
  /\ lister' = [lister EXCEPT ![l] = [pc |-> "answered", page |-> Definition, current |-> TRUE]]
  /\ UNCHANGED <<toolName, tools, toolHeaderBindings, sessionTools, knownTools,
                 callTool, current, definitions>>

\* withoutInvalidHeaderTools forgets what breaks the rules; rememberTools keeps
\* the rest.  What is on no page is not forgotten.
ListReturns(l) ==
  /\ lister[l].pc = "answered"
  /\ knownTools' = CASE lister[l].page = None -> knownTools
                     [] Valid(lister[l].page) -> lister[l].page
                     [] OTHER -> None
  /\ current' = lister[l].current
  /\ lister' = [lister EXCEPT ![l] = [pc |-> "idle", page |-> None, current |-> FALSE]]
  /\ UNCHANGED <<toolName, tools, toolHeaderBindings, sessionTools, callTool,
                 definitions>>

Send(call) ==
  /\ callTool.pc = "idle"
  /\ callTool' = call
  /\ UNCHANGED <<toolName, tools, toolHeaderBindings, sessionTools, knownTools,
                 lister, current, definitions>>

\* applyStandardHeaders.  fresh: what the client listed last is still so.
CallTool(arguments) ==
  Send([NoCall EXCEPT !.pc = "sent", !.own = TRUE, !.arguments = arguments,
     !.name = OverHTTP(EncodeHeaderValue(toolName)),
     !.headers = IF knownTools = None THEN NoHeaders
                 ELSE LET sent == ParamHeaders(knownTools, arguments) IN
                      [h \in HeaderNames |-> IF sent[h] = None THEN None ELSE OverHTTP(sent[h])],
     !.fresh = current])

\* Anyone else.
Other(arguments, name, headers) ==
  Send([NoCall EXCEPT !.pc = "sent", !.arguments = arguments, !.name = name,
                      !.headers = headers])

-----------------------------------------------------------------------------
(* The server: validateStandardHeadersForMessage.                           *)

Verdict(bindings, accepted) ==
  /\ callTool' = [callTool EXCEPT !.pc = "answered", !.bindings = bindings,
                    !.verdict = IF accepted THEN "accepted" ELSE "mismatch"]
  /\ UNCHANGED <<toolName, tools, toolHeaderBindings, sessionTools, knownTools,
                 lister, current, definitions>>

\* The tool the header names, so that a body of any size is read once.
ValidateBound ==
  LET named == callTool.name # None /\ Decoded(callTool.name, toolName)
      bindings == IF named THEN BindingsForCall ELSE {}
  IN
  /\ callTool.pc = "sent"
  /\ IF bindings = {}
       THEN /\ callTool' = [callTool EXCEPT !.pc = "unbound"]
            /\ UNCHANGED <<toolName, tools, toolHeaderBindings, sessionTools, knownTools,
                           lister, current, definitions>>
       ELSE Verdict(bindings, NameAgrees /\ ParamsAgree(bindings))

\* The tool the body names, looked up again.
ValidateByBody ==
  /\ callTool.pc = "unbound"
  /\ Verdict(BindingsForCall, NameAgrees /\ ParamsAgree(BindingsForCall))

\* Bound: one call, and nothing after its answer.
Next ==
  /\ callTool.pc # "answered"
  /\ \/ \E def \in Definitions :
          \/ \E kind \in {"regular", "task"} : AddTools(kind, def)
          \/ SetTools(def)
     \/ \E def \in Definitions \union {None} : SetSessionTools(def)
     \/ SetTools(None) \/ DeleteTools
     \/ \E l \in Listers : ListTools(l) \/ ListReturns(l)
     \/ \E arguments \in Arguments \union {Missing} : CallTool(arguments)
     \/ \E argument \in Sendable \union {"absent", "unfit", "missing"},
           name \in {None, Plain("empty"), Plain("word"), EncodeHeaderValue("padded")},
           header \in {None, Plain("empty"), Plain("word")}
                        \union [form : {"base64", "broken"}, value : {"padded"}] :
          Other([p \in Params |-> argument], name, [h \in HeaderNames |-> header])
     \/ ValidateBound \/ ValidateByBody

Spec == Init /\ [][Next]_vars
-----------------------------------------------------------------------------
TypeOK ==
  /\ tools.def \in Definitions \union {None} /\ sessionTools \in Definitions \union {None}
  /\ tools.kind = "none" <=> tools.def = None
  /\ knownTools \in {def \in Definitions : Valid(def)} \union {None}
  /\ callTool.arguments \in Arguments \union {Missing}
  /\ callTool.headers \in [HeaderNames -> Encoded \union {None}]

\* The bindings the server keeps are those of the tool it has (AddTools,
\* SetTools, DeleteTools).
BindingsAreTheTools ==
  toolHeaderBindings = IF tools = NoTool THEN None ELSE BindingsOf(tools.def)

\* A client that listed the tool, and calls it before it changes, is not told
\* that its headers are wrong, whatever lists were under way before, unless a
\* bound argument fits no header (applyStandardHeaders, headerBindingsForCall).
ListedCallsPass ==
  callTool.pc = "answered" /\ callTool.own /\ callTool.fresh =>
    \/ callTool.verdict = "accepted"
    \/ Definition # None /\ ~Valid(Definition)
    \/ \E b \in callTool.bindings : callTool.arguments[b[1]] = "unfit"

\* Whoever sent it, an accepted call has the name and the bound arguments in its
\* headers that it has in its body (ValidateParamHeadersWithBindings); a body
\* without arguments is not compared.
AcceptedAgrees ==
  callTool.verdict = "accepted" =>
    /\ callTool.name # None /\ Decoded(callTool.name, toolName)
    /\ \A b \in callTool.bindings :
         LET header == callTool.headers[b[2]] argument == callTool.arguments[b[1]] IN
         /\ argument \in Sendable => header # None /\ Decoded(header, argument)
         /\ argument = "absent" => header = None \/ header = Plain("empty")
         /\ argument # "unfit"

HeadersAgree == BindingsAreTheTools /\ ListedCallsPass /\ AcceptedAgrees
=============================================================================
