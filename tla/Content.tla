------------------------------- MODULE Content -------------------------------
(***************************************************************************)
(* A result or a sampling message on its way through proxies built with    *)
(* this library: each decodes it into Go values and encodes those again    *)
(* (mcp/utils.go, mcp/types.go, mcp/tools.go).                             *)
(*                                                                         *)
(* Two decoders read blocks of content: UnmarshalContent, by the fields'   *)
(* Go types, for the results of tools and tasks, and ParseContent, by hand *)
(* from a generic map, for prompts, resources and sampling.                *)
(***************************************************************************)
EXTENDS Naturals, Sequences

CONSTANTS
  None,     \* an absent list or object
  Null,     \* a list that is null
  MaxProxies    \* bound

VARIABLES
  first,     \* as it was sent
  message,   \* as it is now, on the wire
  refused,   \* by a decoder
  hop        \* bound

vars == <<first, message, refused, hop>>

-----------------------------------------------------------------------------
(* Blocks on the wire.  The values of a field are those that the decoders   *)
(* tell apart; "none" is an absent field.                                   *)

BlockTypes == {"text", "image", "audio", "resource_link", "resource", "tool_use", "tool_result"}

\* The strings of a block that may not be empty for ParseContent.
Required(type) ==
  CASE type \in {"image", "audio"} -> {"data", "mimeType"}
    [] type = "resource_link" -> {"uri", "name"}
    [] type = "resource" -> {"uri"}
    [] type = "tool_use" -> {"id", "name"}
    [] type = "tool_result" -> {"toolUseId"}
    [] OTHER -> {}

\* JSON values of any form; a "big" number is not a float64.
Payloads == {"none", "null", "small", "big"}
Annotations ==
  {None} \union
    [audience : {{}, {"user"}, {"user", "system"}}, priority : {"none", "number", "numeral"}]
Plain(type) ==
  [type |-> type, blank |-> {}, annotations |-> None, meta |-> "none", size |-> "none",
   variant |-> "text", resourceMeta |-> "none", payload |-> "small", items |-> Null]

Varied(block) ==
  {[block EXCEPT !.annotations = a] : a \in Annotations}
    \union {[block EXCEPT !.meta = m] : m \in {"object", "string"}}
    \union {[block EXCEPT !.blank = e] : e \in SUBSET Required(block.type)}
    \union CASE block.type = "resource_link" ->
                  {[block EXCEPT !.size = n] : n \in {"number", "negative", "numeral"}}
             [] block.type = "resource" ->
                  {[block EXCEPT !.variant = v, !.resourceMeta = m] :
                     v \in {"text", "blob", "both", "neither", "blob, text a number"},
                     m \in {"none", "null", "object", "string"}}
             [] block.type \in {"tool_use", "tool_result"} ->
                  {[block EXCEPT !.payload = p] : p \in Payloads}
             [] OTHER -> {}
Leaves == UNION {Varied(Plain(type)) : type \in BlockTypes \ {"tool_result"}}
Holding(items, payload) == [Plain("tool_result") EXCEPT !.items = items, !.payload = payload]
Blocks ==
  Leaves \union Varied(Plain("tool_result"))
    \union {Holding(i, p) :
              i \in {None, Null, <<>>} \union {<<leaf>> : leaf \in Leaves}, p \in Payloads}

-----------------------------------------------------------------------------
(* Decoders, each followed by the encoder: <<>> if refused, otherwise the   *)
(* block as it is sent on.                                                  *)

\* A value decoded into an any: a float64 if it is a number, nil if it is null.
AsAny(payload) ==
  CASE payload = "big" -> "rounded" [] payload = "null" -> "none" [] OTHER -> payload

\* UnmarshalJSON of a tool's, a task's and a nested tool's result keeps the bytes.
RawStructuredContent(payload) == payload

\* MarshalJSON writes the bytes if it has them.
MarshalStructured(structured, raw) ==
  IF raw # "none" /\ (structured = "none" \/ raw # "null") THEN raw ELSE structured

\* A nil slice, or input, is encoded as null, having no omitempty.
NullIfNil(x) == IF x = "none" THEN "null" ELSE x

\* All of a list, or nothing.
All(results) ==
  IF \E i \in DOMAIN results : results[i] = <<>> THEN <<>>
  ELSE <<[i \in DOMAIN results |-> results[i][1]]>>
IsList(x) == x \notin {None, Null}

\* EmbeddedResource.UnmarshalJSON: text first.
UnmarshalResource(block) ==
  IF \/ block.variant \in {"neither", "blob, text a number"} \/ block.resourceMeta = "string"
     \/ "uri" \in block.blank
    THEN <<>>
    ELSE <<[block EXCEPT !.variant = IF @ = "both" THEN "text" ELSE @,
                         !.resourceMeta = IF @ = "null" THEN "none" ELSE @]>>

UnmarshalLeaf(block) ==
  IF \/ block.annotations # None /\ block.annotations.priority = "numeral"
     \/ block.meta = "string"
     \/ block.type = "resource_link" /\ block.size = "numeral"
    THEN <<>>
  ELSE CASE block.type = "resource" -> UnmarshalResource(block)
         [] block.type = "tool_use" -> <<[block EXCEPT !.payload = NullIfNil(AsAny(@))]>>
         [] OTHER -> <<block>>

\* UnmarshalContent, with ToolResultContent.UnmarshalJSON.
UnmarshalContent(block) ==
  LET leaf == UnmarshalLeaf(block)
      items == IF IsList(block.items)
                 THEN All([i \in DOMAIN block.items |-> UnmarshalLeaf(block.items[i])])
                 ELSE <<Null>>
  IN IF block.type # "tool_result" THEN leaf
     ELSE IF leaf = <<>> \/ items = <<>> THEN <<>>
     ELSE <<[leaf[1] EXCEPT !.items = items[1],
               !.payload = MarshalStructured(AsAny(@), RawStructuredContent(@))]>>

\* ParseResourceContents: the variant is that of a field that is a string.
ParseResourceContents(block) ==
  IF \/ "uri" \in block.blank \/ block.resourceMeta \in {"null", "string"}
     \/ block.variant = "neither"
    THEN <<>>
    ELSE <<[block EXCEPT !.variant =
              CASE @ = "both" -> "text" [] @ = "blob, text a number" -> "blob" [] OTHER -> @]>>

\* ParseAnnotations: roles alone, and numbers also as strings.
ParseAnnotations(a) ==
  IF a = None THEN a
  ELSE [audience |-> a.audience \intersect {"user", "assistant"},
        priority |-> IF a.priority = "numeral" THEN "number" ELSE a.priority]

ParseLeaf(block) ==
  LET parsed == [block EXCEPT !.annotations = ParseAnnotations(@),
                              !.meta = IF @ = "string" THEN "none" ELSE @] IN
  IF block.blank # {} THEN <<>>
  ELSE CASE block.type = "resource" -> ParseResourceContents(parsed)
         [] block.type = "resource_link" -> <<[parsed EXCEPT !.size =
              CASE @ = "negative" -> "none" [] @ = "numeral" -> "number" [] OTHER -> @]>>
         [] block.type = "tool_use" -> <<[parsed EXCEPT !.payload = NullIfNil(AsAny(@))]>>
         [] OTHER -> <<parsed>>

\* ParseContent: an empty list of a tool's results is a nil slice.
ParseContent(block) ==
  LET leaf == ParseLeaf(block)
      items == IF IsList(block.items)
                 THEN All([i \in DOMAIN block.items |-> ParseLeaf(block.items[i])])
                 ELSE <<Null>>
  IN IF block.type # "tool_result" THEN leaf
     ELSE IF leaf = <<>> \/ items = <<>> THEN <<>>
     ELSE <<[leaf[1] EXCEPT !.items = IF items[1] = <<>> THEN Null ELSE items[1],
                            !.payload = AsAny(@)]>>

-----------------------------------------------------------------------------
(* Messages, and the decoder of each kind.                                  *)

\* The list with each block decoded, or with no block what `none' says.
Decoded(Decode(_), blocks, none) ==
  IF IsList(blocks) THEN All([i \in DOMAIN blocks |-> Decode(blocks[i])]) ELSE <<none>>
With(m, blocks) == IF blocks = <<>> THEN <<>> ELSE <<[m EXCEPT !.blocks = blocks[1]]>>
Structured(m) ==
  IF m = <<>> THEN <<>>
  ELSE <<[m[1] EXCEPT !.payload = MarshalStructured(AsAny(@), RawStructuredContent(@))]>>

\* ParseGetPromptResult
ParseGetPromptResult(m) ==
  IF m.role = "system" /\ IsList(m.blocks) /\ m.blocks # <<>> THEN <<>>
  ELSE With(m, Decoded(ParseContent, m.blocks, Null))

\* ParseCallToolResult and CallToolResult.UnmarshalJSON; MarshalJSON always
\* writes a list.
ParseCallToolResult(m) ==
  IF m.blocks = None /\ m.payload \in {"none", "null"} /\ ~m.needsInput THEN <<>>
  ELSE Structured(With(m, Decoded(UnmarshalContent, m.blocks, <<>>)))

\* ParseTaskResultResult; an empty list is omitted.
ParseTaskResultResult(m) ==
  Structured(With(m, IF m.blocks = <<>> THEN <<None>>
                     ELSE Decoded(UnmarshalContent, m.blocks, None)))

\* ParseReadResourceResult
ParseReadResourceResult(m) ==
  IF ~IsList(m.blocks) /\ ~m.needsInput THEN <<>>
  ELSE With(m, Decoded(ParseResourceContents, m.blocks, Null))

\* ParseSamplingContent of one block, or of a list.
ParseSamplingContent(m) == With(m, Decoded(ParseContent, m.blocks, Null))

Parse(m) ==
  CASE m.kind = "prompt" -> ParseGetPromptResult(m)
    [] m.kind = "tool" -> ParseCallToolResult(m)
    [] m.kind = "task" -> ParseTaskResultResult(m)
    [] m.kind = "resource" -> ParseReadResourceResult(m)
    [] m.kind = "sampling" -> ParseSamplingContent(m)

BlocksOf(kind) ==
  CASE kind = "resource" -> {b \in Blocks : b.type = "resource" /\ b.annotations = None /\ b.meta = "none"}
    [] kind = "task" -> Leaves
    [] OTHER -> Blocks
Message(kind, role, needsInput, payload, blocks) ==
  [kind |-> kind, role |-> role, needsInput |-> needsInput, payload |-> payload, blocks |-> blocks]
Lists(blocks) == {<<b>> : b \in blocks} \union {<<Plain("resource"), b>> : b \in blocks}
Messages ==
  {Message(k, "user", n, p, bs) :
     k \in {"tool", "task"}, n \in BOOLEAN, p \in Payloads, bs \in {None, Null, <<>>, <<Plain("text")>>}}
    \union {Message(k, r, n, "none", bs) :
     k \in {"prompt", "resource", "sampling"}, r \in {"user", "system"}, n \in BOOLEAN,
     bs \in {None, Null, <<>>, <<Plain("resource")>>}}
    \union UNION {{Message(k, "user", FALSE, "none", bs) : bs \in Lists(BlocksOf(k))} :
     k \in {"prompt", "tool", "task", "resource", "sampling"}}

-----------------------------------------------------------------------------
Init == first \in Messages /\ message = first /\ refused = FALSE /\ hop = 0

Forward ==
  /\ hop < MaxProxies /\ ~refused /\ hop' = hop + 1
  /\ refused' = (Parse(message) = <<>>)
  /\ message' = IF refused' THEN message ELSE Parse(message)[1]
  /\ UNCHANGED first

Next == Forward
Spec == Init /\ [][Next]_vars
-----------------------------------------------------------------------------
TypeOK ==
  /\ refused \in BOOLEAN /\ hop \in 0..MaxProxies
  /\ message.payload \in Payloads \union {"rounded"}
  /\ IsList(message.blocks) => \A i \in DOMAIN message.blocks : message.blocks[i].type \in BlockTypes

\* What a constructor of the library gives, with the strings that the protocol
\* requires (NewTextContent, NewToolResultStructured and the others).
BuiltLeaf(b) ==
  /\ b.blank = {} /\ b.meta # "string" /\ b.size \in {"none", "number"}
  /\ b.annotations # None => b.annotations.audience \subseteq {"user"} /\ b.annotations.priority # "numeral"
  /\ b.variant \in {"text", "blob"} /\ b.resourceMeta \in {"none", "object"}
  /\ IF b.type = "tool_use" THEN b.payload # "none" ELSE b.payload # "null"
BuiltBlock(b) ==
  /\ BuiltLeaf(b) /\ b.items # None
  /\ IsList(b.items) => \A i \in DOMAIN b.items : BuiltLeaf(b.items[i])
Built(m) ==
  /\ m.role # "system" /\ m.payload # "null"
  /\ IsList(m.blocks) => \A i \in DOMAIN m.blocks : BuiltBlock(m.blocks[i])
  /\ CASE m.kind = "tool" -> IsList(m.blocks)
       [] m.kind = "task" -> m.blocks \notin {Null, <<>>}
       [] m.kind = "resource" -> m.blocks # None /\ (IsList(m.blocks) \/ m.needsInput)
       [] OTHER -> m.blocks # None

\* The same but for numbers that have been decoded into an any, and for a list
\* of a tool's results that is empty or null.
Rounded(p) == IF p = "big" THEN "rounded" ELSE p
SameLeaf(a, b) ==
  b = [a EXCEPT !.payload = IF b.payload = a.payload THEN @ ELSE Rounded(@), !.items = b.items]
SameBlock(a, b) ==
  /\ SameLeaf(a, b)
  /\ IF IsList(a.items) /\ a.items # <<>>
       THEN IsList(b.items) /\ Len(b.items) = Len(a.items)
              /\ \A i \in DOMAIN a.items : SameLeaf(a.items[i], b.items[i])
       ELSE b.items \in {Null, <<>>}
Exact(b) == b.type = "tool_use" \/ b.payload # "rounded"

\* What the library builds arrives, through any number of proxies, as it was
\* sent; the structured content of a tool's or a task's result to the last digit
\* ("RawStructuredContent preserves the original JSON bytes", mcp/tools.go).
BuiltArrives ==
  Built(first) =>
    /\ ~refused /\ message.payload = first.payload
    /\ IF IsList(first.blocks)
         THEN /\ Len(message.blocks) = Len(first.blocks)
              /\ \A i \in DOMAIN first.blocks :
                   /\ SameBlock(first.blocks[i], message.blocks[i])
                   /\ message.kind \in {"tool", "task"} => Exact(message.blocks[i])
         ELSE message.blocks = first.blocks

\* What one hop lets pass, whoever built it, later hops let pass unchanged.
Stable == hop > 0 /\ ~refused => Parse(message) = <<message>>

\* A block that both decoders take is the same to both, where a Go value of the
\* library can hold it (UnmarshalContent, ParseContent).
DecodersAgree ==
  IsList(message.blocks) => \A i \in DOMAIN message.blocks :
    LET b == message.blocks[i] typed == UnmarshalContent(b) parsed == ParseContent(b) IN
    typed # <<>> /\ parsed # <<>> /\ BuiltBlock(b)
      => SameBlock(typed[1], parsed[1])

ContentArrives == BuiltArrives /\ Stable /\ DecodersAgree
=============================================================================
