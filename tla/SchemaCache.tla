----------------------------- MODULE SchemaCache -----------------------------
(***************************************************************************)
(* The cache of JSON schemas of Go types (mcp/schema_cache.go): looked up  *)
(* and filled by goroutines that define tools, saved to a file, and loaded *)
(* by a later process, perhaps of a later build, in which the types have   *)
(* changed.  Processes crash, also in the middle of a Save.                *)
(***************************************************************************)
EXTENDS Naturals, FiniteSets

CONSTANTS
  Definers,    \* goroutines that define a tool
  Savers,      \* goroutines that save the cache
  Types,
  Keys,        \* keys given by the caller
  NoKey,       \* the empty key, or no cache: the schema is not shared
  None,
  MaxBuilds    \* bound: processes, each of the same build as the last or a new one

VARIABLES
  build,       \* of the process
  processes,   \* bound
  schemas,     \* the cache
  definer,     \* WithCachedInputSchemaKey, WarmFor
  saver,       \* Save
  file,        \* what the path names
  tempFiles,   \* temporary siblings, of each saver in this process
  marshaled,   \* history: what any Save has marshaled
  users        \* history: the types each key has been used for, by any process

vars == <<build, processes, schemas, definer, saver, file, tempFiles, marshaled, users>>

-----------------------------------------------------------------------------
\* The schema that reflection gives for a type.
SchemaForRaw(type) == [of |-> type, build |-> build]
Empty == [k \in Keys |-> None]
HalfWritten == [k \in {} |-> None]

NoTool == [pc |-> "idle", type |-> None, key |-> None, schema |-> None]
NoSave == [pc |-> "idle", data |-> None]
Returned == [pc |-> "returned", data |-> None]

Init ==
  /\ build = 1 /\ processes = 1
  /\ schemas = Empty
  /\ definer = [d \in Definers |-> NoTool]
  /\ saver = [s \in Savers |-> NoSave]
  /\ file = None /\ tempFiles = [s \in Savers |-> None] /\ marshaled = {}
  /\ users = [k \in Keys \union {NoKey} |-> {}]

-----------------------------------------------------------------------------
(* A goroutine defines a tool, or warms the cache; each critical section of *)
(* the cache is a step.                                                     *)

DefinerSame == UNCHANGED <<build, processes, saver, file, tempFiles, marshaled>>
Use(type, key) == users' = [users EXCEPT ![key] = @ \union {type}]

\* GetRaw; WarmFor does not look first.
Look(d, type, key) ==
  LET found == IF key = NoKey THEN None ELSE schemas[key] IN
  /\ definer[d].pc = "idle"
  /\ definer' = [definer EXCEPT ![d] =
       [pc |-> IF found = None THEN "missed" ELSE "defined", type |-> type, key |-> key,
        schema |-> found]]
  /\ Use(type, key) /\ DefinerSame /\ UNCHANGED schemas

WarmFor(d, type, key) ==
  /\ definer[d].pc = "idle" /\ key # NoKey
  /\ definer' = [definer EXCEPT ![d] =
       [pc |-> "missed", type |-> type, key |-> key, schema |-> None]]
  /\ Use(type, key) /\ DefinerSame /\ UNCHANGED schemas

\* WarmRaw of the fresh schema, which the tool takes too.
Warm(d) ==
  LET fresh == SchemaForRaw(definer[d].type) IN
  /\ definer[d].pc = "missed"
  /\ schemas' = IF definer[d].key = NoKey THEN schemas
                ELSE [schemas EXCEPT ![definer[d].key] = fresh]
  /\ definer' = [definer EXCEPT ![d] = [@ EXCEPT !.pc = "defined", !.schema = fresh]]
  /\ DefinerSame /\ UNCHANGED users

\* Warm or WarmRaw of nothing removes the entry.
Remove(key) ==
  /\ schemas[key] # None /\ schemas' = [schemas EXCEPT ![key] = None]
  /\ DefinerSame /\ UNCHANGED <<definer, users>>

-----------------------------------------------------------------------------
(* Save: to a temporary file first.  Any step may fail.                     *)

SaverStep(s, next) ==
  /\ saver' = [saver EXCEPT ![s] = next]
  /\ UNCHANGED <<build, processes, schemas, definer, users>>

\* MarshalJSON, then MkdirAll and CreateTemp.
Marshal(s) ==
  /\ saver[s].pc = "idle"
  /\ SaverStep(s, [pc |-> "marshaled", data |-> schemas])
  /\ marshaled' = marshaled \union {schemas}
  /\ UNCHANGED <<file, tempFiles>>

CreateTemp(s) ==
  /\ saver[s].pc = "marshaled"
  /\ \/ /\ SaverStep(s, [saver[s] EXCEPT !.pc = "created"])
        /\ tempFiles' = [tempFiles EXCEPT ![s] = HalfWritten]
     \/ SaverStep(s, Returned) /\ UNCHANGED tempFiles
  /\ UNCHANGED <<file, marshaled>>

\* Write and Close, or the cleanup after one of them has failed.
Write(s) ==
  /\ saver[s].pc = "created"
  /\ \/ /\ SaverStep(s, [saver[s] EXCEPT !.pc = "written"])
        /\ tempFiles' = [tempFiles EXCEPT ![s] = saver[s].data]
     \/ /\ SaverStep(s, Returned)
        /\ tempFiles' = [tempFiles EXCEPT ![s] = None]
  /\ UNCHANGED <<file, marshaled>>

Rename(s) ==
  /\ saver[s].pc = "written"
  /\ \/ SaverStep(s, Returned) /\ file' = tempFiles[s]
     \/ SaverStep(s, Returned) /\ UNCHANGED file
  /\ tempFiles' = [tempFiles EXCEPT ![s] = None]
  /\ UNCHANGED marshaled

-----------------------------------------------------------------------------
\* The process ends anywhere, and the next one loads the file, or starts with
\* an empty cache.
Restart ==
  /\ processes < MaxBuilds /\ processes' = processes + 1
  /\ build' \in {build, build + 1}
  /\ schemas' \in {Empty} \union ({file} \ {None, HalfWritten})
  /\ definer' = [d \in Definers |-> NoTool]
  /\ saver' = [s \in Savers |-> NoSave]
  /\ tempFiles' = [s \in Savers |-> None]
  /\ UNCHANGED <<file, marshaled, users>>

Next ==
  \/ \E d \in Definers :
       \/ \E type \in Types, key \in Keys \union {NoKey} : Look(d, type, key) \/ WarmFor(d, type, key)
       \/ Warm(d)
  \/ \E key \in Keys : Remove(key)
  \/ \E s \in Savers : Marshal(s) \/ CreateTemp(s) \/ Write(s) \/ Rename(s)
  \/ Restart

Spec == Init /\ [][Next]_vars
-----------------------------------------------------------------------------
Schema == [of : Types, build : 1..MaxBuilds]
TypeOK ==
  /\ build \in 1..MaxBuilds /\ processes \in 1..MaxBuilds
  /\ schemas \in [Keys -> Schema \union {None}]
  /\ users \in [Keys \union {NoKey} -> SUBSET Types]
  /\ \A d \in Definers : definer[d].schema \in Schema \union {None}

\* The path names a whole cache as it was at some moment, whatever fails or
\* crashes, and however many save at once ("The file is written atomically").
FileIsWhole == file = None \/ file \in marshaled

\* A Save that returns leaves no temporary file.
NothingLeftBehind ==
  \A s \in Savers : saver[s].pc \notin {"created", "written"} => tempFiles[s] = None

\* A tool gets the schema of its own type, out of the cache or not, in however
\* many processes, unless someone has used its key for another type; one with the
\* empty key, or while there is nothing to load, gets that of its build
\* (WithCachedInputSchemaKey "prevents distinct types from colliding").
ToolsFit ==
  \A d \in Definers :
    LET tool == definer[d] IN
    tool.pc = "defined" =>
      /\ tool.key = NoKey \/ users[tool.key] = {tool.type} => tool.schema.of = tool.type
      /\ tool.key = NoKey \/ marshaled = {} => tool.schema.build = build

SchemasKept == FileIsWhole /\ NothingLeftBehind /\ ToolsFit
=============================================================================
