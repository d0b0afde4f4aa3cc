------------------------------ MODULE Arguments ------------------------------
(***************************************************************************)
(* An argument of a tools/call, from its caller through any number of      *)
(* proxies to the handler that reads it (mcp/tools.go, mcp/utils.go).      *)
(*                                                                         *)
(* Numbers become float64 on the way, which has fewer bits than int, so    *)
(* the JSON text is kept beside them; the readers convert, to several      *)
(* widths, from whichever they look at.                                    *)
(***************************************************************************)
EXTENDS Integers, Sequences, FiniteSets

CONSTANTS
  IntSize,      \* bits of int, 64 in the code
  Significand,  \* bits of a float64's significand, 53 in the code
  NarrowSizes,  \* bits of the narrower integers
  None,
  MaxHops       \* bound: proxies

VARIABLES
  sent,         \* the caller's value
  arguments,    \* Params.Arguments[key]
  rawArguments, \* the text in Params.RawArguments, or None
  saturates,    \* how the processor converts a float64 out of range
  hops          \* bound

vars == <<sent, arguments, rawArguments, saturates, hops>>

-----------------------------------------------------------------------------
(* Numbers are counted in halves, so that there are fractions.              *)

Signed(bits) == -(2 ^ (bits - 1)) .. 2 ^ (bits - 1) - 1
Unsigned(bits) == 0 .. 2 ^ bits - 1
Numbers == -(2 ^ IntSize) - 4 .. 2 ^ (IntSize + 1) + 8

Abs(h) == IF h < 0 THEN -h ELSE h
Sign(h) == IF h < 0 THEN -1 ELSE 1
Whole(h) == h % 2 = 0
Trunc(h) == Sign(h) * (Abs(h) \div 2)

\* The nearest number with a short enough significand, the even one of two.
Float(h) ==
  LET steps == {2 ^ k : k \in 0..(IntSize + 2)}
      fits == {s \in steps : Abs(h) < s * 2 ^ Significand}
      step == CHOOSE s \in fits : \A t \in fits : s <= t
      q == Abs(h) \div step
      r == Abs(h) % step
      up == 2 * r + (q % 2) > step
  IN Sign(h) * step * (IF up THEN q + 1 ELSE q)

-----------------------------------------------------------------------------
(* Values, as Go has them and as JSON has them.  Text is a numeral in one of *)
(* several forms, or something else.                                        *)

Forms == {"integer", "point", "exponent", "long"}
Texts(forms) ==
  {t \in [form : forms, h : Numbers] :
     (t.form \in {"integer", "spaced"} => Whole(t.h)) /\ (t.form \in {"word", "true"} => t.h = 0)}

Val(type, x) == [type |-> type, is |-> x]
Numerals == {Val("number", t) : t \in Texts(Forms)}
Strings == {Val("string", t) : t \in Texts(Forms \union {"spaced", "word", "true"})}
Plain == {Val("bool", TRUE), Val("bool", FALSE), Val("nil", 0)}
\* What a handler may be called with in the same process.
Typed ==
  {Val("int", n) : n \in Signed(IntSize)}
    \union {Val("uint", n) : n \in Unsigned(IntSize)}
    \union {Val("float64", Float(h)) : h \in Numbers} \union {Val("NaN", 0)}
Items ==
  {Val("number", [form |-> "integer", h |-> h]) : h \in {-2, 2, 2 ^ (Significand + 1) + 2, 2 ^ IntSize}}
    \union {Val("string", [form |-> f, h |-> 2]) : f \in {"integer", "spaced", "point"}}
    \union Plain
Lists == {Val("list", <<>>)} \union {Val("list", <<i>>) : i \in Items}
           \union {Val("list", <<i, j>>) : i \in Items, j \in Items}

\* json.Unmarshal
Decode(text) ==
  CASE text.type = "number" -> Val("float64", Float(text.is.h))
    [] text.type = "list" ->
         Val("list", [i \in DOMAIN text.is |->
           IF text.is[i].type = "number" THEN Val("float64", Float(text.is[i].is.h)) ELSE text.is[i]])
    [] OTHER -> text

\* json.Marshal of a value that has not come as text.
Encode(v) ==
  CASE v.type \in {"int", "uint"} -> Val("number", [form |-> "integer", h |-> 2 * v.is])
    [] v.type = "float64" ->
         Val("number", [form |-> IF Whole(v.is) THEN "integer" ELSE "point", h |-> v.is])
    [] OTHER -> v

-----------------------------------------------------------------------------
\* In the same process, or off the wire.
Init ==
  /\ hops = 0 /\ saturates \in BOOLEAN
  /\ \/ /\ sent \in Typed \union Strings \union Plain
        /\ arguments = sent /\ rawArguments = None
     \/ /\ sent \in Numerals \union Strings \union Plain \union Lists
        /\ arguments = Decode(sent) /\ rawArguments = sent

\* Mutant: the text is not kept when the call is sent on.
MarshalJSON_Decoded == Encode(arguments)

\* CallToolParams.MarshalJSON re-emits the text.
MarshalJSON ==
  IF rawArguments # None THEN rawArguments ELSE Encode(arguments)

\* A proxy sends the call on; CallToolParams.UnmarshalJSON keeps the text.
Forward ==
  /\ hops < MaxHops /\ hops' = hops + 1
  /\ arguments.type # "NaN"
  /\ rawArguments' = MarshalJSON /\ arguments' = Decode(MarshalJSON)
  /\ UNCHANGED <<sent, saturates>>

Next == Forward
Spec == Init /\ [][Next]_vars
-----------------------------------------------------------------------------
(* The readers: <<>> for what cannot be converted.                          *)

\* int(v): out of range, the outcome depends on the processor.
Convert(h) ==
  IF Trunc(h) \in Signed(IntSize) THEN Trunc(h)
  ELSE IF saturates /\ h > 0 THEN 2 ^ (IntSize - 1) - 1 ELSE -(2 ^ (IntSize - 1))
ConvertNaN == IF saturates THEN 0 ELSE -(2 ^ (IntSize - 1))

\* strconv.Atoi and ParseInt, which Atoi is like, of text with no space.
Atoi(text, range) ==
  IF text.form = "integer" /\ text.h \div 2 \in range THEN <<text.h \div 2>> ELSE <<>>

\* rawIntArgument
RawInt(raw) ==
  IF raw = None \/ raw.type # "number" THEN <<>>
  ELSE IF raw.is.form = "long" \/ ~Whole(raw.is.h) THEN <<>>
  ELSE IF raw.is.form # "integer" /\ Abs(Float(raw.is.h)) < 2 THEN <<>>
  ELSE Atoi([form |-> "integer", h |-> raw.is.h], Signed(IntSize))

AsString(v) == IF v.type = "string" THEN <<v.is>> ELSE <<>>
AsInt(v, raw) ==
  CASE v.type = "int" -> <<v.is>>
    [] v.type = "float64" -> IF RawInt(raw) # <<>> THEN RawInt(raw) ELSE <<Convert(v.is)>>
    [] v.type = "NaN" -> <<ConvertNaN>>
    [] v.type = "string" -> Atoi(v.is, Signed(IntSize))
    [] OTHER -> <<>>
AsFloat(v) ==
  CASE v.type = "float64" -> <<v.is>>
    [] v.type = "NaN" -> <<"NaN">>
    [] v.type = "int" -> <<Float(2 * v.is)>>
    [] v.type = "string" /\ v.is.form \in Forms -> <<Float(v.is.h)>>
    [] OTHER -> <<>>
AsBool(v) ==
  CASE v.type = "bool" -> <<v.is>>
    [] v.type = "string" /\ v.is.form = "true" -> <<TRUE>>
    [] v.type = "string" /\ v.is.form = "integer" /\ v.is.h \in {0, 2} -> <<v.is.h = 2>>
    [] v.type \in {"int", "float64"} -> <<v.is # 0>>
    [] v.type = "NaN" -> <<TRUE>>
    [] OTHER -> <<>>

\* Get falls back to a default; Require fails, which is <<>> here.
Get(converted, default) == IF converted = <<>> THEN default ELSE converted[1]

RequireString == AsString(arguments)
RequireInt == AsInt(arguments, rawArguments)
RequireFloat == AsFloat(arguments)
RequireBool == AsBool(arguments)

\* Of a slice, Get takes the items that it can convert, Require all or none.
List == IF arguments.type = "list" THEN arguments.is ELSE <<>>
Converted(items) ==
  LET taken[n \in 0..Len(items)] == IF n = 0 THEN <<>> ELSE taken[n - 1] \o items[n]
  IN  taken[Len(items)]
GetSlice(items, d) == IF arguments.type = "list" THEN Converted(items) ELSE d
RequireSlice(items) ==
  IF arguments.type # "list" \/ \E i \in DOMAIN items : items[i] = <<>>
    THEN <<>> ELSE <<Converted(items)>>

StringItems == [i \in DOMAIN List |-> AsString(List[i])]
IntItems == [i \in DOMAIN List |-> AsInt(List[i], None)]
FloatItems == [i \in DOMAIN List |-> AsFloat(List[i])]
BoolItems == [i \in DOMAIN List |-> AsBool(List[i])]

\* ParseInt and its siblings look at Arguments alone, and check first.
Trimmed(text) == IF text.form = "spaced" THEN [text EXCEPT !.form = "integer"] ELSE text
checkedSignedInteger(bits) ==
  LET v == arguments IN
  CASE v.type = "string" -> Atoi(Trimmed(v.is), Signed(bits))
    [] v.type \in {"int", "uint"} -> IF v.is <= 2 ^ (bits - 1) - 1 /\ v.is >= -(2 ^ (bits - 1))
                                       THEN <<v.is>> ELSE <<>>
    [] v.type = "float64" ->
         IF Trunc(v.is) < -(2 ^ (bits - 1)) \/ Trunc(v.is) >= 2 ^ (bits - 1)
           THEN <<>> ELSE <<Convert(v.is)>>
    [] v.type = "bool" -> IF v.is THEN <<1>> ELSE <<0>>
    [] OTHER -> <<>>
checkedUnsignedInteger(bits) ==
  LET v == arguments IN
  CASE v.type = "string" -> Atoi(Trimmed(v.is), Unsigned(bits))
    [] v.type \in {"int", "uint"} -> IF v.is >= 0 /\ v.is <= 2 ^ bits - 1 THEN <<v.is>> ELSE <<>>
    [] v.type = "float64" ->
         IF v.is < 0 \/ Trunc(v.is) >= 2 ^ bits THEN <<>> ELSE <<Trunc(v.is)>>
    [] v.type = "bool" -> IF v.is THEN <<1>> ELSE <<0>>
    [] OTHER -> <<>>
ParseInt(bits, d) == Get(checkedSignedInteger(bits), d)
ParseUInt(bits, d) == Get(checkedUnsignedInteger(bits), d)

-----------------------------------------------------------------------------
TypeOK ==
  /\ hops \in 0..MaxHops
  /\ arguments.type \in {"int", "uint", "float64", "NaN", "string", "bool", "nil", "list"}
  /\ rawArguments = None \/ arguments = Decode(rawArguments)

\* The number that v is, if it is one; Float and Decode do not lose its sign.
NumberOf(v) ==
  CASE v.type = "number" -> {v.is.h}
    [] v.type \in {"int", "uint"} -> {2 * v.is}
    [] v.type = "float64" -> {v.is}
    [] OTHER -> {}

\* A caller's number that fits an int is read as it is, whatever its form and
\* however many proxies it passes, unless its numeral has more than 64
\* characters: "This avoids precision loss for integers above 2^53" (mcp/tools.go).
ExactIntegers ==
  \A h \in NumberOf(sent) :
    /\ Whole(h) /\ h \div 2 \in Signed(IntSize)
    /\ sent.type = "number" => sent.is.form # "long"
    /\ arguments.type # "uint"
    => RequireInt = <<h \div 2>>

\* ParseInt and its siblings never wrap around: what they return is the number
\* itself, truncated, or the default if that does not fit (checkedSignedInteger,
\* checkedUnsignedInteger).
ParsedFits ==
  \A bits \in NarrowSizes \union {IntSize}, h \in NumberOf(arguments) :
    /\ checkedSignedInteger(bits) =
         IF Trunc(h) \in Signed(bits) THEN <<Trunc(h)>> ELSE <<>>
    /\ checkedUnsignedInteger(bits) =
         IF h >= 0 /\ Trunc(h) \in Unsigned(bits) THEN <<Trunc(h)>> ELSE <<>>

\* Whoever reads a number that has come through, and in whichever type, reads
\* the same, up to what a float64 cannot hold (GetInt, GetFloat, ParseInt).
ReadersAgree ==
  \A h \in NumberOf(arguments) :
    /\ arguments.type # "uint" => RequireFloat = <<Float(h)>>
    /\ checkedSignedInteger(IntSize) # <<>> /\ RequireInt # <<>> =>
         LET exact == 2 * RequireInt[1] parsed == 2 * checkedSignedInteger(IntSize)[1] IN
         parsed = exact \/ parsed = Float(exact)

\* Get leaves out items of a slice only where Require fails.
Agree(items) ==
  RequireSlice(items) = IF Len(GetSlice(items, <<>>)) = Len(List)
                          THEN <<GetSlice(items, <<>>)>> ELSE <<>>
SlicesAgree ==
  arguments.type = "list" =>
    Agree(StringItems) /\ Agree(IntItems) /\ Agree(FloatItems) /\ Agree(BoolItems)

\* A call off the wire is sent on as it came (MarshalJSON, UnmarshalJSON).
SentOnAsItCame == sent.type = "number" => rawArguments = sent

ArgumentsRead == ExactIntegers /\ ParsedFits /\ ReadersAgree /\ SlicesAgree
                   /\ SentOnAsItCame

\* Not so: RequireInt returns "an error if not found or not convertible to int"
\* (mcp/tools.go), but a number out of range is converted all the same.
OutOfRangeIsAnError ==
  \A h \in NumberOf(sent) : Trunc(h) \notin Signed(IntSize) => RequireInt = <<>>

\* Nor is the item of a slice read as the argument would be.
ItemsExact ==
  sent.type = "list" => \A i \in DOMAIN sent.is : \A h \in NumberOf(sent.is[i]) :
    h \div 2 \in Signed(IntSize) => IntItems[i] = <<h \div 2>>
=============================================================================
