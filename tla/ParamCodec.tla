----------------------------- MODULE ParamCodec -----------------------------
(***************************************************************************)
(* json_hal_add_param and json_hal_get_param: how a hal_param_t becomes an *)
(* element of a message's params array and how it is read back.            *)
(*                                                                         *)
(* The text of a value is the numeral of a number or a word.  C's int has  *)
(* the values -IntMax - 1 .. IntMax and long -LongMax - 1 .. LongMax.      *)
(***************************************************************************)
EXTENDS Integers, Sequences

CONSTANTS IntMax,   \* INT_MAX
          LongMax,  \* LONG_MAX: equal to INT_MAX on 32-bit targets
          Words,    \* texts that are not numerals
          TypePrefix  \* pairs << t, w >>: the type name t begins the longer text w

ASSUME CodecAssumption ==
    /\ IntMax \in Nat /\ LongMax \in Nat /\ IntMax <= LongMax
    /\ {"true", "TRUE", "false", "FALSE", ""} \subseteq Words

Number(n) == [kind |-> "number", n |-> n]
Word(w)   == [kind |-> "word", w |-> w]

\* JSON values: texts as strings, booleans and integers; a field may be absent.
JString(text) == [kind |-> "string", text |-> text]
JBool(b)      == [kind |-> "bool", b |-> b]
JInt(n)       == [kind |-> "int", n |-> n]
Absent        == [kind |-> "absent"]

StringTypes == {"string", "hexBinary", "base64"}
TypeNames   == StringTypes \union
                 {"boolean", "int", "unsignedInt", "long", "unsignedLong"}

\* No type name begins another, so a text begins with at most one.
ASSUME TypePrefixAssumption ==
    /\ \A p \in TypePrefix : p[1] \in TypeNames /\ p[2] \notin TypeNames
    /\ \A p, q \in TypePrefix : p[2] = q[2] => p[1] = q[1]

\* memset of hal_param_t: type 0 is none of eParamType.
NoType  == "none"
NoParam == [name |-> "", type |-> NoType, value |-> Word("")]

OK(x) == [rc |-> "RETURN_OK", out |-> x]
ERR   == [rc |-> "RETURN_ERR", out |-> NoParam]

-----------------------------------------------------------------------------
(* C's conversions. *)

Saturate(n, max) == IF n > max THEN max ELSE IF n < -max - 1 THEN -max - 1 ELSE n

\* Conversion to a signed type: the low bits.
Signed(n, max) ==
    IF n \in -max - 1 .. max THEN n
    ELSE ((n + max + 1) % (2 * (max + 1))) - max - 1

\* Conversion to unsigned int.
Unsigned(n) ==
    IF n \in 0 .. 2 * IntMax + 1 THEN n ELSE n % (2 * (IntMax + 1))

atol(text) == IF text.kind = "number" THEN Saturate(text.n, LongMax) ELSE 0
atoi(text) == Signed(atol(text), IntMax)

\* json_object_get_int, _get_int64, _get_boolean and _get_string.
AsInt64(json) ==
    CASE json.kind = "int"    -> json.n
      [] json.kind = "bool"   -> IF json.b THEN 1 ELSE 0
      [] json.kind = "string" -> IF json.text.kind = "number" THEN json.text.n ELSE 0

AsInt(json) == Saturate(AsInt64(json), IntMax)

AsBoolean(json) ==
    CASE json.kind = "int"    -> json.n # 0
      [] json.kind = "bool"   -> json.b
      [] json.kind = "string" -> json.text # Word("")

AsString(json) ==
    CASE json.kind = "int"    -> Number(json.n)
      [] json.kind = "bool"   -> Word(IF json.b THEN "true" ELSE "false")
      [] json.kind = "string" -> json.text

-----------------------------------------------------------------------------
(* json_hal_add_param. *)

\* A boolean is one of four words; every other text is accepted.
Accepted(type, text) ==
    type = "boolean" => text \in {Word("true"), Word("TRUE"), Word("false"), Word("FALSE")}

\* Mutant of Encode: a long goes through an int.
EncodeLongAsInt(type, text) ==
    CASE type \in StringTypes -> JString(text)
      [] type = "boolean" -> JBool(text \in {Word("true"), Word("TRUE")})
      [] type \in {"int", "unsignedInt", "long", "unsignedLong"} -> JInt(atoi(text))
      [] type \notin TypeNames -> Absent

\* The value of a parameter of a set request or a get response.  An unsigned
\* long passes through an unsigned int.
Encode(type, text) ==
    CASE type \in StringTypes -> JString(text)
      [] type = "boolean" -> JBool(text \in {Word("true"), Word("TRUE")})
      [] type \in {"int", "unsignedInt"} -> JInt(atoi(text))
      [] type = "long" -> JInt(atol(text))
      [] type = "unsignedLong" -> JInt(Unsigned(atol(text)))
      [] type \notin TypeNames -> Absent

\* The element with all its fields, and the one of get and delete requests;
\* an unknown type leaves out type and value.
TypedElement(param) ==
    [name |-> JString(Word(param.name)),
     type |-> IF param.type \in TypeNames THEN JString(Word(param.type)) ELSE Absent,
     value |-> Encode(param.type, param.value)]

NameElement(param) ==
    [name |-> JString(Word(param.name)), type |-> Absent, value |-> Absent]

\* json_hal_add_param on a message with the params array params.  (For events
\* it expects params to be an object, which no message of the libraries has.)
json_hal_add_param(params, action, param) ==
    CASE action \in {"SET_REQUEST_MESSAGE", "GET_RESPONSE_MESSAGE"} ->
           IF Accepted(param.type, param.value)
           THEN OK(Append(params, TypedElement(param))) ELSE ERR
      [] action \in {"GET_REQUEST_MESSAGE", "DELETE_REQUEST_MESSAGE"} ->
           OK(Append(params, NameElement(param)))

-----------------------------------------------------------------------------
(* json_hal_get_param. *)

\* The text json_hal_get_param prints for a value that is there.
Decode(type, json) ==
    CASE type \in StringTypes -> AsString(json)
      [] type = "boolean" -> Number(IF AsBoolean(json) THEN 1 ELSE 0)
      [] type \in {"int", "unsignedInt"} -> Number(AsInt(json))
      [] type \in {"long", "unsignedLong"} -> Number(Signed(AsInt64(json), LongMax))

\* The type a text is taken for: strncmp over the length of each type name, so
\* that a longer text that begins with a name is that type.
ReadType(text) ==
    LET begins(t) == t = text \/ << t, text >> \in TypePrefix
    IN  IF \E t \in TypeNames : begins(t)
        THEN CHOOSE t \in TypeNames : begins(t) ELSE NoType

\* json_hal_get_param on element index of the params array params.  A string
\* must have a value, the other types may lack it, an unknown type is no
\* error; of an event nothing is read.
json_hal_get_param(params, index, action) ==
    IF action = "PUBLISHEVENT_RESPONSE_MESSAGE" THEN OK(NoParam)
    ELSE IF index \notin DOMAIN params \/ params[index].name = Absent THEN ERR
    ELSE LET e == params[index]
             name == e.name.text.w
         IN  CASE action \in {"GET_REQUEST_MESSAGE", "DELETE_REQUEST_MESSAGE"} ->
                    OK([NoParam EXCEPT !.name = name])
               [] action \in {"SET_REQUEST_MESSAGE", "GET_RESPONSE_MESSAGE"} ->
                    IF e.type = Absent THEN ERR
                    ELSE LET type == ReadType(e.type.text.w)
                         IN  IF type \notin TypeNames
                             THEN OK([NoParam EXCEPT !.name = name])
                             ELSE IF e.value # Absent
                             THEN OK([name |-> name, type |-> type,
                                      value |-> Decode(type, e.value)])
                             ELSE IF type \in StringTypes THEN ERR
                             ELSE OK([name |-> name, type |-> type,
                                      value |-> Word("")])

-----------------------------------------------------------------------------
(* What the pair of them promises. *)

\* The values that survive: every string, the accepted booleans, and the
\* numbers in the range the code really carries.
Survives(type, text) ==
    \/ type \in StringTypes
    \/ type = "boolean" /\ Accepted(type, text)
    \/ /\ text.kind = "number"
       /\ text.n \in CASE type = "int"          -> -IntMax - 1 .. IntMax
                       [] type = "unsignedInt"  -> 0 .. IntMax
                       [] type = "long"         -> -LongMax - 1 .. LongMax
                       [] type = "unsignedLong" ->
                            { n \in 0 .. LongMax : n <= 2 * IntMax + 1 }
                       [] type \notin {"int", "unsignedInt", "long", "unsignedLong"} -> {}

\* How a value that survives reads at the other end: booleans as 1 and 0.
ReadsAs(type, text) ==
    IF type = "boolean"
    THEN Number(IF text \in {Word("true"), Word("TRUE")} THEN 1 ELSE 0)
    ELSE text
=============================================================================
