-------------------------- MODULE ParamCodecProofs --------------------------
(***************************************************************************)
(* Which values json_hal_add_param and json_hal_get_param carry, for every *)
(* width of int and long.                                                  *)
(***************************************************************************)
EXTENDS ParamCodec, TLAPS

NumberTypes == {"int", "unsignedInt", "long", "unsignedLong"}

Texts == { Number(n) : n \in Int } \union { Word(w) : w \in Words }

Params == [name : Words, type : TypeNames, value : Texts]

\* C's conversions leave alone what is in range.
LEMMA InRange ==
    ASSUME NEW max \in Nat, NEW n \in -max - 1 .. max
    PROVE  Saturate(n, max) = n /\ Signed(n, max) = n
  BY DEF Saturate, Signed

\* C's conversions end in range.
LEMMA IntoRange ==
    ASSUME NEW max \in Nat, NEW n \in Int
    PROVE  Saturate(n, max) \in -max - 1 .. max /\ Signed(n, max) \in -max - 1 .. max
<1>1. Saturate(n, max) \in -max - 1 .. max
  BY DEF Saturate
<1>2. Signed(n, max) \in -max - 1 .. max
  <2> DEFINE m == 2 * (max + 1)
             r == (n + max + 1) % m
  <2>1. m \in Nat \ {0} /\ n + max + 1 \in Int
    OBVIOUS
  <2>2. r \in 0 .. m - 1
    <3> HIDE DEF m
    <3> QED BY <2>1
  <2>3. CASE n \in -max - 1 .. max
    BY <2>3 DEF Signed
  <2>4. CASE n \notin -max - 1 .. max
    <3>1. Signed(n, max) = r - max - 1
      BY <2>4 DEF Signed
    <3> HIDE DEF r
    <3> QED BY <2>2, <3>1
  <2> QED BY <2>3, <2>4
<1> QED BY <1>1, <1>2

\* What atol and atoi read in the numeral of n.
LEMMA Numerals ==
    ASSUME NEW n \in Int
    PROVE  /\ atol(Number(n)) \in -LongMax - 1 .. LongMax
           /\ atoi(Number(n)) \in -IntMax - 1 .. IntMax
           /\ n \in -LongMax - 1 .. LongMax => atol(Number(n)) = n
           /\ n \in -IntMax - 1 .. IntMax => atoi(Number(n)) = n
<1>1. IntMax \in Nat /\ LongMax \in Nat /\ IntMax <= LongMax
  BY CodecAssumption
<1>2. atol(Number(n)) = Saturate(n, LongMax)
  BY DEF atol, Number
<1>3. Saturate(n, LongMax) \in -LongMax - 1 .. LongMax
  BY <1>1, IntoRange
<1>4. Saturate(n, LongMax) \in Int
  BY <1>1, <1>3
<1>5. Signed(Saturate(n, LongMax), IntMax) \in -IntMax - 1 .. IntMax
  BY <1>1, <1>4, IntoRange
<1>6. n \in -LongMax - 1 .. LongMax => Saturate(n, LongMax) = n
  BY <1>1, InRange
<1>7. n \in -IntMax - 1 .. IntMax => n \in -LongMax - 1 .. LongMax
  BY <1>1
<1>8. n \in -IntMax - 1 .. IntMax => Signed(n, IntMax) = n
  BY <1>1, InRange
<1> QED BY <1>2, <1>3, <1>5, <1>6, <1>7, <1>8 DEF atoi

\* A number of a type comes back unchanged from json_hal_get_param when it is
\* in the range that Survives states.
LEMMA NumberSurvives ==
    ASSUME NEW type \in NumberTypes, NEW n \in Int, Survives(type, Number(n))
    PROVE  Decode(type, Encode(type, Number(n))) = Number(n)
<1>1. IntMax \in Nat /\ LongMax \in Nat /\ IntMax <= LongMax
  BY CodecAssumption
<1>2. CASE type \in {"int", "unsignedInt"}
  <2>1. n \in -IntMax - 1 .. IntMax
    BY <1>1, <1>2 DEF Survives, Number, StringTypes
  <2>2. Encode(type, Number(n)) = JInt(n)
    BY <1>2, <2>1, Numerals DEF Encode, StringTypes, TypeNames
  <2>3. AsInt(JInt(n)) = n
    BY <1>1, <2>1, InRange DEF AsInt, AsInt64, JInt
  <2> QED BY <1>2, <2>2, <2>3 DEF Decode, StringTypes
<1>3. CASE type = "long"
  <2>1. n \in -LongMax - 1 .. LongMax
    BY <1>1, <1>3 DEF Survives, Number, StringTypes
  <2>2. Encode(type, Number(n)) = JInt(n)
    BY <1>3, <2>1, Numerals DEF Encode, StringTypes, TypeNames
  <2>3. Signed(AsInt64(JInt(n)), LongMax) = n
    BY <1>1, <2>1, InRange DEF AsInt64, JInt
  <2> QED BY <1>3, <2>2, <2>3 DEF Decode, StringTypes
<1>4. CASE type = "unsignedLong"
  <2>1. n \in 0 .. LongMax /\ n <= 2 * IntMax + 1
    BY <1>1, <1>4 DEF Survives, Number, StringTypes
  <2>2. n \in -LongMax - 1 .. LongMax
    BY <1>1, <2>1
  <2>3. Unsigned(n) = n
    BY <1>1, <2>1 DEF Unsigned
  <2>4. Encode(type, Number(n)) = JInt(n)
    BY <1>4, <2>2, <2>3, Numerals DEF Encode, StringTypes, TypeNames
  <2>5. Signed(AsInt64(JInt(n)), LongMax) = n
    BY <1>1, <2>2, InRange DEF AsInt64, JInt
  <2> QED BY <1>4, <2>4, <2>5 DEF Decode, StringTypes
<1> QED BY <1>2, <1>3, <1>4 DEF NumberTypes

\* json_hal_get_param returns what json_hal_add_param was given, for every
\* parameter whose value survives.
LEMMA ValueSurvives ==
    ASSUME NEW p \in Params, Survives(p.type, p.value)
    PROVE  /\ Accepted(p.type, p.value)
           /\ Encode(p.type, p.value) # Absent
           /\ Decode(p.type, Encode(p.type, p.value)) = ReadsAs(p.type, p.value)
<1>1. CASE p.type \in StringTypes
  <2>1. p.type # "boolean"
    BY <1>1 DEF StringTypes
  <2>2. Encode(p.type, p.value) = JString(p.value)
    BY <1>1, <2>1 DEF Encode, StringTypes, TypeNames
  <2>3. Decode(p.type, JString(p.value)) = p.value
    BY <1>1 DEF Decode, AsString, JString, StringTypes
  <2>4. JString(p.value) # Absent
    BY DEF JString, Absent
  <2> QED BY <2>1, <2>2, <2>3, <2>4 DEF Accepted, ReadsAs
<1>2. CASE p.type = "boolean"
  <2> DEFINE b == p.value \in {Word("true"), Word("TRUE")}
  <2>1. Accepted(p.type, p.value)
    <3>1. p.type \notin StringTypes
      BY <1>2 DEF StringTypes
    <3>2. p.value.n \notin {}
      OBVIOUS
    <3> QED BY <1>2, <3>1, <3>2 DEF Survives
  <2>2. Encode(p.type, p.value) = JBool(b)
    BY <1>2 DEF Encode, StringTypes, TypeNames
  <2>3. AsBoolean(JBool(b)) <=> b
    BY DEF AsBoolean, JBool
  <2>4. Decode(p.type, JBool(b)) = Number(IF b THEN 1 ELSE 0)
    <3> HIDE DEF b
    <3> QED BY <1>2, <2>3 DEF Decode, StringTypes
  <2>5. JBool(b) # Absent
    BY DEF JBool, Absent
  <2> QED BY <1>2, <2>1, <2>2, <2>4, <2>5 DEF ReadsAs
<1>3. CASE p.type \in NumberTypes
  <2>1. p.type \notin StringTypes /\ p.type # "boolean"
    BY <1>3 DEF StringTypes, NumberTypes
  <2>2. p.value.kind = "number"
    BY <2>1 DEF Survives
  <2>3. PICK n \in Int : p.value = Number(n)
    BY <2>2 DEF Params, Texts, Number, Word
  <2>4. Decode(p.type, Encode(p.type, p.value)) = p.value
    BY <1>3, <2>3, NumberSurvives
  <2>5. Encode(p.type, p.value) # Absent
    <3>1. \E i : Encode(p.type, p.value) = JInt(i)
      BY <1>3 DEF Encode, NumberTypes, StringTypes, TypeNames
    <3> QED BY <3>1 DEF JInt, Absent
  <2> QED BY <2>1, <2>4, <2>5 DEF Accepted, ReadsAs
<1> QED BY <1>1, <1>2, <1>3 DEF Params, TypeNames, NumberTypes

\* A type name is taken for itself.
LEMMA TypeReads ==
    ASSUME NEW type \in TypeNames
    PROVE  ReadType(type) = type
<1>1. \A t \in TypeNames : << t, type >> \notin TypePrefix
  <2> SUFFICES ASSUME NEW t \in TypeNames, << t, type >> \in TypePrefix
               PROVE  FALSE
    OBVIOUS
  <2>1. << t, type >>[2] \notin TypeNames
    BY TypePrefixAssumption
  <2> QED BY <2>1
<1> QED BY <1>1, Zenon DEF ReadType

\* json_hal_get_param returns the parameter that json_hal_add_param made an
\* element of.
LEMMA ElementReads ==
    ASSUME NEW p \in Params, Survives(p.type, p.value),
           NEW params, NEW n \in DOMAIN params, params[n] = TypedElement(p),
           NEW action \in {"SET_REQUEST_MESSAGE", "GET_RESPONSE_MESSAGE"}
    PROVE  json_hal_get_param(params, n, action) =
             OK([p EXCEPT !.value = ReadsAs(p.type, p.value)])
<1> DEFINE e == TypedElement(p)
<1>1. /\ e.name = JString(Word(p.name))
      /\ e.type = JString(Word(p.type))
      /\ e.value = Encode(p.type, p.value)
  BY DEF TypedElement, Params
<1>2. e.name # Absent /\ e.type # Absent /\ e.value # Absent
  <2>1. e.name # Absent /\ e.type # Absent
    BY <1>1 DEF JString, Absent
  <2> QED BY <1>1, <2>1, ValueSurvives
<1>3. e.name.text.w = p.name /\ e.type.text.w = p.type
  BY <1>1 DEF JString, Word
<1>4. p.type \in TypeNames /\ ReadType(e.type.text.w) = p.type
  BY <1>3, TypeReads DEF Params
<1>5. json_hal_get_param(params, n, action) =
        OK([name |-> p.name, type |-> p.type, value |-> Decode(p.type, e.value)])
  <2>1. params[n] = e
    OBVIOUS
  <2> HIDE DEF e
  <2> QED BY <1>2, <1>3, <1>4, <2>1 DEF json_hal_get_param
<1>6. [name |-> p.name, type |-> p.type, value |-> Decode(p.type, e.value)] =
        [p EXCEPT !.value = ReadsAs(p.type, p.value)]
  BY <1>1, ValueSurvives DEF Params
<1> QED BY <1>5, <1>6

\* A parameter that a client appends to a request, or a callback to its reply,
\* with json_hal_add_param is what json_hal_get_param finds at its index at
\* the other end, with the same name, type and value (a boolean as 1 or 0),
\* and the parameters before it stay as they are.
THEOREM RoundTrip ==
    ASSUME NEW S, NEW params \in Seq(S), NEW p \in Params,
           NEW action \in {"SET_REQUEST_MESSAGE", "GET_RESPONSE_MESSAGE"},
           Survives(p.type, p.value)
    PROVE  LET result == json_hal_add_param(params, action, p)
           IN  /\ result.rc = "RETURN_OK"
               /\ json_hal_get_param(result.out, Len(params) + 1, action) =
                     OK([p EXCEPT !.value = ReadsAs(p.type, p.value)])
               /\ \A i \in 1 .. Len(params) : result.out[i] = params[i]
<1> DEFINE e == TypedElement(p)
           new == Append(params, e)
           n == Len(params) + 1
<1>1. json_hal_add_param(params, action, p) = OK(new)
  BY ValueSurvives DEF json_hal_add_param
<1>2. n \in DOMAIN new /\ new[n] = e
  OBVIOUS
<1>3. \A i \in 1 .. Len(params) : new[i] = params[i]
  OBVIOUS
<1>4. json_hal_get_param(new, n, action) =
        OK([p EXCEPT !.value = ReadsAs(p.type, p.value)])
  <2> HIDE DEF new, n
  <2> QED BY <1>2, ElementReads
<1> QED BY <1>1, <1>3, <1>4 DEF OK

\* Survives leaves nothing out: a number that does not survive is read as
\* another number.  (A negative number is no value of an unsigned type.)
THEOREM OthersChange ==
    ASSUME NEW type \in NumberTypes, NEW n \in Int, ~Survives(type, Number(n)),
           type \in {"unsignedInt", "unsignedLong"} => n >= 0
    PROVE  Decode(type, Encode(type, Number(n))) # Number(n)
<1>1. IntMax \in Nat /\ LongMax \in Nat /\ IntMax <= LongMax
  BY CodecAssumption
<1>2. CASE type \in {"int", "unsignedInt"}
  <2>1. n \notin -IntMax - 1 .. IntMax
    BY <1>1, <1>2 DEF Survives, Number, StringTypes
  <2>2. Encode(type, Number(n)) = JInt(atoi(Number(n)))
    BY <1>2 DEF Encode, StringTypes, TypeNames
  <2>3. AsInt(JInt(atoi(Number(n)))) = atoi(Number(n))
    BY <1>1, Numerals, InRange DEF AsInt, AsInt64, JInt
  <2>4. Decode(type, Encode(type, Number(n))) = Number(atoi(Number(n)))
    BY <1>2, <2>2, <2>3 DEF Decode, StringTypes
  <2>5. atoi(Number(n)) # n
    BY <2>1, Numerals
  <2> QED BY <2>4, <2>5 DEF Number
<1>3. CASE type = "long"
  <2>1. n \notin -LongMax - 1 .. LongMax
    BY <1>1, <1>3 DEF Survives, Number, StringTypes
  <2>2. Encode(type, Number(n)) = JInt(atol(Number(n)))
    BY <1>3 DEF Encode, StringTypes, TypeNames
  <2>3. Signed(AsInt64(JInt(atol(Number(n)))), LongMax) = atol(Number(n))
    BY <1>1, Numerals, InRange DEF AsInt64, JInt
  <2>4. Decode(type, Encode(type, Number(n))) = Number(atol(Number(n)))
    BY <1>3, <2>2, <2>3 DEF Decode, StringTypes
  <2>5. atol(Number(n)) # n
    BY <2>1, Numerals
  <2> QED BY <2>4, <2>5 DEF Number
<1>4. CASE type = "unsignedLong"
  <2> DEFINE a == atol(Number(n))
             u == Unsigned(a)
  <2>1. n >= 0 /\ (n > LongMax \/ n > 2 * IntMax + 1)
    BY <1>1, <1>4 DEF Survives, Number, StringTypes
  <2>2. a \in -LongMax - 1 .. LongMax /\ (n <= LongMax => a = n)
    BY <1>1, <2>1, Numerals
  <2>3. u \in 0 .. 2 * IntMax + 1
    <3> DEFINE m == 2 * (IntMax + 1)
    <3>1. m \in Nat \ {0} /\ a \in Int
      BY <1>1, <2>2
    <3> HIDE DEF m, a
    <3>2. a % m \in 0 .. m - 1
      BY <3>1
    <3>4. a \in 0 .. 2 * IntMax + 1 => u = a
      BY DEF Unsigned
    <3>5. a \notin 0 .. 2 * IntMax + 1 => u = a % m
      BY DEF Unsigned, m
    <3> QED BY <1>1, <3>2, <3>4, <3>5 DEF m
  <2>4. Encode(type, Number(n)) = JInt(u)
    BY <1>4 DEF Encode, StringTypes, TypeNames
  <2>5. Decode(type, Encode(type, Number(n))) = Number(Signed(u, LongMax))
    BY <1>4, <2>4 DEF Decode, StringTypes, AsInt64, JInt
  <2>6. Signed(u, LongMax) # n
    <3> HIDE DEF u
    <3>1. Signed(u, LongMax) \in -LongMax - 1 .. LongMax
      BY <1>1, <2>3, IntoRange
    <3>2. CASE n > LongMax
      BY <1>1, <3>1, <3>2
    <3>3. CASE n <= LongMax
      <4>1. u < n /\ u \in -LongMax - 1 .. LongMax
        BY <1>1, <2>1, <2>3, <3>3
      <4> QED BY <1>1, <4>1, InRange
    <3> QED BY <1>1, <3>2, <3>3
  <2> QED BY <2>5, <2>6 DEF Number
<1> QED BY <1>2, <1>3, <1>4 DEF NumberTypes
=============================================================================
