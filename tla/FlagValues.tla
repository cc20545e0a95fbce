------------------------------ MODULE FlagValues ------------------------------
(***************************************************************************)
(* The values of flags (flag.go): how a flag carries one, how a default of *)
(* any Go type becomes a flag, and what the typed accessors make of it.    *)
(* A Go value is a pair of its kind and what it holds.                     *)
(***************************************************************************)
CONSTANTS Text, Number, Integer, Document,  \* what string, float64, the integers
                                            \* and maps, slices and arrays hold
          Format,        \* [Number -> Text]: strconv.FormatFloat
          Parse,         \* strconv.ParseFloat, on the texts it accepts
          Float,         \* [Integer -> Number]: float64(v), which may round
          EmptyText, Zero, One, EmptyDocument

ASSUME ValuesAssumption ==
  /\ Format \in [Number -> Text] /\ Float \in [Integer -> Number]
  /\ DOMAIN Parse \subseteq Text /\ \A t \in DOMAIN Parse : Parse[t] \in Number
  /\ {"true", "false", EmptyText} \subseteq Text
  /\ {Zero, One} \subseteq Number /\ EmptyDocument \in Document

Bool(b)  == <<"bool", b>>
Str(t)   == <<"string", t>>
Num(n)   == <<"float64", n>>
Whole(n) == <<"int", n>>                   \* int, int64 and float32
Doc(d)   == <<"structured", d>>            \* reflect.Map, Slice, Array
Other(o) == <<"other", o>>                 \* nil, structs, pointers

IsValue(v) ==
  /\ v = <<v[1], v[2]>>
  /\ v[1] \in {"bool", "string", "float64", "int", "structured", "other"}
  /\ v[1] = "bool" => v[2] \in BOOLEAN

\* A flag: its type, and the members of its target's value that are there.
KnownType == {"boolean", "string", "number", "json"}
Flag(type, envelope) == [type |-> type, envelope |-> envelope]
Only(member, v)      == [k \in {member} |-> v]

NewDefaultFlag_Stringly(v) ==              \* mutant: no default is structured
  CASE v[1] = "bool"    -> Flag("boolean", Only("boolean", v))
    [] v[1] = "float64" -> Flag("number", Only("number", v))
    [] v[1] = "string"  -> Flag("string", Only("string", v))
    [] OTHER            -> Flag("string", Only("string", Str(EmptyText)))

NewDefaultFlag(v) ==
  CASE v[1] = "bool"       -> Flag("boolean", Only("boolean", v))
    [] v[1] = "string"     -> Flag("string", Only("string", v))
    [] v[1] = "float64"    -> Flag("number", Only("number", v))
    [] v[1] = "int"        -> Flag("number", Only("number", Num(Float[v[2]])))
    [] v[1] = "structured" -> Flag("json", Only("json", v))
    [] v[1] = "other"      -> Flag("string", Only("string", Str(EmptyText)))

\* Value: the member the type asks for, or the type's zero value; any other
\* type is taken for a string.
Member(f) == IF f.type \in KnownType THEN f.type ELSE "string"
ZeroValue == [boolean |-> Bool(FALSE), string |-> Str(EmptyText),
              number  |-> Num(Zero),   json   |-> Doc(EmptyDocument)]
Value(f)  == IF Member(f) \in DOMAIN f.envelope THEN f.envelope[Member(f)]
                                                ELSE ZeroValue[Member(f)]

AsBool_Truthy(f) ==                        \* mutant: zero values are false
  IF Value(f)[1] = "bool" THEN Value(f) ELSE Bool(Value(f) # ZeroValue[Member(f)])

AsBool(f) == IF Value(f)[1] = "bool" THEN Value(f) ELSE Bool(TRUE)

AsString(f) ==
  LET v == Value(f) IN
  CASE v[1] = "bool"    -> Str(IF v = Bool(TRUE) THEN "true" ELSE "false")
    [] v[1] = "string"  -> v
    [] v[1] = "float64" -> Str(Format[v[2]])
    [] OTHER            -> Str(EmptyText)

AsNumber(f) ==
  LET v == Value(f) IN
  CASE v[1] = "bool"    -> Num(IF v = Bool(TRUE) THEN One ELSE Zero)
    [] v[1] = "string"  -> Num(IF v[2] \in DOMAIN Parse THEN Parse[v[2]] ELSE Zero)
    [] v[1] = "float64" -> v
    [] OTHER            -> Num(Zero)

AsJSON(f) == IF Value(f)[1] = "structured" THEN Value(f) ELSE Doc(EmptyDocument)

IsEnabled(f) == Bool(f.type = "boolean" /\ AsBool(f) = Bool(TRUE))
=============================================================================
