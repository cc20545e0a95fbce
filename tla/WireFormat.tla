------------------------------ MODULE WireFormat ------------------------------
(***************************************************************************)
(* How the conditions of rules are read and written as JSON (types.go).    *)
(* They are read in the format of the CDN or in a legacy one; no code      *)
(* writes them, so that what goes into the cache has the names of the Go   *)
(* fields, and is read back as the legacy format.                          *)
(*                                                                         *)
(* External: encoding/json, which matches names without regard to case.    *)
(* A document is a record of the members that are there.                   *)
(***************************************************************************)
NoText   == ""
NilValue == [shape |-> "nil", items |-> << >>]
List(items) == [shape |-> "list", items |-> items]

\* The names of the Go fields, in lower case.
Lowercase == [Attribute |-> "attribute", Operator |-> "operator", Value |-> "value"]

Matches_Exact(name, tag) == name = tag             \* mutant: the case counts
Matches(name, tag) == name = tag \/ (name \in DOMAIN Lowercase /\ Lowercase[name] = tag)

\* The member a field of the Go struct is read from, else its zero value.
Field(doc, tag, zero) ==
  LET names == {n \in DOMAIN doc : Matches(n, tag)} IN
  IF names = {} THEN zero ELSE doc[CHOOSE n \in names : TRUE]

\* RuleCondition.UnmarshalJSON
Decode(doc) ==
  LET selector == Field(doc, "selector", NoText) IN
  IF selector # NoText
  THEN [attribute |-> IF selector \in {"context", "segment"} THEN selector
                      ELSE Field(doc, "selector_subtype", NoText),
        op        |-> Field(doc, "comparer", NoText),
        value     |-> List(Field(doc, "values", << >>))]
  ELSE [attribute |-> Field(doc, "attribute", NoText),
        op        |-> Field(doc, "operator", NoText),
        value     |-> Field(doc, "value", NilValue)]

\* json.Marshal of a RuleCondition.
Encode(cond) == [Attribute |-> cond.attribute, Operator |-> cond.op, Value |-> cond.value]
=============================================================================
