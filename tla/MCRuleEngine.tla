---------------------------- MODULE MCRuleEngine ----------------------------
(* A small instance of RuleEngine for TLC: four strings, among them a      *)
(* number that contains another and a pattern that does not compile.       *)
EXTENDS RuleEngine, TLC

MCStr == {"", "1", "10", "("}
Parts == {<<s, "">> : s \in MCStr} \union {<<s, s>> : s \in MCStr}

MCSubstring  == Parts \union {<<"10", "1">>}
MCPrefix     == MCSubstring
MCSuffix     == Parts
MCBadRegex   == {"("}
MCRegexMatch == {p \in MCSubstring : p[2] # "("}
MCSpelling   == [o \in {"EQUAL", "not_in", "Not-Equal"} |->
                   CASE o = "EQUAL" -> "equal" [] o = "not_in" -> "notin"
                     [] OTHER -> "notequal"]
MCNumber     == [s \in {"1", "10"} |-> IF s = "1" THEN 1 ELSE 10]

Text_(s)      == [kind |-> "string", text |-> s, id |-> NoId, type |-> AnyType]
Scalar_(s)    == [kind |-> "scalar", text |-> s, id |-> NoId, type |-> AnyType]
Object_(i, t) == [kind |-> "object", text |-> Empty, id |-> i, type |-> t]
One(item)     == [shape |-> "one", items |-> <<item>>]

\* Conditions in the format of the CDN, and in the legacy one.
Cdn(selector, subtype, op, items) ==
  Decode([selector |-> selector, selector_subtype |-> subtype, comparer |-> op,
          values |-> items])
Targets_(selector, op, items) ==
  Decode([selector |-> selector, comparer |-> op, values |-> items])
Cond(a, op, raw) == Decode([attribute |-> a, operator |-> op, value |-> raw])
Absent(a, op)    == Decode([attribute |-> a, operator |-> op])

Conds ==
  { Cdn("attribute", "plan", op, <<Text_("1"), Text_("10")>>) :
      op \in {"EQUAL", "not_in", "startswith", "gt", "regex"} }
  \union { Cond("plan", op, One(Text_("("))) :
             op \in {"EQUAL", "not_in", "startswith", "gt", "regex"} }
  \union { Cond("plan", "in", One(Scalar_("1"))), Absent("plan", "isnull"),
           Cond("plan", "newer", NilValue),
           Targets_("segment", "in", <<Object_("u1", AnyType), Object_("u2", "org")>>),
           Cond("context", "Not-Equal", One(Object_("u2", "user"))),
           Targets_("context", "contains", <<Object_(NoId, "user")>>) }

\* Rules without clauses, with one or two, with criteria, and with both.
Rule(cr, cl) == [criteria |-> cr, clauses |-> cl]
Rules == {Rule(NoCriteria, << >>)}
         \union {Rule(NoCriteria, <<c>>) : c \in Conds}
         \union {Rule(NoCriteria, <<c, d>>) : c, d \in Conds}
         \union {Rule(c, << >>) : c \in Conds}
         \union {Rule(c, <<Absent("plan", "isnull")>>) : c \in Conds}
Seconds == {Rule(NoCriteria, << >>)} \union {Rule(c, << >>) : c \in Conds}

MCRuleLists == {<< >>} \union {<<r>> : r \in Rules}
               \union {<<r, s>> : r \in Rules, s \in Seconds}

Ctx(id, t, values) == [id |-> id, type |-> t, attributes |-> [plan |-> values]]
MCContexts == {Ctx(NoId, AnyType, << >>), Ctx("u1", "user", <<"1">>),
               Ctx("u2", "user", <<"10", "1">>), Ctx("u2", "org", <<"", "(">>)}
=============================================================================
