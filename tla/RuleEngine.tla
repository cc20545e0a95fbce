------------------------------ MODULE RuleEngine ------------------------------
(***************************************************************************)
(* RuleEngine (rule_engine.go): the conditions of targeting rules, as      *)
(* operators, and the two loops of Evaluate and matchesRule, as steps.     *)
(*                                                                         *)
(* External: package strings, regexp and strconv.  What they say of two    *)
(* strings is a set of pairs; a string is a member of Str.                 *)
(***************************************************************************)
EXTENDS Integers, Sequences, FiniteSets, FiniteSetsExt, WireFormat

CONSTANTS Str,        \* attribute values and the texts of rule values
          Empty,      \* the empty string
          Substring,  \* <<s, t>>: strings.Contains(s, t)
          Prefix,     \* <<s, t>>: strings.HasPrefix(s, t)
          Suffix,     \* <<s, t>>: strings.HasSuffix(s, t)
          RegexMatch, \* <<s, t>>: the pattern t matches s
          BadRegex,   \* the patterns that do not compile
          Number,     \* the number a string parses to, for those that do
          Spelling,   \* the operators as payloads spell them -> normalised
          RuleLists,  \* inputs: lists of rules
          Contexts    \* inputs: evaluation contexts

ASSUME StringAssumption == /\ Empty \in Str
                           /\ DOMAIN Number \subseteq Str
                           /\ Number \in [DOMAIN Number -> Int]

\* Operators that are normalised already stay as they are.
ASSUME SpellingAssumption ==
  \A op \in {"equal", "notequal", "in", "notin", "contains", "notcontains", "startswith",
             "notstartswith", "endswith", "notendswith", "isnull", "notnull"} :
    op \in DOMAIN Spelling => Spelling[op] = op

\* Rules are in a slice, and so are the clauses of a rule, which are conditions.
IsSlice(s)     == s \in Seq({s[k] : k \in DOMAIN s})
IsCondition(c) == c = [attribute |-> c.attribute, op |-> c.op, value |-> c.value]
ASSUME RulesAssumption ==
  \A rs \in RuleLists :
    /\ IsSlice(rs)
    /\ \A k \in DOMAIN rs :
         /\ rs[k] = [criteria |-> rs[k].criteria, clauses |-> rs[k].clauses]
         /\ rs[k].criteria = [attribute |-> "none"] \/ IsCondition(rs[k].criteria)
         /\ IsSlice(rs[k].clauses)
         /\ \A j \in DOMAIN rs[k].clauses : IsCondition(rs[k].clauses[j])

\* A context has a type, an identifier and, for an attribute key, the values
\* GetAttribute finds: of the first attribute with that key, or none.
\* A rule value is of a shape, "nil", "one" or "list", with its items; an item
\* is a string, another scalar with the text asString formats it to, or an
\* object with an identifier and a type.
NoId    == ""
AnyType == ""

-----------------------------------------------------------------------------
(* Values.                                                                 *)

Text(item) == IF item.kind = "object" THEN Empty ELSE item.text

\* asString: of a list, only the first item counts.
AsString(raw) == IF raw.items = << >> THEN Empty ELSE Text(raw.items[1])

\* asStringSlice: a list, or a single string; any other single value is nil.
AsStringSlice(raw) ==
  CASE raw.shape = "list" -> {Text(raw.items[k]) : k \in DOMAIN raw.items}
    [] raw.shape = "one" /\ raw.items[1].kind = "string" -> {raw.items[1].text}
    [] OTHER -> {}

\* extractContextTargets: the objects that have an identifier.
Targets(raw) ==
  {raw.items[k] : k \in {n \in DOMAIN raw.items :
                           raw.items[n].kind = "object" /\ raw.items[n].id # NoId}}

-----------------------------------------------------------------------------
(* Conditions: "match", "miss" or "error".                                 *)

Outcome(b) == IF b THEN "match" ELSE "miss"

\* matchContextTarget
IsTarget(raw, ctx) ==
  /\ ctx.id # NoId
  /\ \E t \in Targets(raw) : t.id = ctx.id /\ t.type \in {AnyType, ctx.type}

SomeValue(values, pairs, t) == \E k \in DOMAIN values : <<values[k], t>> \in pairs

Compare(op, l, r) == CASE op = "gt"  -> l > r
                       [] op = "gte" -> l >= r
                       [] op = "lt"  -> l < r
                       [] op = "lte" -> l <= r

Ordered(op, s, t) ==
  /\ s \in DOMAIN Number /\ t \in DOMAIN Number
  /\ Compare(op, Number[s], Number[t])

\* normalizeOperator: case, blanks, underscores and dashes do not count.
Operator(cond) == IF cond.op \in DOMAIN Spelling THEN Spelling[cond.op] ELSE cond.op

\* applyOperator, for an attribute that has values.
Apply(op, values, raw) ==
  LET first == values[1]
      text  == AsString(raw)
      In    == \E k \in DOMAIN values : values[k] \in AsStringSlice(raw)
  IN CASE op = "equal"         -> Outcome(first = text)
       [] op = "notequal"      -> Outcome(first # text)
       [] op = "in"            -> Outcome(In)
       [] op = "notin"         -> Outcome(~In)
       [] op = "contains"      -> Outcome(SomeValue(values, Substring, text))
       [] op = "notcontains"   -> Outcome(~SomeValue(values, Substring, text))
       [] op = "startswith"    -> Outcome(SomeValue(values, Prefix, text))
       [] op = "notstartswith" -> Outcome(~SomeValue(values, Prefix, text))
       [] op = "endswith"      -> Outcome(SomeValue(values, Suffix, text))
       [] op = "notendswith"   -> Outcome(~SomeValue(values, Suffix, text))
       [] op \in {"gt", "gte", "lt", "lte"} -> Outcome(Ordered(op, first, text))
       [] op = "isnull"        -> Outcome(first = Empty)
       [] op = "notnull"       -> Outcome(first # Empty)
       [] op = "regex"         -> IF text \in BadRegex THEN "error"
                                  ELSE Outcome(<<first, text>> \in RegexMatch)
       [] OTHER                -> "error"

\* The operators that hold of an attribute the context does not have.
TrueWhenAbsent_NoPrefix == {"isnull", "notequal", "notin", "notcontains", "notendswith"}
                                     \* mutant: an operator is forgotten
TrueWhenAbsent == {"isnull", "notequal", "notin", "notcontains", "notstartswith",
                   "notendswith"}

\* GetAttribute: the values of an attribute, none if the context lacks it.
ValuesOf(c, attribute) ==
  IF attribute \in DOMAIN c.attributes THEN c.attributes[attribute] ELSE << >>

\* matchesCondition
Condition(cond, c) ==
  IF cond.attribute \in {"context", "segment"} THEN
    Outcome(IsTarget(cond.value, c) # (Operator(cond) \in {"notequal", "notin"}))
  ELSE LET values == ValuesOf(c, cond.attribute) IN
    IF values = << >> THEN Outcome(Operator(cond) \in TrueWhenAbsent)
    ELSE Apply(Operator(cond), values, cond.value)

-----------------------------------------------------------------------------
(* Evaluate and matchesRule.                                               *)

VARIABLES rules, ctx,  \* the arguments
          rule,        \* the rule Evaluate is at
          clause,      \* the clause matchesRule is at
          result       \* [kind, rule]: running, a rule's value, none, error

vars == <<rules, ctx, rule, clause, result>>

NoCriteria == [attribute |-> "none"]
Running    == [kind |-> "running", rule |-> 0]

Init ==
  /\ rules \in RuleLists /\ ctx \in Contexts
  /\ rule = 1 /\ clause = 1 /\ result = Running

AtRule == result = Running /\ rule <= Len(rules)

Finish(kind, k) ==
  /\ result' = [kind |-> kind, rule |-> k]
  /\ UNCHANGED <<rules, ctx, rule, clause>>

Decisive_Match(o) == o = "match"     \* mutant: a rule that errs is passed over
Decisive(o) == o # "miss"

\* matchesRule has returned with outcome o.
RuleDone(o) ==
  \/ Decisive(o) /\ Finish(IF o = "match" THEN "value" ELSE "error", rule)
  \/ /\ ~Decisive(o)
     /\ rule' = rule + 1 /\ clause' = 1
     /\ UNCHANGED <<rules, ctx, result>>

Criteria ==
  /\ AtRule /\ rules[rule].criteria # NoCriteria
  /\ RuleDone(Condition(rules[rule].criteria, ctx))

\* The clauses are a conjunction; the first that does not match decides.
Clause ==
  /\ AtRule /\ rules[rule].criteria = NoCriteria
  /\ clause <= Len(rules[rule].clauses)
  /\ LET o == Condition(rules[rule].clauses[clause], ctx) IN
       \/ /\ o = "match"
          /\ clause' = clause + 1
          /\ UNCHANGED <<rules, ctx, rule, result>>
       \/ o # "match" /\ RuleDone(o)

\* All clauses matched, or the rule has neither clauses nor criteria.
ClausesDone ==
  /\ AtRule /\ rules[rule].criteria = NoCriteria
  /\ clause > Len(rules[rule].clauses)
  /\ RuleDone("match")

RulesDone ==
  /\ result = Running /\ rule > Len(rules)
  /\ Finish("none", 0)

Next == Criteria \/ Clause \/ ClausesDone \/ RulesDone
Spec == Init /\ [][Next]_vars

-----------------------------------------------------------------------------
(* What the loops compute, without a loop.                                 *)

Verdict(r, c) ==
  IF r.criteria # NoCriteria THEN Condition(r.criteria, c)
  ELSE LET against == {k \in DOMAIN r.clauses : Condition(r.clauses[k], c) # "match"}
       IN IF against = {} THEN "match" ELSE Condition(r.clauses[Min(against)], c)

FirstMatch(rs, c) ==
  LET decisive == {k \in DOMAIN rs : Verdict(rs[k], c) # "miss"}
      k == Min(decisive)
  IN IF decisive = {} THEN [kind |-> "none", rule |-> 0]
     ELSE [kind |-> IF Verdict(rs[k], c) = "match" THEN "value" ELSE "error", rule |-> k]

\* Evaluate (rule_engine.go:19-49) answers with the first rule that matches or
\* errs: no error of an earlier rule is passed over and none of a later rule or
\* clause, that need not be looked at, spoils an answer.
EvaluatesFirstMatch == result # Running => result = FirstMatch(rules, ctx)

\* The rules as loadRules finds them in the cache (flag_manager.go:261, :277).
Cached(rs) ==
  [k \in DOMAIN rs |->
     [criteria |-> IF rs[k].criteria = NoCriteria THEN NoCriteria
                   ELSE Decode(Encode(rs[k].criteria)),
      clauses  |-> [j \in DOMAIN rs[k].clauses |-> Decode(Encode(rs[k].clauses[j]))]]]

\* Rules that took the way through the cache answer every context as those that
\* came from the API do, in whichever format they came: conditions are written
\* under other names than either format has (types.go:59, :68).
CacheKeepsAnswers == result # Running => result = FirstMatch(Cached(rules), ctx)

\* A negative operator holds exactly when its positive twin does not, for every
\* context: also for an attribute the context lacks (rule_engine.go:66-73), for
\* one with several values, and for a context or segment target, where only the
\* negations of equal and in are known (rule_engine.go:59).
Negations == {<<"equal", "notequal">>, <<"in", "notin">>,
              <<"contains", "notcontains">>, <<"startswith", "notstartswith">>,
              <<"endswith", "notendswith">>, <<"isnull", "notnull">>}
With(cond, op) == [cond EXCEPT !.op = op]

Conditions(r) == {r.clauses[k] : k \in DOMAIN r.clauses} \union ({r.criteria} \ {NoCriteria})

NegationIsExact ==
  rule \in DOMAIN rules =>
    \A cond \in Conditions(rules[rule]), p \in Negations :
      (cond.attribute \in {"context", "segment"} => p[1] \in {"equal", "in"}) =>
        Condition(With(cond, p[1]), ctx) # Condition(With(cond, p[2]), ctx)
=============================================================================
