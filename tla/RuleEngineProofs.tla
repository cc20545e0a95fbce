---------------------------- MODULE RuleEngineProofs ----------------------------
(***************************************************************************)
(* For rules of any number and length: the two loops of the rule engine    *)
(* compute the first rule that decides, the way through the cache changes  *)
(* no answer, and negations are exact.                                     *)
(*                                                                         *)
(* The inductive invariant is that of the loops: the rules behind are      *)
(* misses, and the clauses behind, of the rule at hand, match.             *)
(***************************************************************************)
EXTENDS RuleEngine, TLAPS

Place ==
  /\ rules \in RuleLists
  /\ rule \in 1..(Len(rules) + 1) /\ clause \in Nat \ {0}

RulesBehind ==
  result = Running => \A k \in 1..(rule - 1) : Verdict(rules[k], ctx) = "miss"

ClausesBehind ==
  AtRule /\ rules[rule].criteria = NoCriteria =>
    /\ clause <= Len(rules[rule].clauses) + 1
    /\ \A j \in 1..(clause - 1) : Condition(rules[rule].clauses[j], ctx) = "match"

EngineInv == Place /\ RulesBehind /\ ClausesBehind /\ EvaluatesFirstMatch

-----------------------------------------------------------------------------
\* What is least, and in the set, is its minimum.
LEMMA LeastIsMin ==
  ASSUME NEW S \in SUBSET Nat, NEW k \in S, \A j \in S : k <= j
  PROVE  Min(S) = k
<1>1. \A m \in S : (\A j \in S : m <= j) => m = k
  <2> SUFFICES ASSUME NEW m \in S, \A j \in S : m <= j PROVE m = k
    OBVIOUS
  <2>1. m <= k /\ k <= m /\ m \in Nat /\ k \in Nat
    OBVIOUS
  <2> QED
    BY <2>1
<1> QED
  BY <1>1 DEF Min

LEMMA SliceLength ==
  ASSUME NEW s, IsSlice(s)
  PROVE  Len(s) \in Nat /\ DOMAIN s = 1..Len(s)
BY DEF IsSlice

LEMMA Slices ==
  ASSUME Place
  PROVE  /\ Len(rules) \in Nat /\ DOMAIN rules = 1..Len(rules)
         /\ \A k \in DOMAIN rules : /\ Len(rules[k].clauses) \in Nat
                                    /\ DOMAIN rules[k].clauses = 1..Len(rules[k].clauses)
BY RulesAssumption, SliceLength DEF Place

-----------------------------------------------------------------------------
(* The verdict of a rule, from what the loop over its clauses has seen.    *)

LEMMA AllClausesMatch ==
  ASSUME NEW r, r.criteria = NoCriteria,
         \A j \in DOMAIN r.clauses : Condition(r.clauses[j], ctx) = "match"
  PROVE  Verdict(r, ctx) = "match"
BY DEF Verdict

LEMMA FirstClauseDecides ==
  ASSUME NEW r, r.criteria = NoCriteria, NEW n \in Nat, DOMAIN r.clauses = 1..n,
         NEW k \in 1..n, Condition(r.clauses[k], ctx) # "match",
         \A j \in 1..(k - 1) : Condition(r.clauses[j], ctx) = "match"
  PROVE  Verdict(r, ctx) = Condition(r.clauses[k], ctx)
<1> DEFINE against == {j \in DOMAIN r.clauses : Condition(r.clauses[j], ctx) # "match"}
<1>1. against \in SUBSET Nat /\ k \in against
  OBVIOUS
<1>2. \A j \in against : k <= j
  OBVIOUS
<1>3. Min(against) = k
  <2> HIDE DEF against
  <2> QED
    BY <1>1, <1>2, LeastIsMin
<1>4. against # {}
  BY <1>1
<1> QED
  BY <1>3, <1>4 DEF Verdict

-----------------------------------------------------------------------------
(* The answer, from what the loop over the rules has seen.                 *)

LEMMA FirstRuleDecides ==
  ASSUME NEW rs, NEW n \in Nat, DOMAIN rs = 1..n, NEW k \in 1..n,
         Verdict(rs[k], ctx) # "miss",
         \A j \in 1..(k - 1) : Verdict(rs[j], ctx) = "miss"
  PROVE  FirstMatch(rs, ctx) =
           [kind |-> IF Verdict(rs[k], ctx) = "match" THEN "value" ELSE "error",
            rule |-> k]
<1> DEFINE decisive == {j \in DOMAIN rs : Verdict(rs[j], ctx) # "miss"}
<1>1. decisive \in SUBSET Nat /\ k \in decisive
  OBVIOUS
<1>2. \A j \in decisive : k <= j
  OBVIOUS
<1>3. Min(decisive) = k
  <2> HIDE DEF decisive
  <2> QED
    BY <1>1, <1>2, LeastIsMin
<1>4. decisive # {}
  BY <1>1
<1> QED
  BY <1>3, <1>4 DEF FirstMatch

LEMMA NoRuleDecides ==
  ASSUME NEW rs, \A j \in DOMAIN rs : Verdict(rs[j], ctx) = "miss"
  PROVE  FirstMatch(rs, ctx) = [kind |-> "none", rule |-> 0]
BY DEF FirstMatch

-----------------------------------------------------------------------------
LEMMA InitInv == Init => EngineInv
<1> SUFFICES ASSUME Init PROVE EngineInv
  OBVIOUS
<1>1. rules \in RuleLists /\ rule = 1 /\ clause = 1 /\ result = Running
  BY DEF Init
<1>2. Len(rules) \in Nat
  BY <1>1, RulesAssumption, SliceLength
<1>3. Place
  BY <1>1, <1>2 DEF Place
<1>4. \A k \in DOMAIN rules : Len(rules[k].clauses) \in Nat
  BY <1>3, Slices
<1> QED
  BY <1>1, <1>2, <1>3, <1>4, Slices
  DEF EngineInv, RulesBehind, ClausesBehind, AtRule, EvaluatesFirstMatch

\* A rule that is done keeps the invariant, if its outcome is its verdict.
LEMMA RuleDoneInv ==
  ASSUME EngineInv, AtRule, NEW o, o = Verdict(rules[rule], ctx), RuleDone(o)
  PROVE  EngineInv'
<1> USE DEF EngineInv
<1>1. /\ Len(rules) \in Nat /\ DOMAIN rules = 1..Len(rules)
      /\ rule \in 1..Len(rules) /\ result = Running
  BY Slices DEF Place, AtRule
<1>2. CASE Decisive(o) /\ Finish(IF o = "match" THEN "value" ELSE "error", rule)
  <2>1. result' = [kind |-> IF o = "match" THEN "value" ELSE "error", rule |-> rule]
    BY <1>2 DEF Finish
  <2>2. result' = FirstMatch(rules, ctx)
    BY <1>1, <1>2, <2>1, FirstRuleDecides DEF RulesBehind, Decisive
  <2>3. result' # Running
    BY <2>1 DEF Running
  <2>4. UNCHANGED <<rules, ctx, rule, clause>>
    BY <1>2 DEF Finish
  <2>5. Place'
    BY <2>4 DEF Place
  <2>6. RulesBehind' /\ ClausesBehind'
    BY <2>3 DEF RulesBehind, ClausesBehind, AtRule
  <2>7. EvaluatesFirstMatch'
    BY <2>2, <2>4 DEF EvaluatesFirstMatch
  <2> QED
    BY <2>5, <2>6, <2>7
<1>3. CASE /\ ~Decisive(o)
           /\ rule' = rule + 1 /\ clause' = 1
           /\ UNCHANGED <<rules, ctx, result>>
  <2>1. Place'
    BY <1>1, <1>3 DEF Place
  <2>2. RulesBehind'
    BY <1>1, <1>3 DEF RulesBehind, Decisive
  <2>3. ClausesBehind'
    <3>1. AtRule' => rule' \in DOMAIN rules
      BY <1>1, <1>3 DEF AtRule
    <3>2. AtRule' => Len(rules[rule'].clauses) \in Nat
      BY <3>1, Slices
    <3> QED
      BY <1>3, <3>2 DEF ClausesBehind, AtRule
  <2>4. EvaluatesFirstMatch'
    BY <1>3 DEF EvaluatesFirstMatch
  <2> QED
    BY <2>1, <2>2, <2>3, <2>4
<1> QED
  BY <1>2, <1>3 DEF RuleDone

LEMMA StepInv == EngineInv /\ [Next]_vars => EngineInv'
<1> SUFFICES ASSUME EngineInv, [Next]_vars PROVE EngineInv'
  OBVIOUS
<1> USE DEF EngineInv
<1>1. ASSUME AtRule
      PROVE  /\ Len(rules[rule].clauses) \in Nat
             /\ DOMAIN rules[rule].clauses = 1..Len(rules[rule].clauses)
  BY <1>1, Slices DEF Place, AtRule
<1>2. CASE Criteria
  <2>1. AtRule /\ RuleDone(Condition(rules[rule].criteria, ctx))
    BY <1>2 DEF Criteria
  <2>2. Condition(rules[rule].criteria, ctx) = Verdict(rules[rule], ctx)
    BY <1>2 DEF Criteria, Verdict
  <2> QED
    BY <2>1, <2>2, RuleDoneInv
<1>3. CASE Clause
  <2> DEFINE o == Condition(rules[rule].clauses[clause], ctx)
  <2>1. /\ AtRule /\ rules[rule].criteria = NoCriteria
        /\ clause \in 1..Len(rules[rule].clauses)
    BY <1>1, <1>3 DEF Clause, Place
  <2>2. CASE /\ o = "match" /\ clause' = clause + 1
             /\ UNCHANGED <<rules, ctx, rule, result>>
    <3>1. Place' /\ RulesBehind' /\ EvaluatesFirstMatch'
      BY <2>1, <2>2 DEF Place, RulesBehind, EvaluatesFirstMatch
    <3>2. ClausesBehind'
      BY <1>1, <2>1, <2>2 DEF ClausesBehind, AtRule
    <3> QED
      BY <3>1, <3>2
  <2>3. CASE o # "match" /\ RuleDone(o)
    <3>1. o = Verdict(rules[rule], ctx)
      BY <1>1, <2>1, <2>3, FirstClauseDecides DEF ClausesBehind
    <3> QED
      BY <2>1, <2>3, <3>1, RuleDoneInv
  <2> QED
    BY <1>3, <2>2, <2>3 DEF Clause
<1>4. CASE ClausesDone
  <2>1. AtRule /\ rules[rule].criteria = NoCriteria /\ RuleDone("match")
    BY <1>4 DEF ClausesDone
  <2>2. \A j \in DOMAIN rules[rule].clauses :
          Condition(rules[rule].clauses[j], ctx) = "match"
    BY <1>1, <1>4, <2>1 DEF ClausesDone, ClausesBehind, Place
  <2>3. Verdict(rules[rule], ctx) = "match"
    BY <2>1, <2>2, AllClausesMatch
  <2> QED
    BY <2>1, <2>3, RuleDoneInv
<1>5. CASE RulesDone
  <2>1. /\ result = Running /\ rule = Len(rules) + 1 /\ Len(rules) \in Nat
        /\ DOMAIN rules = 1..Len(rules)
    BY <1>5, Slices DEF RulesDone, Place
  <2>2. result' = FirstMatch(rules, ctx) /\ result' # Running
    BY <1>5, <2>1, NoRuleDecides DEF RulesDone, Finish, RulesBehind, Running
  <2>3. UNCHANGED <<rules, ctx, rule, clause>>
    BY <1>5 DEF RulesDone, Finish
  <2> QED
    BY <2>2, <2>3 DEF Place, RulesBehind, ClausesBehind, AtRule, EvaluatesFirstMatch
<1>6. CASE UNCHANGED vars
  BY <1>6 DEF vars, Place, RulesBehind, ClausesBehind, AtRule, EvaluatesFirstMatch
<1> QED
  BY <1>2, <1>3, <1>4, <1>5, <1>6 DEF Next

LEMMA Inductive == Spec => []EngineInv
BY InitInv, StepInv, PTL DEF Spec

\* The loops of Evaluate and matchesRule (rule_engine.go:19-49) answer with the
\* first rule that decides, for any list of rules and any clauses.
THEOREM LoopsFindFirstMatch == Spec => []EvaluatesFirstMatch
<1>1. EngineInv => EvaluatesFirstMatch
  BY DEF EngineInv
<1> QED
  BY <1>1, Inductive, PTL

-----------------------------------------------------------------------------
(* The cache.                                                              *)

LEMMA FieldIs ==
  ASSUME NEW doc, NEW tag, NEW zero, NEW name \in DOMAIN doc,
         \A n \in DOMAIN doc : Matches(n, tag) <=> n = name
  PROVE  Field(doc, tag, zero) = doc[name]
<1>1. {n \in DOMAIN doc : Matches(n, tag)} = {name}
  OBVIOUS
<1>2. (CHOOSE n \in {name} : TRUE) = name
  OBVIOUS
<1> QED
  BY <1>1, <1>2 DEF Field

LEMMA FieldIsNot ==
  ASSUME NEW doc, NEW tag, NEW zero, \A n \in DOMAIN doc : ~Matches(n, tag)
  PROVE  Field(doc, tag, zero) = zero
<1>1. {n \in DOMAIN doc : Matches(n, tag)} = {}
  OBVIOUS
<1> QED
  BY <1>1 DEF Field

\* What is encoded under the names of the Go fields is read as the legacy format.
LEMMA CacheKeepsConditions ==
  ASSUME NEW cond
  PROVE  Decode(Encode(cond)) =
           [attribute |-> cond.attribute, op |-> cond.op, value |-> cond.value]
<1> DEFINE doc == Encode(cond)
<1>1. /\ DOMAIN doc = {"Attribute", "Operator", "Value"}
      /\ doc["Attribute"] = cond.attribute
      /\ doc["Operator"] = cond.op
      /\ doc["Value"] = cond.value
  BY DEF Encode
<1>2. /\ \A n \in DOMAIN doc : ~Matches(n, "selector")
      /\ \A n \in DOMAIN doc : Matches(n, "attribute") <=> n = "Attribute"
      /\ \A n \in DOMAIN doc : Matches(n, "operator") <=> n = "Operator"
      /\ \A n \in DOMAIN doc : Matches(n, "value") <=> n = "Value"
  BY <1>1 DEF Matches, Lowercase
<1> HIDE DEF doc
<1>3. Field(doc, "selector", NoText) = NoText
  BY <1>2, FieldIsNot
<1>4. /\ Field(doc, "attribute", NoText) = cond.attribute
      /\ Field(doc, "operator", NoText) = cond.op
      /\ Field(doc, "value", NilValue) = cond.value
  BY <1>1, <1>2, FieldIs
<1>5. Decode(doc) = [attribute |-> cond.attribute, op |-> cond.op, value |-> cond.value]
  BY <1>3, <1>4 DEF Decode
<1> QED
  BY <1>5 DEF doc

LEMMA CacheKeepsRules ==
  ASSUME NEW rs \in RuleLists
  PROVE  Cached(rs) = rs
<1>1. ASSUME NEW k \in DOMAIN rs
      PROVE  Cached(rs)[k] = rs[k]
  <2>1. /\ rs[k] = [criteria |-> rs[k].criteria, clauses |-> rs[k].clauses]
        /\ rs[k].criteria = NoCriteria \/ IsCondition(rs[k].criteria)
        /\ IsSlice(rs[k].clauses)
        /\ \A j \in DOMAIN rs[k].clauses : IsCondition(rs[k].clauses[j])
    BY RulesAssumption DEF NoCriteria
  <2>2. \A j \in DOMAIN rs[k].clauses : Decode(Encode(rs[k].clauses[j])) = rs[k].clauses[j]
    BY <2>1, CacheKeepsConditions DEF IsCondition
  <2>3. [j \in DOMAIN rs[k].clauses |-> Decode(Encode(rs[k].clauses[j]))] = rs[k].clauses
    BY <2>1, <2>2 DEF IsSlice
  <2>4. rs[k].criteria # NoCriteria => Decode(Encode(rs[k].criteria)) = rs[k].criteria
    BY <2>1, CacheKeepsConditions DEF IsCondition
  <2> QED
    BY <2>1, <2>3, <2>4 DEF Cached
<1>2. rs = [k \in DOMAIN rs |-> rs[k]]
  <2>1. IsSlice(rs)
    BY RulesAssumption
  <2> QED
    BY <2>1 DEF IsSlice
<1>3. Cached(rs) = [k \in DOMAIN rs |-> Cached(rs)[k]]
  BY DEF Cached
<1> QED
  BY <1>1, <1>2, <1>3

\* Rules that took the way through the cache (flag_manager.go:261, :277) answer
\* as those from the API do.
THEOREM CacheChangesNoAnswer == Spec => []CacheKeepsAnswers
<1>1. EngineInv => CacheKeepsAnswers
  BY CacheKeepsRules
  DEF EngineInv, Place, EvaluatesFirstMatch, CacheKeepsAnswers
<1> QED
  BY <1>1, Inductive, PTL

-----------------------------------------------------------------------------
(* Negations.                                                              *)

LEMMA ConditionsAreRecords ==
  ASSUME Place, rule \in DOMAIN rules, NEW cond \in Conditions(rules[rule])
  PROVE  IsCondition(cond)
BY RulesAssumption DEF Place, Conditions, NoCriteria

LEMMA WithIs ==
  ASSUME NEW cond, IsCondition(cond), NEW op
  PROVE  /\ With(cond, op).attribute = cond.attribute
         /\ With(cond, op).value = cond.value
         /\ With(cond, op).op = op
BY DEF IsCondition, With

\* The operators of a pair are known under their own names.
LEMMA OperatorsOfPairs ==
  ASSUME NEW cond, IsCondition(cond), NEW p \in Negations
  PROVE  /\ Operator(With(cond, p[1])) = p[1]
         /\ Operator(With(cond, p[2])) = p[2]
BY SpellingAssumption, WithIs DEF Negations, Operator

\* Of the values an attribute has.
LEMMA AppliesNegated ==
  ASSUME NEW values, NEW raw, NEW p \in Negations
  PROVE  Apply(p[1], values, raw) # Apply(p[2], values, raw)
<1>1. CASE p = <<"equal", "notequal">>
  BY <1>1 DEF Apply, Outcome
<1>2. CASE p = <<"in", "notin">>
  BY <1>2 DEF Apply, Outcome
<1>3. CASE p = <<"contains", "notcontains">>
  BY <1>3 DEF Apply, Outcome
<1>4. CASE p = <<"startswith", "notstartswith">>
  BY <1>4 DEF Apply, Outcome
<1>5. CASE p = <<"endswith", "notendswith">>
  BY <1>5 DEF Apply, Outcome
<1>6. CASE p = <<"isnull", "notnull">>
  BY <1>6 DEF Apply, Outcome
<1> QED
  BY <1>1, <1>2, <1>3, <1>4, <1>5, <1>6 DEF Negations

\* Of an attribute the context lacks.
LEMMA AbsentNegated ==
  ASSUME NEW p \in Negations
  PROVE  Outcome(p[1] \in TrueWhenAbsent) # Outcome(p[2] \in TrueWhenAbsent)
BY DEF Negations, TrueWhenAbsent, Outcome

\* A negative operator holds exactly when its positive twin does not, whatever
\* the texts, the spelling, the values and the targets (rule_engine.go:51-135).
THEOREM NegationsAreExact == Spec => []NegationIsExact
<1>1. EngineInv => NegationIsExact
  <2> SUFFICES ASSUME Place, rule \in DOMAIN rules,
                      NEW cond \in Conditions(rules[rule]), NEW p \in Negations,
                      cond.attribute \in {"context", "segment"} => p[1] \in {"equal", "in"}
               PROVE  Condition(With(cond, p[1]), ctx) # Condition(With(cond, p[2]), ctx)
    BY DEF EngineInv, NegationIsExact
  <2> DEFINE c == With(cond, p[1])
             d == With(cond, p[2])
             values == ValuesOf(ctx, cond.attribute)
  <2>1. IsCondition(cond)
    BY ConditionsAreRecords
  <2>2. /\ c.attribute = cond.attribute /\ c.value = cond.value /\ Operator(c) = p[1]
        /\ d.attribute = cond.attribute /\ d.value = cond.value /\ Operator(d) = p[2]
    BY <2>1, WithIs, OperatorsOfPairs
  <2>3. CASE cond.attribute \in {"context", "segment"}
    <3>1. /\ p[1] \notin {"notequal", "notin"}
          /\ p[2] \in {"notequal", "notin"}
      BY <2>3 DEF Negations
    <3> DEFINE target == IsTarget(cond.value, ctx)
    <3>2. target \in BOOLEAN
      BY DEF IsTarget
    <3>3. /\ Condition(c, ctx) = Outcome(target # (p[1] \in {"notequal", "notin"}))
          /\ Condition(d, ctx) = Outcome(target # (p[2] \in {"notequal", "notin"}))
      BY <2>2, <2>3 DEF Condition
    <3> HIDE DEF target
    <3>4. CASE target = TRUE
      <4>1. /\ (target # (p[1] \in {"notequal", "notin"})) = TRUE
            /\ (target # (p[2] \in {"notequal", "notin"})) = FALSE
        BY <3>1, <3>4
      <4> QED
        BY <3>3, <4>1 DEF Outcome
    <3>5. CASE target = FALSE
      <4>1. (p[1] \in {"notequal", "notin"}) = FALSE /\ (p[2] \in {"notequal", "notin"}) = TRUE
        BY <3>1
      <4>2. /\ (target # (p[1] \in {"notequal", "notin"})) = FALSE
            /\ (target # (p[2] \in {"notequal", "notin"})) = TRUE
        BY <3>5, <4>1
      <4> QED
        BY <3>3, <4>2 DEF Outcome
    <3> QED
      BY <3>2, <3>4, <3>5
  <2>4. CASE cond.attribute \notin {"context", "segment"} /\ values = << >>
    BY <2>2, <2>4, AbsentNegated DEF Condition
  <2>5. CASE cond.attribute \notin {"context", "segment"} /\ values # << >>
    <3>1. /\ Condition(c, ctx) = Apply(p[1], values, cond.value)
          /\ Condition(d, ctx) = Apply(p[2], values, cond.value)
      BY <2>2, <2>5 DEF Condition
    <3> QED
      BY <3>1, AppliesNegated
  <2> QED
    BY <2>3, <2>4, <2>5
<1> QED
  BY <1>1, Inductive, PTL
=============================================================================
