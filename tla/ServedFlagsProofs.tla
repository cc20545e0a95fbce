--------------------------- MODULE ServedFlagsProofs ---------------------------
(* What the accessors and the getters answer, for every flag, default, user*)
(* and hash, and whatever strconv makes of numbers and texts.              *)
EXTENDS ServedFlags, TLAPS, FiniteSetTheorems

Rollouts == {NoRollout} \union {<<p>> : p \in Percentage}

ServedInv ==
  /\ hash \in [User -> HashValue]
  /\ answers \in [{"base", "rollout"} -> Answers]
  /\ rollout \in Rollouts
  /\ data \in FlagData

LEMMA ServedType == ServedSpec => []ServedInv
<1>1. ServedInit => ServedInv
  BY DEF ServedInit, Init, ServedInv, Rollouts
<1>2. ServedInv /\ [ServedNext]_<<vars, data>> => ServedInv'
  BY DEF ServedInv, ServedNext, Next, Edit, vars, Rollouts
<1> QED
  BY <1>1, <1>2, PTL DEF ServedSpec

-----------------------------------------------------------------------------
(* The rollout (FlagEvaluation).                                           *)

LEMMA RolloutShape ==
  ASSUME NEW r \in Rollouts, r # NoRollout
  PROVE  r[1] \in Percentage /\ r[1] \in Int /\ r = <<r[1]>>
BY EvaluationAssumption DEF Rollouts

\* A bucket is a number below 100.
LEMMA BucketRange ==
  ASSUME NEW h \in HashValue
  PROVE  Bucket(h) \in 0..99
BY EvaluationAssumption DEF Bucket

\* The buckets of a percentage are among those of a greater one.
LEMMA BucketsGrow ==
  ASSUME NEW h \in HashValue, NEW p \in Int, NEW q \in Int, p <= q, InBucket(h, p)
  PROVE  InBucket(h, q)
<1>1. Bucket(h) \in 0..99
  BY BucketRange
<1> QED
  BY <1>1 DEF InBucket

\* An edit that raises the percentage keeps everyone the rollout had.
LEMMA RaiseKeeps ==
  ASSUME ServedInv, NEW u \in User, NEW r \in Rollouts, NEW s \in Rollouts,
         r # NoRollout, s # NoRollout, r[1] <= s[1], Active(u, r) = "rollout"
  PROVE  Active(u, s) = "rollout" /\ Evaluated(u, s) = Evaluated(u, r)
<1>1. r[1] \in Int /\ s[1] \in Int /\ hash[u] \in HashValue
  BY RolloutShape DEF ServedInv
<1>2. Identified(u) /\ InBucket(hash[u], r[1])
  BY DEF Active
<1>3. InBucket(hash[u], s[1])
  BY <1>1, <1>2, BucketsGrow
<1>4. Active(u, s) = "rollout"
  BY <1>2, <1>3 DEF Active
<1> QED
  BY <1>4 DEF Evaluated, ActiveRules

\* Raising a rollout takes nobody out of it and changes nobody's answer who was
\* in it (rollout.go:13-26): whatever the users, their hashes and the percentages.
THEOREM RaisingIsMonotone == ServedSpec => RaisingKeepsUsers
<1> DEFINE Keeps ==
      rollout # NoRollout /\ rollout' # NoRollout /\ rollout[1] <= rollout'[1] =>
        \A u \in User : Active(u, rollout) = "rollout" =>
          /\ Active(u, rollout') = "rollout"
          /\ Evaluated(u, rollout') = Evaluated(u, rollout)
<1>1. ServedInv /\ ServedInv' => [Keeps]_vars
  BY RaiseKeeps DEF ServedInv
<1> QED
  BY <1>1, ServedType, PTL DEF ServedSpec, RaisingKeepsUsers

\* Nothing of a rollout reaches a user outside it (flag_manager.go:206-231).
THEOREM RolloutIsConfined == ServedSpec => []OutsideIsUntouched
<1>1. ServedInv => OutsideIsUntouched
  <2> SUFFICES ASSUME ServedInv, NEW u \in User,
                      \/ u \in Anonymous \/ rollout = NoRollout
                      \/ rollout[1] < 100 /\ hash[u] % 100 >= rollout[1]
               PROVE  Evaluated(u, rollout) = Evaluated(u, NoRollout)
    BY DEF OutsideIsUntouched
  <2>1. Active(u, NoRollout) = "base"
    BY DEF Active
  <2>2. Active(u, rollout) = "base"
    <3>1. CASE u \in Anonymous \/ rollout = NoRollout
      BY <3>1 DEF Active, Identified
    <3>2. CASE rollout # NoRollout /\ rollout[1] < 100 /\ hash[u] % 100 >= rollout[1]
      <4>1. rollout[1] \in Int /\ hash[u] \in HashValue
        BY <3>2, RolloutShape DEF ServedInv
      <4>2. Bucket(hash[u]) \in 0..99 /\ Bucket(hash[u]) >= rollout[1]
        BY <3>2, <4>1, BucketRange DEF Bucket
      <4>3. ~InBucket(hash[u], rollout[1])
        BY <3>2, <4>1, <4>2 DEF InBucket
      <4> QED
        BY <4>3 DEF Active
    <3> QED
      BY <3>1, <3>2
  <2> QED
    BY <2>1, <2>2 DEF Evaluated, ActiveRules
<1> QED
  BY <1>1, ServedType, PTL

\* A share of p percent is p of 100 buckets, the shares of 0 and of 100 nobody and
\* everybody who has an identifier (rollout.go:12-26).
THEOREM SharesHold == ServedSpec => []SharesAreExact
<1>1. ServedInv => SharesAreExact
  <2> SUFFICES ASSUME ServedInv, rollout # NoRollout PROVE SharesAreExact
    BY DEF SharesAreExact
  <2> DEFINE p == rollout[1]
  <2>1. p \in Int /\ \A u \in User : hash[u] \in HashValue
    BY RolloutShape DEF ServedInv
  <2>2. p >= 100 => \A u \in User \ Anonymous : Active(u, rollout) = "rollout"
    BY <2>1 DEF Active, Identified, InBucket
  <2>3. p <= 0 => \A u \in User : Active(u, rollout) = "base"
    BY <2>1 DEF Active, InBucket
  <2>4. ASSUME p \in 0..100
        PROVE  Cardinality({h \in 0..99 : InBucket(h, p)}) = p
    <3>1. {h \in 0..99 : InBucket(h, p)} = 0..(p - 1)
      <4>1. \A h \in 0..99 : InBucket(h, p) <=> h < p
        BY <2>4 DEF InBucket, Bucket
      <4> HIDE DEF p
      <4>2. \A h : h \in 0..99 /\ InBucket(h, p) <=> h \in 0..(p - 1)
        BY <2>4, <4>1
      <4> QED
        BY <4>2, Zenon
    <3>2. Cardinality(0..(p - 1)) = p
      <4> HIDE DEF p
      <4>1. 0 \in Int /\ p - 1 \in Int
        BY <2>4
      <4>2. Cardinality(0..(p - 1)) = IF 0 > p - 1 THEN 0 ELSE (p - 1) - 0 + 1
        BY <4>1, FS_Interval, Zenon
      <4> QED
        BY <2>4, <4>2
    <3> QED
      BY <3>1, <3>2, Zenon
  <2> QED
    BY <2>2, <2>3, <2>4 DEF SharesAreExact
<1> QED
  BY <1>1, ServedType, PTL

-----------------------------------------------------------------------------
\* The accessors of a flag whose value is of its own type.
LEMMA Table ==
  ASSUME NEW type, NEW envelope,
         WellTyped(Flag(type, envelope)), IsValue(envelope[type])
  PROVE  /\ Value(Flag(type, envelope)) = envelope[type]
         /\ FollowsTable(Flag(type, envelope))
<1> DEFINE f == Flag(type, envelope)
           v == envelope[type]
<1>1. /\ f.type = type /\ f.envelope = envelope
      /\ type \in KnownType \cap DOMAIN envelope
  BY DEF WellTyped, Flag
<1>2. Value(f) = v
  BY <1>1 DEF Value, Member
<1>3. v = <<v[1], v[2]>>
  BY DEF IsValue
<1>4. \/ type = "boolean" /\ v[1] = "bool"
      \/ type = "string" /\ v[1] = "string"
      \/ type = "number" /\ v[1] = "float64"
      \/ type = "json" /\ v[1] = "structured"
  BY <1>1 DEF WellTyped, KnownType
<1> HIDE DEF f, v
<1>5. AsBool(f) = IF type = "boolean" THEN v ELSE Bool(TRUE)
  BY <1>2, <1>4 DEF AsBool
<1>6. AsJSON(f) = IF type = "json" THEN v ELSE Doc(EmptyDocument)
  BY <1>2, <1>4 DEF AsJSON
<1>7. AsString(f) = CASE type = "boolean" -> Str(IF v = Bool(TRUE) THEN "true" ELSE "false")
                      [] type = "string"  -> v
                      [] type = "number"  -> Str(Format[v[2]])
                      [] type = "json"    -> Str(EmptyText)
  BY <1>2, <1>3, <1>4 DEF AsString
<1>8. AsNumber(f) = CASE type = "boolean" -> Num(IF v = Bool(TRUE) THEN One ELSE Zero)
                      [] type = "string" /\ v[2] \in DOMAIN Parse -> Num(Parse[v[2]])
                      [] type = "number"  -> v
                      [] OTHER            -> Num(Zero)
  BY <1>2, <1>3, <1>4 DEF AsNumber
<1> QED
  BY <1>1, <1>2, <1>5, <1>6, <1>7, <1>8 DEF FollowsTable, f, v

\* What a default becomes: a flag of one value.
LEMMA DefaultFlag ==
  ASSUME NEW d, IsValue(d)
  PROVE  \E t \in KnownType : \E v :
           /\ NewDefaultFlag(d) = Flag(t, Only(t, v))
           /\ WellTyped(Flag(t, Only(t, v))) /\ IsValue(v)
           /\ d[1] \notin {"int", "other"} => v = d
           /\ t = "boolean" <=> d[1] = "bool"
           /\ t = "string"  <=> d[1] \in {"string", "other"}
           /\ t = "number"  <=> d[1] \in {"float64", "int"}
           /\ t = "json"    <=> d[1] = "structured"
<1> USE DEF IsValue, KnownType
<1>1. \A t, v : /\ Flag(t, Only(t, v)).type = t
                /\ DOMAIN Flag(t, Only(t, v)).envelope = {t}
                /\ Flag(t, Only(t, v)).envelope[t] = v
  BY DEF Flag, Only
<1>2. CASE d[1] = "bool"
  <2>1. NewDefaultFlag(d) = Flag("boolean", Only("boolean", d))
    BY <1>2 DEF NewDefaultFlag
  <2>2. WellTyped(Flag("boolean", Only("boolean", d)))
    BY <1>1, <1>2 DEF WellTyped
  <2> QED
    BY <1>2, <2>1, <2>2
<1>3. CASE d[1] = "string"
  <2>1. NewDefaultFlag(d) = Flag("string", Only("string", d))
    BY <1>3 DEF NewDefaultFlag
  <2>2. WellTyped(Flag("string", Only("string", d)))
    BY <1>1, <1>3 DEF WellTyped
  <2> QED
    BY <1>3, <2>1, <2>2
<1>4. CASE d[1] = "float64"
  <2>1. NewDefaultFlag(d) = Flag("number", Only("number", d))
    BY <1>4 DEF NewDefaultFlag
  <2>2. WellTyped(Flag("number", Only("number", d)))
    BY <1>1, <1>4 DEF WellTyped
  <2> QED
    BY <1>4, <2>1, <2>2
<1>5. CASE d[1] = "int"
  <2> DEFINE n == Num(Float[d[2]])
  <2>1. NewDefaultFlag(d) = Flag("number", Only("number", n))
    BY <1>5 DEF NewDefaultFlag
  <2>2. n[1] = "float64" /\ IsValue(n)
    BY DEF Num
  <2>3. WellTyped(Flag("number", Only("number", n)))
    BY <1>1, <2>2 DEF WellTyped
  <2> HIDE DEF n
  <2> QED
    BY <1>5, <2>1, <2>2, <2>3
<1>6. CASE d[1] = "structured"
  <2>1. NewDefaultFlag(d) = Flag("json", Only("json", d))
    BY <1>6 DEF NewDefaultFlag
  <2>2. WellTyped(Flag("json", Only("json", d)))
    BY <1>1, <1>6 DEF WellTyped
  <2> QED
    BY <1>6, <2>1, <2>2
<1>7. CASE d[1] = "other"
  <2> DEFINE e == Str(EmptyText)
  <2>1. NewDefaultFlag(d) = Flag("string", Only("string", e))
    BY <1>7 DEF NewDefaultFlag
  <2>2. e[1] = "string" /\ IsValue(e)
    BY DEF Str
  <2>3. WellTyped(Flag("string", Only("string", e)))
    BY <1>1, <2>2 DEF WellTyped
  <2> HIDE DEF e
  <2> QED
    BY <1>7, <2>1, <2>2, <2>3
<1> QED
  BY <1>2, <1>3, <1>4, <1>5, <1>6, <1>7

-----------------------------------------------------------------------------
\* A flag Single serves is a default's, or has the envelope of one place.
LEMMA SingleServes ==
  ASSUME ServedInv, NEW u \in User, NEW d
  PROVE  /\ ~Evaluable => Single(u, d) = NewDefaultFlag(d)
         /\ Evaluable /\ answers[Side(u)] = "error" => Single(u, d) = Failed
         /\ Evaluable /\ answers[Side(u)] # "error" =>
              /\ Single(u, d) = Flag(data.type, Place(u))
              /\ \A k \in DOMAIN Place(u) : IsValue(Place(u)[k])
<1>1. Active(u, rollout) = Side(u)
  <2>1. CASE rollout = NoRollout
    BY <2>1 DEF Active, Side, Inside
  <2>2. CASE rollout # NoRollout
    <3>1. rollout[1] \in Int /\ hash[u] \in Nat /\ hash[u] % 100 \in 0..99
      <4>1. PICK p \in Percentage : rollout = <<p>>
        BY <2>2 DEF ServedInv, Rollouts
      <4>2. hash[u] \in HashValue
        BY DEF ServedInv
      <4>3. p \in Int /\ rollout[1] = p /\ hash[u] \in Nat
        BY <4>1, <4>2, EvaluationAssumption
      <4> QED
        BY <4>3
    <3> QED
      BY <2>2, <3>1 DEF Active, Side, Inside, Identified, InBucket, Bucket
  <2> QED
    BY <2>1, <2>2
<1>2. Side(u) \in {"base", "rollout"}
  BY DEF Side
<1>3. answers[Side(u)] \in Answers
  BY <1>2 DEF ServedInv
<1>4. /\ answers[Side(u)] = "error" => Evaluated(u, rollout) = <<"error">>
      /\ answers[Side(u)] = "value" => Evaluated(u, rollout) = <<"rule", Side(u)>>
      /\ answers[Side(u)] \notin {"error", "value"} => Evaluated(u, rollout) = <<"target", Side(u)>>
  BY <1>1 DEF Evaluated, ActiveRules
<1>5. \A k \in DOMAIN Place(u) : IsValue(Place(u)[k])
  BY <1>2, ServedAssumption DEF Place, ServedInv
<1>6. Place(u) = IF answers[Side(u)] = "value" THEN data.rule[Side(u)] ELSE data.target[Side(u)]
  BY DEF Place
<1> QED
  BY <1>4, <1>5, <1>6 DEF Single, Place

\* The accessors follow the table of the README for every flag that is served,
\* from the payload or made of a default, and whose value is of the type it is
\* declared with (flag.go:104-203).
THEOREM AccessorsFollowTable == ServedSpec => []CoercionTable
<1>1. ServedInv => CoercionTable
  <2> SUFFICES ASSUME ServedInv, NEW u \in User, NEW d \in Default,
                      Single(u, d) # Failed, WellTyped(Single(u, d))
               PROVE  FollowsTable(Single(u, d))
    BY DEF CoercionTable
  <2>1. PICK t, e : Single(u, d) = Flag(t, e) /\ (t \in DOMAIN e => IsValue(e[t]))
    <3>1. CASE Evaluable
      BY <3>1, SingleServes
    <3>2. CASE ~Evaluable
      <4>1. PICK t, v : NewDefaultFlag(d) = Flag(t, Only(t, v)) /\ IsValue(v)
        BY DefaultFlag, ServedAssumption
      <4> QED
        BY <3>2, <4>1, SingleServes DEF Only
    <3> QED
      BY <3>1, <3>2
  <2>2. Flag(t, e).type = t /\ Flag(t, e).envelope = e
    BY DEF Flag
  <2>3. t \in DOMAIN e
    BY <2>1, <2>2 DEF WellTyped
  <2>4. WellTyped(Flag(t, e)) /\ IsValue(e[t])
    BY <2>1, <2>3
  <2> QED
    BY <2>1, <2>2, <2>4, Table
<1> QED
  BY <1>1, ServedType, PTL

\* What a getter makes of a flag of its own type is the value itself.
LEMMA OwnAccessor ==
  ASSUME NEW m \in Getter, NEW e, WellTyped(Flag(OwnType(m), e)), IsValue(e[OwnType(m)]),
         OwnType(m) = "boolean" => e["boolean"] \in {Bool(TRUE), Bool(FALSE)}
  PROVE  As(m, Flag(OwnType(m), e)) = e[OwnType(m)]
<1> DEFINE f == Flag(OwnType(m), e)
<1>1. f.type = OwnType(m)
  BY DEF Flag
<1>2. /\ Value(f) = e[OwnType(m)]
      /\ OwnType(m) = "boolean" => AsBool(f) = e["boolean"]
      /\ OwnType(m) = "string" => AsString(f) = e["string"]
      /\ OwnType(m) = "number" => AsNumber(f) = e["number"]
      /\ OwnType(m) = "json"   => AsJSON(f) = e["json"]
  <2>1. FollowsTable(f) /\ f.envelope = e /\ Value(f) = e[OwnType(m)]
    BY Table DEF Flag
  <2> QED
    BY <1>1, <2>1 DEF FollowsTable
<1> HIDE DEF f
<1> QED
  BY <1>1, <1>2 DEF f, As, OwnType, Getter, IsEnabled, Bool

\* A getter's default, made a flag, comes back as it is: except that GetJSON
\* answers an empty map for one that is not structured.
LEMMA DefaultAnswer ==
  ASSUME NEW m \in Getter, NEW d \in Takes(m), IsValue(d)
  PROVE  /\ Passed(m, d) = d
         /\ As(m, NewDefaultFlag(d)) =
              IF m = "GetJSON" /\ d[1] # "structured" THEN Doc(EmptyDocument) ELSE d
<1>1. Passed(m, d) = d
  BY DEF Takes, Passed
<1>2. PICK t, v :
        /\ t \in KnownType
        /\ NewDefaultFlag(d) = Flag(t, Only(t, v))
        /\ WellTyped(Flag(t, Only(t, v))) /\ IsValue(v)
        /\ d[1] \notin {"int", "other"} => v = d
        /\ t = "boolean" <=> d[1] = "bool"
        /\ t = "string"  <=> d[1] \in {"string", "other"}
        /\ t = "number"  <=> d[1] \in {"float64", "int"}
        /\ t = "json"    <=> d[1] = "structured"
  BY DefaultFlag
<1> DEFINE f == Flag(t, Only(t, v))
<1>3. f.type = t /\ f.envelope = Only(t, v) /\ Only(t, v)[t] = v
  BY DEF Flag, Only
<1>4. FollowsTable(f)
  BY <1>2, <1>3, Table
<1>5. /\ AsBool(f) = IF t = "boolean" THEN v ELSE Bool(TRUE)
      /\ AsJSON(f) = IF t = "json" THEN v ELSE Doc(EmptyDocument)
      /\ t = "string" => AsString(f) = v
      /\ t = "number" => AsNumber(f) = v
  <2>1. t = "string" \/ t = "number" => t \notin {"boolean", "json"} /\ ~(t = "string" /\ t = "number")
    OBVIOUS
  <2> HIDE DEF f
  <2> QED
    BY <1>3, <1>4, <2>1 DEF FollowsTable
<1>6. CASE m = "IsEnabled"
  <2>1. d = Bool(FALSE) /\ d[1] = "bool"
    <3>1. d = Bool(FALSE)
      BY <1>6 DEF Takes
    <3> QED
      BY <3>1 DEF Bool
  <2>2. t = "boolean" /\ v = d
    BY <1>2, <2>1
  <2>3. AsBool(f) # Bool(TRUE)
    BY <1>5, <2>1, <2>2 DEF Bool
  <2>4. IsEnabled(f) = Bool(FALSE)
    BY <1>3, <2>3 DEF IsEnabled
  <2> QED
    BY <1>1, <1>2, <1>6, <2>1, <2>4 DEF As
<1>7. CASE m = "GetString"
  <2>1. d[1] = "string"
    BY <1>7 DEF Takes
  <2> QED
    BY <1>1, <1>2, <1>5, <1>7, <2>1 DEF As
<1>8. CASE m = "GetNumber"
  <2>1. d[1] = "float64"
    BY <1>8 DEF Takes
  <2> QED
    BY <1>1, <1>2, <1>5, <1>8, <2>1 DEF As
<1>9. CASE m = "GetJSON"
  BY <1>1, <1>2, <1>5, <1>9 DEF As
<1> QED
  BY <1>1, <1>6, <1>7, <1>8, <1>9 DEF Getter

\* Every getter of the entry point and of the three middlewares answers a request
\* with its default, or with what is in the one place that is active for its user
\* (zenmanage.go:34, middleware.go:60, gin.go:60, echo.go:59).
THEOREM GettersAreRight == ServedSpec => []GettersAnswer
<1>1. ServedInv => GettersAnswer
  <2> SUFFICES ASSUME ServedInv, NEW r \in Request, NEW m \in Getter, NEW d \in Takes(m),
                      NEW a \in {NetHTTP(r, m, d), Gin(r, m, d), Echo(r, m, d)} \union
                                 (IF r.injected THEN {Ask(r.user, m, d)} ELSE {})
               PROVE
      LET fails == Evaluable /\ answers[Side(r.user)] = "error" IN
      /\ a.error <=> ~r.injected \/ fails
      /\ a.error => a.value = d
      /\ a.aborted => ~r.injected /\ m = "IsEnabled"
      /\ ~a.error /\ ~Evaluable =>
           a.value = IF m = "GetJSON" /\ d[1] # "structured" THEN Doc(EmptyDocument) ELSE d
      /\ ~a.error /\ Evaluable /\ data.type = OwnType(m)
           /\ WellTyped(Flag(data.type, Place(r.user))) =>
           a.value = Place(r.user)[data.type]
    BY DEF GettersAnswer
  <2> DEFINE u == r.user
             f == Single(u, d)
  <2>1. u \in User /\ r.injected \in BOOLEAN
    BY DEF Request
  <2>2. d \in Default \/ d = Bool(FALSE)
    BY DEF Takes
  <2>3. IsValue(d)
    <3>1. IsValue(Bool(FALSE))
      BY DEF IsValue, Bool
    <3> QED
      BY <2>2, <3>1, ServedAssumption
  <2>4. Passed(m, d) = d
    BY <2>3, DefaultAnswer
  <2>5. CASE ~r.injected
    <3>1. a = Reply(d, TRUE) \/ a = [Reply(d, TRUE) EXCEPT !.aborted = (m = "IsEnabled")]
      BY <2>4, <2>5 DEF NetHTTP, Gin, Echo
    <3>2. /\ a.value = d /\ a.error = TRUE
          /\ a.aborted => m = "IsEnabled"
      <4>1. CASE a = Reply(d, TRUE)
        BY <4>1 DEF Reply
      <4>2. CASE a = [Reply(d, TRUE) EXCEPT !.aborted = (m = "IsEnabled")]
        <5>1. CASE m = "IsEnabled"
          BY <4>2, <5>1 DEF Reply
        <5>2. CASE m # "IsEnabled"
          <6>1. a = [Reply(d, TRUE) EXCEPT !.aborted = FALSE]
            BY <4>2, <5>2
          <6> QED
            BY <6>1 DEF Reply
        <5> QED
          BY <5>1, <5>2
      <4> QED
        BY <3>1, <4>1, <4>2
    <3> QED
      BY <2>5, <3>2
  <2>6. CASE r.injected
    <3>1. a = Ask(u, m, d)
      BY <2>6 DEF NetHTTP, Gin, Echo
    <3>2. /\ a.aborted = FALSE
          /\ f = Failed => a.value = d /\ a.error = TRUE
          /\ f # Failed => a.value = As(m, f) /\ a.error = FALSE
      BY <2>4, <3>1 DEF Ask, Reply
    <3>3. CASE ~Evaluable
      <4>1. f = NewDefaultFlag(d)
        BY <3>3 DEF Single
      <4>2. f # Failed
        <5>1. PICK t, v : t \in KnownType /\ f = Flag(t, Only(t, v))
          BY <2>3, <4>1, DefaultFlag
        <5> QED
          BY <5>1 DEF Flag, Failed, KnownType
      <4> QED
        BY <2>3, <2>6, <3>2, <3>3, <4>1, <4>2, DefaultAnswer
    <3>4. CASE Evaluable /\ answers[Side(u)] = "error"
      BY <2>1, <2>6, <3>2, <3>4, SingleServes
    <3>5. CASE Evaluable /\ answers[Side(u)] # "error"
      <4>1. f = Flag(data.type, Place(u)) /\ \A k \in DOMAIN Place(u) : IsValue(Place(u)[k])
        BY <2>1, <3>5, SingleServes
      <4>2. f # Failed
        BY <3>5, <4>1 DEF Flag, Failed, Evaluable, KnownType
      <4>3. ASSUME data.type = OwnType(m), WellTyped(Flag(data.type, Place(u)))
            PROVE  As(m, f) = Place(u)[data.type]
        <5>1. data.type \in DOMAIN Place(u) /\ IsValue(Place(u)[data.type])
          BY <4>1, <4>3 DEF WellTyped, Flag
        <5>2. OwnType(m) = "boolean" => Place(u)["boolean"] \in {Bool(TRUE), Bool(FALSE)}
          BY <4>3, <5>1 DEF WellTyped, Flag, IsValue, Bool
        <5> QED
          BY <4>1, <4>3, <5>1, <5>2, OwnAccessor
      <4> QED
        BY <2>6, <3>2, <3>5, <4>2, <4>3
    <3> QED
      BY <3>3, <3>4, <3>5
  <2> QED
    BY <2>1, <2>5, <2>6
<1> QED
  BY <1>1, ServedType, PTL
=============================================================================
