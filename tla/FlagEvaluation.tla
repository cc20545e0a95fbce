---------------------------- MODULE FlagEvaluation ----------------------------
(***************************************************************************)
(* evaluateFlag (flag_manager.go) and the rollout buckets (rollout.go),    *)
(* for one flag whose rollout is edited from version to version while its  *)
(* users stay the same.  What Evaluate answers for the flag's rules and    *)
(* for those of the rollout is an input: RuleEngine computes it.           *)
(***************************************************************************)
EXTENDS Integers, FiniteSets

CONSTANTS User,       \* the contexts a flag is evaluated for
          Anonymous,  \* those that are nil or have no identifier
          HashValue,  \* the values CRC32B takes (external: hash/crc32)
          Percentage  \* the percentages a rollout is given, of any size

ASSUME EvaluationAssumption ==
  Anonymous \subseteq User /\ HashValue \subseteq Nat /\ Percentage \subseteq Int

VARIABLES hash,     \* of each user: CRC32B(salt + ":" + identifier)
          answers,  \* what Evaluate says of the "base" and "rollout" rules
          rollout   \* data.Rollout

vars == <<hash, answers, rollout>>

NoRollout == << >>       \* a nil data.Rollout; otherwise <<percentage>>
Answers   == {"no match", "value", "error"}  \* of an empty list: no match

Init ==
  /\ hash \in [User -> HashValue]
  /\ answers \in [{"base", "rollout"} -> Answers]
  /\ rollout = NoRollout

\* A new version of the flag: the rollout is started, changed or removed.
Edit(r) == rollout' = r /\ UNCHANGED <<hash, answers>>

Next == Edit(NoRollout) \/ \E p \in Percentage : Edit(<<p>>)
Spec == Init /\ [][Next]_vars

-----------------------------------------------------------------------------
\* IsInBucket: the bucket of a hash is in the first p of 100.
Bucket(h) == h % 100

InBucket_OneMore(h, p) == p >= 100 \/ Bucket(h) <= p  \* mutant: one bucket too many
InBucket_Below(h, p) == p > 0 /\ p < 100 /\ Bucket(h) < p
                                           \* mutant: 100 is out of range
InBucket(h, p) ==
  IF p <= 0 THEN FALSE ELSE IF p >= 100 THEN TRUE ELSE Bucket(h) < p

Identified_All(u) == TRUE                  \* mutant: the identifier is not asked for
Identified(u) == u \notin Anonymous

\* The configuration that is active for a user, under rollout r.
Active(u, r) ==
  IF r # NoRollout /\ Identified(u) /\ InBucket(hash[u], r[1]) THEN "rollout" ELSE "base"

ActiveRules_Any(u, r) == IF r = NoRollout THEN "base" ELSE "rollout"
                                           \* mutant: the rules are taken at once
ActiveRules(u, r) == Active(u, r)

\* evaluateFlag: a rule's value, the active target, or an error.
Evaluated(u, r) ==
  CASE answers[ActiveRules(u, r)] = "error" -> <<"error">>
    [] answers[ActiveRules(u, r)] = "value" -> <<"rule", ActiveRules(u, r)>>
    [] OTHER                                -> <<"target", Active(u, r)>>

-----------------------------------------------------------------------------
\* Raising the percentage of a rollout takes nobody out of it
\* (rollout.go:13-26): the answers of those it had do not change.
RaisingKeepsUsers ==
  [][rollout # NoRollout /\ rollout' # NoRollout /\ rollout[1] <= rollout'[1] =>
       \A u \in User : Active(u, rollout) = "rollout" =>
         /\ Active(u, rollout') = "rollout"
         /\ Evaluated(u, rollout') = Evaluated(u, rollout)]_vars

\* Whoever is outside the rollout gets what the flag without it says
\* (flag_manager.go:206-231): neither its rules, nor its target, nor an error
\* of its rules reaches a user without an identifier or with a later bucket.
OutsideIsUntouched ==
  \A u \in User :
    u \in Anonymous \/ rollout = NoRollout \/ (rollout[1] < 100 /\ hash[u] % 100 >= rollout[1])
      => Evaluated(u, rollout) = Evaluated(u, NoRollout)

\* A rollout of 0 or less has nobody, one of 100 or more everyone who has an
\* identifier, and one of p in between those of p in 100 buckets.
SharesAreExact ==
  rollout # NoRollout =>
    LET p == rollout[1] IN
    /\ p >= 100 => \A u \in User \ Anonymous : Active(u, rollout) = "rollout"
    /\ p <= 0   => \A u \in User : Active(u, rollout) = "base"
    /\ p \in 0..100 => Cardinality({h \in 0..99 : InBucket(h, p)}) = p
=============================================================================
