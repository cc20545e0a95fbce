----------------------------- MODULE ServedFlags -----------------------------
(***************************************************************************)
(* What a program gets for a flag: the value evaluateFlag selects, as the  *)
(* typed getters of the entry point (zenmanage.go) and of the middleware   *)
(* for net/http, Gin and Echo hand it out, with their defaults and errors. *)
(***************************************************************************)
EXTENDS FlagEvaluation, FlagValues

CONSTANTS FlagData,  \* [indexed, type, target, rule]: target and rule have an
                     \* envelope for "base" and for "rollout"
          Default    \* the Go values programs pass as defaults

ASSUME ServedAssumption ==
  /\ \A d \in Default : IsValue(d)
  /\ \A x \in FlagData : \A place \in {x.target, x.rule}, side \in {"base", "rollout"} :
       \A k \in DOMAIN place[side] : IsValue(place[side][k])

VARIABLE data        \* the flag of this key, if it is indexed

ServedInit == Init /\ data \in FlagData
ServedNext == Next /\ UNCHANGED data
ServedSpec == ServedInit /\ [][ServedNext]_<<vars, data>>

-----------------------------------------------------------------------------
Failed == [type |-> "error"]               \* Single answers with an error

Evaluable == data.indexed /\ data.type \in KnownType

\* Single with an inline default, for a user whose rules are loaded.
Single(u, d) ==
  LET e == Evaluated(u, rollout) IN
  IF ~Evaluable THEN NewDefaultFlag(d)
  ELSE IF e[1] = "error" THEN Failed ELSE Flag(data.type, data[e[1]][e[2]])

Getter == {"IsEnabled", "GetString", "GetNumber", "GetJSON"}

\* The accessor of a getter, and the default it passes on.
As(m, f) == CASE m = "IsEnabled" -> IsEnabled(f)
              [] m = "GetString" -> AsString(f)
              [] m = "GetNumber" -> AsNumber(f)
              [] m = "GetJSON"   -> AsJSON(f)
Passed(m, d) == IF m = "IsEnabled" THEN Bool(FALSE) ELSE d

\* The defaults the signature of a getter admits.
Takes(m) == {d \in Default \union {Bool(FALSE)} :
               /\ m = "IsEnabled" => d = Bool(FALSE)
               /\ m = "GetString" => d[1] = "string"
               /\ m = "GetNumber" => d[1] = "float64"
               /\ m = "GetJSON"   => d \in Default}

Reply(v, err) == [value |-> v, error |-> err, aborted |-> FALSE]

\* The getters of the entry point; no user ID is no context.
Ask(u, m, d) ==
  LET f == Single(u, Passed(m, d)) IN
  IF f = Failed THEN Reply(Passed(m, d), TRUE) ELSE Reply(As(m, f), FALSE)

\* A request: its user, and whether InjectFlags has seen it.
Request == [user : User, injected : BOOLEAN]

NetHTTP(r, m, d) ==
  IF r.injected THEN Ask(r.user, m, d) ELSE Reply(Passed(m, d), TRUE)

\* Gin: IsEnabled without a manager also aborts the request.
Gin(r, m, d) ==
  IF r.injected THEN Ask(r.user, m, d)
  ELSE [Reply(Passed(m, d), TRUE) EXCEPT !.aborted = (m = "IsEnabled")]

Echo(r, m, d) ==
  IF r.injected THEN Ask(r.user, m, d) ELSE Reply(Passed(m, d), TRUE)

-----------------------------------------------------------------------------
(* The table of README.md:187-192, for values of the type they are declared*)
(* with.  Nothing validates a payload: a json flag may hold a scalar.      *)

WellTyped(f) ==
  /\ f.type \in KnownType \cap DOMAIN f.envelope
  /\ f.envelope[f.type][1] = (CASE f.type = "boolean" -> "bool"
                                [] f.type = "string"  -> "string"
                                [] f.type = "number"  -> "float64"
                                [] f.type = "json"    -> "structured")

\* A row of the table.
FollowsTable(f) ==
  LET v == f.envelope[f.type] IN
  /\ AsBool(f)   = IF f.type = "boolean" THEN v ELSE Bool(TRUE)
  /\ AsJSON(f)   = IF f.type = "json" THEN v ELSE Doc(EmptyDocument)
  /\ AsString(f) = CASE f.type = "boolean" -> Str(IF v = Bool(TRUE) THEN "true" ELSE "false")
                     [] f.type = "string"  -> v
                     [] f.type = "number"  -> Str(Format[v[2]])
                     [] f.type = "json"    -> Str(EmptyText)
  /\ AsNumber(f) = CASE f.type = "boolean" -> Num(IF v = Bool(TRUE) THEN One ELSE Zero)
                     [] f.type = "string" /\ v[2] \in DOMAIN Parse -> Num(Parse[v[2]])
                     [] f.type = "number"  -> v
                     [] OTHER              -> Num(Zero)

\* Whatever flag a user is served, from the payload or made of a default, its
\* accessors follow the table (flag.go:104-203): its own type is exact, another
\* converts or falls back to its zero value, and a value is never lost for being
\* zero, empty or false.
CoercionTable ==
  \A u \in User, d \in Default :
    Single(u, d) # Failed /\ WellTyped(Single(u, d)) => FollowsTable(Single(u, d))

\* Where a user's value comes from: what it is not is the other three places.
Inside(u) == /\ u \notin Anonymous /\ rollout # NoRollout /\ rollout[1] > 0
             /\ (rollout[1] < 100 => hash[u] % 100 < rollout[1])
Side(u)   == IF Inside(u) THEN "rollout" ELSE "base"
Place(u)  == data[IF answers[Side(u)] = "value" THEN "rule" ELSE "target"][Side(u)]

OwnType(m) == CASE m = "IsEnabled" -> "boolean" [] m = "GetString" -> "string"
                [] m = "GetNumber" -> "number"  [] m = "GetJSON"   -> "json"

\* The four copies of the getters (zenmanage.go:34, middleware.go:60, gin.go:60,
\* echo.go:59) agree for a request: it gets its own default back, with an error,
\* without a manager or if the rules that are active for its user err; its
\* default and no error for a flag that is missing or of an unknown type; and
\* for a flag of the getter's type what the editor put in the one place that is
\* active for its user.  Only GetJSON keeps a default to itself, if it is not
\* structured.
GettersAnswer ==
  \A r \in Request, m \in Getter : \A d \in Takes(m) :
    \A a \in {NetHTTP(r, m, d), Gin(r, m, d), Echo(r, m, d)} \union
             (IF r.injected THEN {Ask(r.user, m, d)} ELSE {}) :
      LET fails == Evaluable /\ answers[Side(r.user)] = "error" IN
      /\ a.error <=> ~r.injected \/ fails
      /\ a.error => a.value = d
      /\ a.aborted => ~r.injected /\ m = "IsEnabled"
      /\ ~a.error /\ ~Evaluable =>
           a.value = IF m = "GetJSON" /\ d[1] # "structured" THEN Doc(EmptyDocument) ELSE d
      /\ ~a.error /\ Evaluable /\ data.type = OwnType(m)
           /\ WellTyped(Flag(data.type, Place(r.user))) =>
           a.value = Place(r.user)[data.type]
=============================================================================
