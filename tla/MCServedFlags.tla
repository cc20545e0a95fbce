---------------------------- MODULE MCServedFlags ----------------------------
(* Hashes on both sides of the bucket boundaries, percentages inside and   *)
(* outside 0..100; flags of every type, with a value of their own in each  *)
(* place it can come from, and some that a payload may hold and should not.*)
EXTENDS ServedFlags, TLC

MCHash       == {0, 49, 50, 99, 100, 2147483647}
MCPercentage == {-1, 0, 1, 49, 50, 51, 99, 100, 101}

MCText   == {"", "true", "false", "0", "1", "8", "x"}
MCFormat == (0 :> "0") @@ (1 :> "1") @@ (8 :> "8")
MCParse  == ("0" :> 0) @@ ("8" :> 8)
MCFloat  == (8 :> 8) @@ (9 :> 8)          \* nine has one bit too many

\* A flag whose four places hold a, b, c and d.
Of(type, member, a, b, c, d) ==
  [indexed |-> TRUE, type |-> type,
   target |-> [base |-> Only(member, a), rollout |-> Only(member, b)],
   rule   |-> [base |-> Only(member, c), rollout |-> Only(member, d)]]

MCFlagData ==
  { Of("boolean", "boolean", Bool(FALSE), Bool(TRUE), Bool(TRUE), Bool(FALSE)),
    Of("string", "string", Str(""), Str("8"), Str("x"), Str("false")),
    Of("number", "number", Num(0), Num(1), Num(8), Num(0)),
    Of("json", "json", Doc("{}"), Doc("d1"), Doc("d2"), Doc("[]")),
    Of("json", "json", Bool(FALSE), Num(8), Str("x"), Doc("d1")),
    Of("boolean", "string", Str("x"), Str("x"), Str("x"), Str("x")),
    Of("future", "string", Str("x"), Str("8"), Str("0"), Str("")),
    [Of("string", "string", Str("x"), Str("x"), Str("x"), Str("x"))
       EXCEPT !.indexed = FALSE] }

MCDefault == {Bool(TRUE), Str("x"), Num(8), Whole(9), Doc("d1"), Doc("{}"), Other("nil")}
=============================================================================
