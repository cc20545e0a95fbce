---------------------------- MODULE MCFlagManager ----------------------------
(* Small instances of FlagManager for TLC.                                 *)
EXTENDS FlagManager, TLC

MCKnown   == "boolean"
MCUnknown == "future"

F(k, t, b) == [key |-> k, type |-> t, broken |-> b]

\* Version 1 has a flag and one of a type this release does not know; in
\* version 2 the first key is duplicated, and the second flag's rules do not
\* evaluate.  The document of another program, {}, has no flags.
MCPayload == (Foreign :> << >>)
  @@ (1 :> << F("a", MCKnown, FALSE), F("b", MCUnknown, FALSE) >>)
  @@ (2 :> << F("a", MCKnown, FALSE), F("a", MCUnknown, FALSE),
              F("b", MCKnown, TRUE) >>)

\* Two flags to list in each version, in different orders, and in version 2 one of
\* an unknown type before them.
LoopPayload == (Foreign :> << >>)
  @@ (1 :> << F("a", MCKnown, FALSE), F("b", MCKnown, FALSE) >>)
  @@ (2 :> << F("b", MCUnknown, FALSE), F("b", MCKnown, FALSE),
              F("a", MCKnown, FALSE) >>)

Single(k, i) == [op |-> "single", key |-> k, inline |-> i]
All          == [op |-> "all", key |-> "a", inline |-> FALSE]
Refresh      == [op |-> "refresh", key |-> "a", inline |-> FALSE]

LoopCalls    == {All, Refresh}
EveryCall    == {Single(k, i) : k \in {"a", "b"}, i \in BOOLEAN} \union {All, Refresh}

Symmetric == Permutations(Goroutine)
=============================================================================
