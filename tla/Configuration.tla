----------------------------- MODULE Configuration -----------------------------
(***************************************************************************)
(* ConfigBuilder (config.go): what a program or its environment gives, and *)
(* what Build accepts and completes.  A builder and a Config have the same *)
(* fields.                                                                 *)
(*                                                                         *)
(* External: package strings and strconv, as functions on the texts given. *)
(***************************************************************************)
EXTENDS Integers

CONSTANTS Trim, Lower, TrimSlash,  \* [Text -> Text]
          Atoi,                    \* the number, of the texts strconv.Atoi takes
          ServerTokens,            \* the texts with prefix srv_
          DefaultEndpoint,
          Optional,                \* the fields a nil or a blank leaves alone
          Second, Hour,            \* durations
          Half                     \* 2^63: durations are in -Half..Half-1

Unset   == ""

ASSUME ConfigAssumption ==
  /\ Half \in Nat \ {0} /\ Second \in Int /\ Hour \in 0..(Half - 1)
  /\ \A t \in DOMAIN Atoi : Atoi[t] \in Int
  /\ DefaultEndpoint # Unset

NoCache == <<"nil">>
Nil     == "nil"                   \* of an optional field; else "given"

Wrap(n) == ((n + Half) % (2 * Half)) - Half

-----------------------------------------------------------------------------
(* Builders.                                                               *)

ZeroBuilder ==                     \* ConfigBuilder{}
  [token |-> Unset, ttl |-> 0, backend |-> Unset, dir |-> Unset, reporting |-> FALSE,
   endpoint |-> Unset, cache |-> NoCache, optional |-> [o \in Optional |-> Nil]]

NewConfigBuilder ==
  [token |-> Unset, ttl |-> Hour, backend |-> "memory", dir |-> Unset, reporting |-> TRUE,
   endpoint |-> DefaultEndpoint, cache |-> NoCache,
   optional |-> [o \in Optional |-> "given"]]

WithEnvironmentToken(b, t) == [b EXCEPT !.token = Trim[t]]
WithCacheTTL(b, d)         == [b EXCEPT !.ttl = d]
WithCacheBackend(b, t)     == [b EXCEPT !.backend = Trim[Lower[t]]]
WithCacheDirectory(b, t)   == [b EXCEPT !.dir = Trim[t]]
WithUsageReporting(b, on)  == [b EXCEPT !.reporting = on]
WithAPIEndpoint(b, t)      == [b EXCEPT !.endpoint = TrimSlash[Trim[t]]]
WithCache(b, c)            == [b EXCEPT !.cache = c]

\* WithLogger, WithHTTPClient, WithClientAgent and WithSDKVersion.
WithOptional(b, o, v) == IF v = Nil THEN b ELSE [b EXCEPT !.optional[o] = v]

Seconds_Raw(n) == Wrap(n)                          \* mutant: taken for a duration
Seconds(n)     == Wrap(n * Second)

\* An environment has a text for each variable, or Unset.
ConfigFromEnvironment(env) ==
  LET v == [n \in DOMAIN env |-> Trim[env[n]]]
      b == NewConfigBuilder
  IN [b EXCEPT
        !.token    = v.token,
        !.ttl      = IF v.ttl \in DOMAIN Atoi THEN Seconds(Atoi[v.ttl]) ELSE @,
        !.backend  = IF v.backend # Unset THEN Trim[Lower[v.backend]] ELSE @,
        !.dir      = v.dir,
        !.reporting = /\ Lower[v.reporting] \notin {"0", "false", "no", "off"}
                      /\ @ \/ Lower[v.reporting] \in {"1", "true", "yes", "on"},
        !.endpoint = IF v.endpoint # Unset THEN TrimSlash[v.endpoint] ELSE @]

-----------------------------------------------------------------------------
(* Build.                                                                  *)

Rejected == [error |-> TRUE]

\* The backend, when no cache was given: a new cache in memory, a directory, or
\* none at all.
Backend(b)  == IF b.backend = Unset THEN "memory" ELSE b.backend
Stores(b, new) ==
  CASE b.cache # NoCache        -> b.cache
    [] Backend(b) = "memory"    -> <<"memory", new>>
    [] Backend(b) = "filesystem" /\ b.dir # Unset -> <<"directory", b.dir>>
    [] Backend(b) = "null"      -> <<"null">>
    [] OTHER                    -> NoCache

Fallback_None(o) == o                              \* mutant: nil stays nil
Fallback(o)      == [k \in DOMAIN o |-> "given"]

\* The builder stays as it is: Build works on a copy.
Build(b, new) ==
  IF \/ b.token \notin ServerTokens                \* or empty
     \/ b.ttl < 0
     \/ Stores(b, new) = NoCache
  THEN Rejected
  ELSE [b EXCEPT !.backend  = Backend(b),
                 !.optional = Fallback(@),
                 !.cache    = Stores(b, new),
                 !.endpoint = IF @ = Unset THEN DefaultEndpoint ELSE @]
=============================================================================
