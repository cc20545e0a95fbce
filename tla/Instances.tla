------------------------------- MODULE Instances -------------------------------
(***************************************************************************)
(* The SDK instances of a program: it configures a builder, builds, passes *)
(* the configuration to New, goes on configuring, and builds again.  Every *)
(* instance keeps its rules under one and the same key (flag_manager.go:10)*)
(* of the cache its configuration names.                                   *)
(*                                                                         *)
(* The steps of a load and their interleavings are FlagManager's; here a   *)
(* load is one step, of the managers of several environments.              *)
(***************************************************************************)
EXTENDS Configuration

CONSTANTS Instance,
          Environments,                \* of the process: variable -> text
          Tokens, Durations, Backends, Directories, Endpoints, CustomCaches,
                                       \* what the program passes to With...
          MaxCalls                     \* bound: calls of With...

ASSUME ProgramAssumption ==
  /\ Durations \subseteq -Half..(Half - 1)
  /\ \A c \in CustomCaches : c[1] = "custom"
  /\ \A env \in Environments :
       DOMAIN env = {"token", "ttl", "backend", "dir", "reporting", "endpoint"}

VARIABLES builder,
          asked,     \* history: the TTL asked for last, as a whole number
          calls,
          built,     \* [Instance -> Config]: or not yet, or Rejected
          wanted,    \* history: what was asked when it was built
          rules,     \* [Instance -> environment]: whose rules the manager has
          stored     \* the caches that have rules -> [of, ttl]

vars == <<builder, asked, calls, built, wanted, rules, stored>>

NotYet  == [error |-> FALSE]
NoRules == <<"none">>

Init ==
  /\ \/ builder = ZeroBuilder /\ asked = 0
     \/ builder = NewConfigBuilder /\ asked = Hour
     \/ \E env \in Environments :
          LET t == Trim[env.ttl] IN
          /\ builder = ConfigFromEnvironment(env)
          /\ asked = IF t \in DOMAIN Atoi THEN Atoi[t] * Second ELSE Hour
  /\ calls = 0
  /\ built  = [i \in Instance |-> NotYet]
  /\ wanted = [i \in Instance |-> 0]
  /\ rules  = [i \in Instance |-> NoRules]
  /\ stored = << >>

-----------------------------------------------------------------------------
(* The builder.                                                            *)

Configure(b, ttl) ==
  /\ calls < MaxCalls /\ calls' = calls + 1
  /\ builder' = b /\ asked' = ttl
  /\ UNCHANGED <<built, wanted, rules, stored>>

With ==
  \/ \E t \in Tokens : Configure(WithEnvironmentToken(builder, t), asked)
  \/ \E d \in Durations : Configure(WithCacheTTL(builder, d), d)
  \/ \E t \in Backends : Configure(WithCacheBackend(builder, t), asked)
  \/ \E t \in Directories : Configure(WithCacheDirectory(builder, t), asked)
  \/ \E on \in BOOLEAN : Configure(WithUsageReporting(builder, on), asked)
  \/ \E t \in Endpoints : Configure(WithAPIEndpoint(builder, t), asked)
  \/ \E c \in CustomCaches \union {NoCache} : Configure(WithCache(builder, c), asked)
  \/ \E o \in Optional, v \in {Nil, "given"} : Configure(WithOptional(builder, o, v), asked)

AfterBuild_Kept(b, c) ==               \* mutant: Build completes the builder itself
  IF c = Rejected THEN b ELSE c
AfterBuild(b, c) == b

\* Build, and New if it accepts.
New(i) ==
  /\ built[i] = NotYet
  /\ LET c == Build(builder, i) IN
       /\ built' = [built EXCEPT ![i] = c]
       /\ builder' = AfterBuild(builder, c)
  /\ wanted' = [wanted EXCEPT ![i] = asked]
  /\ UNCHANGED <<asked, calls, rules, stored>>

-----------------------------------------------------------------------------
(* The flag managers.                                                      *)

Accepted(i) == built[i] \notin {NotYet, Rejected}

\* What the API knows an instance by.
Environment(c) == <<c.token, c.endpoint>>

Keep(c) ==                             \* Cache.Set
  IF c.cache = <<"null">> THEN stored
  ELSE [s \in DOMAIN stored \union {c.cache} |->
          IF s = c.cache THEN [of |-> Environment(c), ttl |-> c.ttl] ELSE stored[s]]
Dropped(s) == [t \in DOMAIN stored \ {s} |-> stored[t]]

\* loadRules of a manager without rules: from the cache, or else from the API.
Load(i) ==
  /\ Accepted(i) /\ rules[i] = NoRules
  /\ LET c == built[i] IN
       \/ /\ c.cache \in DOMAIN stored
          /\ rules' = [rules EXCEPT ![i] = stored[c.cache].of]
          /\ UNCHANGED stored
       \/ /\ c.cache \notin DOMAIN stored
          /\ rules' = [rules EXCEPT ![i] = Environment(c)]
          /\ stored' = Keep(c)
  /\ UNCHANGED <<builder, asked, calls, built, wanted>>

\* RefreshRules, up to its load.
Refresh(i) ==
  /\ Accepted(i) /\ rules[i] # NoRules
  /\ rules' = [rules EXCEPT ![i] = NoRules]
  /\ stored' = Dropped(built[i].cache)
  /\ UNCHANGED <<builder, asked, calls, built, wanted>>

\* An entry has no expiry if its ttl is not positive.
Expire ==
  /\ \E s \in DOMAIN stored : stored[s].ttl > 0 /\ stored' = Dropped(s)
  /\ UNCHANGED <<builder, asked, calls, built, wanted, rules>>

Next == With \/ Expire \/ \E i \in Instance : New(i) \/ Load(i) \/ Refresh(i)
Spec == Init /\ [][Next]_vars

-----------------------------------------------------------------------------
\* An instance has rules of another environment only if an instance of that one
\* was given the same directory or the same custom cache: never through caches
\* in memory that one builder made (config.go:175, :197), nor through a builder
\* that goes on to be configured.
ForeignRulesAreShared ==
  \A i \in Instance : rules[i] # NoRules /\ rules[i] # Environment(built[i]) =>
    /\ built[i].cache[1] \in {"directory", "custom"}
    /\ \E j \in Instance : /\ Accepted(j) /\ built[j].cache = built[i].cache
                           /\ rules[i] = Environment(built[j])

\* Rules are in a cache because an instance of their environment put them there,
\* and for the time the program or its environment had asked for last when that
\* was built, whole seconds or a duration, if it fits 64 bits (config.go:76).
LifetimeIsAsked ==
  \A s \in DOMAIN stored : \E i \in Instance :
    /\ Accepted(i) /\ built[i].cache = s
    /\ stored[s].of = Environment(built[i])
    /\ wanted[i] \in -Half..(Half - 1) => stored[s].ttl = wanted[i]

\* Whatever the order of calls, and from the zero builder too, a configuration
\* Build accepts is one the SDK can run on: New dereferences its cache, logger
\* and client without a check (zenmanage.go:18, flag_manager.go:244).
AcceptedIsUsable ==
  \A i \in Instance : Accepted(i) =>
    LET c == built[i] IN
    /\ c.token \in ServerTokens /\ c.ttl \in 0..(Half - 1) /\ c.endpoint # Unset
    /\ c.cache # NoCache
    /\ \A o \in Optional : c.optional[o] # Nil
=============================================================================
