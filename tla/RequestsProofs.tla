---------------------------- MODULE RequestsProofs ----------------------------
(***************************************************************************)
(* For any number of instances and requests, whatever they do.             *)
(*                                                                         *)
(* Instances: what is in a cache, or in a manager, was put there by an     *)
(* instance that has that very cache; a cache in memory is of one instance *)
(* only, and the builder keeps what was asked of it.                       *)
(*                                                                         *)
(* Requests: what a handler edits never gets into the cache, and a manager *)
(* derived from one with rules answers as that one does.  The first rests  *)
(* on who can reach decoded rules: until they are installed, only the      *)
(* request that fetched or decoded them.  The second rests on the lines of *)
(* managers: those of one line have the same rules, and have some if there *)
(* are several, so that one that loads rules is alone in its line.         *)
(*                                                                         *)
(* Contexts: what a request adds to its copy of a context nobody else sees.*)
(* It rests on who holds an array: behind a context of NewContext there is *)
(* no room, so that a copy that is added to gets an array of its own, and  *)
(* what it writes there is behind what its manager and its reports have.   *)
(***************************************************************************)
EXTENDS Requests, SequenceTheorems, TLAPS

-----------------------------------------------------------------------------
(* Instances.                                                              *)

Fields == {"token", "ttl", "backend", "dir", "reporting", "endpoint", "cache", "optional"}

BuilderInv ==
  /\ DOMAIN builder = Fields /\ DOMAIN builder.optional = Optional
  /\ builder.ttl \in -Half..(Half - 1)
  /\ builder.cache = NoCache \/ builder.cache[1] = "custom"
  /\ asked \in -Half..(Half - 1) => builder.ttl = asked

\* A cache in memory is of one instance.
CacheOf(c, i) == c[1] \in {"directory", "custom"} \/ c \in {<<"memory", i>>, <<"null">>}

Usable(c) ==
  /\ c.token \in ServerTokens /\ c.ttl \in 0..(Half - 1) /\ c.endpoint # Unset
  /\ c.cache # NoCache
  /\ \A o \in Optional : c.optional[o] # Nil

BuiltInv ==
  \A i \in Instance : Accepted(i) =>
    /\ Usable(built[i]) /\ CacheOf(built[i].cache, i)
    /\ wanted[i] \in -Half..(Half - 1) => built[i].ttl = wanted[i]

LEMMA WrapBounds ==
  ASSUME NEW n \in Int
  PROVE  /\ Wrap(n) \in -Half..(Half - 1)
         /\ n \in -Half..(Half - 1) => Wrap(n) = n
BY ConfigAssumption DEF Wrap

LEMMA StoresWhat ==
  ASSUME NEW b, NEW i, b.cache = NoCache \/ b.cache[1] = "custom"
  PROVE  Stores(b, i) = NoCache \/ CacheOf(Stores(b, i), i)
<1>1. CASE b.cache # NoCache
  BY <1>1 DEF Stores, CacheOf
<1>2. CASE b.cache = NoCache /\ Backend(b) = "memory"
  BY <1>2 DEF Stores, CacheOf
<1>3. CASE b.cache = NoCache /\ Backend(b) = "filesystem" /\ b.dir # Unset
  BY <1>3 DEF Stores, CacheOf
<1>4. CASE b.cache = NoCache /\ Backend(b) = "null"
  BY <1>4 DEF Stores, CacheOf
<1>5. CASE /\ b.cache = NoCache /\ Backend(b) # "memory" /\ Backend(b) # "null"
           /\ ~(Backend(b) = "filesystem" /\ b.dir # Unset)
  BY <1>5 DEF Stores, CacheOf
<1> QED
  BY <1>1, <1>2, <1>3, <1>4, <1>5

LEMMA BuildIsUsable ==
  ASSUME BuilderInv, NEW i, Build(builder, i) # Rejected
  PROVE  /\ Usable(Build(builder, i)) /\ CacheOf(Build(builder, i).cache, i)
         /\ Build(builder, i).ttl = builder.ttl
<1> DEFINE c == Build(builder, i)
<1>1. builder.token \in ServerTokens /\ ~(builder.ttl < 0) /\ Stores(builder, i) # NoCache
  BY DEF Build
<1>2. c = [builder EXCEPT !.backend  = Backend(builder),
                          !.optional = Fallback(builder.optional),
                          !.cache    = Stores(builder, i),
                          !.endpoint = IF builder.endpoint = Unset THEN DefaultEndpoint
                                       ELSE builder.endpoint]
  BY <1>1 DEF Build
<1> HIDE DEF c
<1>3. /\ c.token = builder.token /\ c.ttl = builder.ttl
      /\ c.optional = Fallback(builder.optional) /\ c.cache = Stores(builder, i)
      /\ c.endpoint = IF builder.endpoint = Unset THEN DefaultEndpoint ELSE builder.endpoint
  BY <1>2 DEF BuilderInv, Fields
<1>4. c.endpoint # Unset
  BY <1>3, ConfigAssumption
<1>5. c.ttl \in 0..(Half - 1)
  BY <1>1, <1>3, ConfigAssumption DEF BuilderInv
<1>6. \A o \in Optional : c.optional[o] # Nil
  BY <1>3 DEF BuilderInv, Fallback, Nil
<1>7. CacheOf(c.cache, i)
  BY <1>1, <1>3, StoresWhat DEF BuilderInv
<1> QED
  BY <1>1, <1>3, <1>4, <1>5, <1>6, <1>7 DEF c, Usable

\* What is in a cache, and what a manager has, an instance with that cache got.
FromAnInstance(s, e) ==
  \E j \in Instance : Accepted(j) /\ built[j].cache = s /\ e = Environment(built[j])

StoredInv ==
  /\ \A s \in DOMAIN stored : s # <<"null">>
  /\ LifetimeIsAsked

RulesInv ==
  \A i \in Instance : rules[i] # NoRules =>
    /\ Accepted(i)
    /\ FromAnInstance(built[i].cache, rules[i])
    /\ built[i].cache = <<"null">> => rules[i] = Environment(built[i])

InstanceInv ==
  /\ DOMAIN built = Instance /\ DOMAIN wanted = Instance /\ DOMAIN rules = Instance
  /\ BuilderInv /\ BuiltInv /\ StoredInv /\ RulesInv

LEMMA Begins == Init => InstanceInv
<1> SUFFICES ASSUME Init PROVE InstanceInv
  OBVIOUS
<1>1. /\ DOMAIN built = Instance /\ DOMAIN wanted = Instance /\ DOMAIN rules = Instance
      /\ BuiltInv /\ StoredInv /\ RulesInv
  BY DEF Init, BuiltInv, StoredInv, RulesInv, LifetimeIsAsked, Accepted
<1>2. BuilderInv
  <2>1. CASE builder = ZeroBuilder /\ asked = 0
    BY <2>1, ConfigAssumption DEF ZeroBuilder, BuilderInv, Fields
  <2>2. CASE builder = NewConfigBuilder /\ asked = Hour
    BY <2>2, ConfigAssumption DEF NewConfigBuilder, BuilderInv, Fields
  <2>3. ASSUME NEW env \in Environments, builder = ConfigFromEnvironment(env),
               asked = IF Trim[env.ttl] \in DOMAIN Atoi
                       THEN Atoi[Trim[env.ttl]] * Second ELSE Hour
        PROVE  BuilderInv
    <3> DEFINE t == Trim[env.ttl]
    <3>1. /\ DOMAIN builder = Fields /\ DOMAIN builder.optional = Optional
          /\ builder.cache = NoCache
      BY <2>3 DEF ConfigFromEnvironment, NewConfigBuilder, Fields
    <3>2. builder.ttl = IF t \in DOMAIN Atoi THEN Wrap(Atoi[t] * Second) ELSE Hour
      BY <2>3, ProgramAssumption DEF ConfigFromEnvironment, NewConfigBuilder, Seconds
    <3>3. t \in DOMAIN Atoi => Atoi[t] * Second \in Int
      BY ConfigAssumption
    <3> QED
      BY <2>3, <3>1, <3>2, <3>3, WrapBounds, ConfigAssumption DEF BuilderInv
  <2> QED
    BY <2>1, <2>2, <2>3 DEF Init
<1> QED
  BY <1>1, <1>2 DEF InstanceInv

LEMMA Configures ==
  ASSUME BuilderInv, With
  PROVE  BuilderInv'
<1> USE DEF BuilderInv, Configure, Fields
<1>1. ASSUME NEW t \in Tokens, Configure(WithEnvironmentToken(builder, t), asked)
      PROVE  BuilderInv'
  BY <1>1 DEF WithEnvironmentToken
<1>2. ASSUME NEW d \in Durations, Configure(WithCacheTTL(builder, d), d)
      PROVE  BuilderInv'
  BY <1>2, ProgramAssumption DEF WithCacheTTL
<1>3. ASSUME NEW t \in Backends, Configure(WithCacheBackend(builder, t), asked)
      PROVE  BuilderInv'
  BY <1>3 DEF WithCacheBackend
<1>4. ASSUME NEW t \in Directories, Configure(WithCacheDirectory(builder, t), asked)
      PROVE  BuilderInv'
  BY <1>4 DEF WithCacheDirectory
<1>5. ASSUME NEW on \in BOOLEAN, Configure(WithUsageReporting(builder, on), asked)
      PROVE  BuilderInv'
  BY <1>5 DEF WithUsageReporting
<1>6. ASSUME NEW t \in Endpoints, Configure(WithAPIEndpoint(builder, t), asked)
      PROVE  BuilderInv'
  BY <1>6 DEF WithAPIEndpoint
<1>7. ASSUME NEW c \in CustomCaches \union {NoCache}, Configure(WithCache(builder, c), asked)
      PROVE  BuilderInv'
  BY <1>7, ProgramAssumption DEF WithCache
<1>8. ASSUME NEW o \in Optional, NEW v \in {Nil, "given"},
             Configure(WithOptional(builder, o, v), asked)
      PROVE  BuilderInv'
  BY <1>8 DEF WithOptional
<1> HIDE DEF BuilderInv, Configure, Fields
<1> QED
  BY <1>1, <1>2, <1>3, <1>4, <1>5, <1>6, <1>7, <1>8 DEF With

LEMMA News ==
  ASSUME InstanceInv, NEW i \in Instance, New(i)
  PROVE  InstanceInv'
<1> USE DEF InstanceInv
<1> DEFINE c == Build(builder, i)
<1>1. /\ built[i] = NotYet /\ built' = [built EXCEPT ![i] = c]
      /\ wanted' = [wanted EXCEPT ![i] = asked]
      /\ UNCHANGED <<builder, asked, rules, stored>>
  BY DEF New, AfterBuild
<1> HIDE DEF c
<1>2. \A j \in Instance : Accepted(j) => /\ Accepted(j)' /\ j # i
                                         /\ built'[j] = built[j] /\ wanted'[j] = wanted[j]
  BY <1>1 DEF Accepted
<1>3. BuilderInv'
  BY <1>1 DEF BuilderInv
<1>4. BuiltInv'
  <2>1. Accepted(i)' => /\ Usable(c) /\ CacheOf(c.cache, i) /\ c.ttl = builder.ttl
    BY <1>1, BuildIsUsable DEF Accepted, c
  <2>2. \A j \in Instance : j # i =>
          built'[j] = built[j] /\ wanted'[j] = wanted[j] /\ (Accepted(j)' <=> Accepted(j))
    BY <1>1 DEF Accepted
  <2>3. Accepted(i)' => /\ Usable(built'[i]) /\ CacheOf(built'[i].cache, i)
                        /\ wanted'[i] \in -Half..(Half - 1) => built'[i].ttl = wanted'[i]
    BY <1>1, <2>1 DEF BuilderInv
  <2> QED
    BY <2>2, <2>3 DEF BuiltInv
<1>5. StoredInv'
  <2> SUFFICES ASSUME NEW s \in DOMAIN stored PROVE s # <<"null">> /\
               \E j \in Instance :
                 /\ Accepted(j)' /\ built'[j].cache = s
                 /\ stored[s].of = Environment(built'[j])
                 /\ wanted'[j] \in -Half..(Half - 1) => stored[s].ttl = wanted'[j]
    BY <1>1 DEF StoredInv, LifetimeIsAsked
  <2> QED
    BY <1>2 DEF StoredInv, LifetimeIsAsked
<1>6. RulesInv'
  BY <1>1, <1>2 DEF RulesInv, FromAnInstance
<1> QED
  BY <1>1, <1>3, <1>4, <1>5, <1>6

LEMMA Loads ==
  ASSUME InstanceInv, NEW i \in Instance, Load(i)
  PROVE  InstanceInv'
<1> USE DEF InstanceInv
<1> DEFINE c == built[i]
<1>1. /\ Accepted(i) /\ rules[i] = NoRules
      /\ UNCHANGED <<builder, asked, built, wanted>>
  BY DEF Load
<1>2. BuilderInv' /\ BuiltInv' /\ \A j \in Instance : Accepted(j)' <=> Accepted(j)
  BY <1>1 DEF BuilderInv, BuiltInv, Accepted
<1>3. CASE /\ c.cache \in DOMAIN stored
           /\ rules' = [rules EXCEPT ![i] = stored[c.cache].of]
           /\ UNCHANGED stored
  <2>1. StoredInv'
    BY <1>1, <1>3 DEF StoredInv, LifetimeIsAsked, Accepted
  <2>2. FromAnInstance(c.cache, stored[c.cache].of) /\ c.cache # <<"null">>
    BY <1>3 DEF StoredInv, LifetimeIsAsked, FromAnInstance
  <2>3. RulesInv'
    BY <1>1, <1>3, <2>2 DEF RulesInv, FromAnInstance, Accepted
  <2> QED
    BY <1>1, <1>2, <1>3, <2>1, <2>3
<1>4. CASE /\ rules' = [rules EXCEPT ![i] = Environment(c)]
           /\ stored' = Keep(c)
  <2>1. StoredInv'
    <3>1. CASE c.cache = <<"null">>
      BY <1>1, <1>4, <3>1 DEF Keep, StoredInv, LifetimeIsAsked, Accepted
    <3>2. CASE c.cache # <<"null">>
      <4>1. /\ DOMAIN stored' = DOMAIN stored \union {c.cache}
            /\ stored'[c.cache] = [of |-> Environment(c), ttl |-> c.ttl]
            /\ \A s \in DOMAIN stored : s # c.cache => stored'[s] = stored[s]
        BY <1>4, <3>2 DEF Keep
      <4>2. wanted[i] \in -Half..(Half - 1) => c.ttl = wanted[i]
        BY <1>1 DEF BuiltInv
      <4> SUFFICES ASSUME NEW s \in DOMAIN stored \union {c.cache} PROVE s # <<"null">> /\
                   \E j \in Instance :
                     /\ Accepted(j) /\ built[j].cache = s
                     /\ stored'[s].of = Environment(built[j])
                     /\ wanted[j] \in -Half..(Half - 1) => stored'[s].ttl = wanted[j]
        BY <1>1, <4>1 DEF StoredInv, LifetimeIsAsked, Accepted
      <4>3. CASE s = c.cache
        BY <1>1, <3>2, <4>1, <4>2, <4>3
      <4>4. CASE s # c.cache
        BY <4>1, <4>4 DEF StoredInv, LifetimeIsAsked
      <4> QED
        BY <4>3, <4>4
    <3> QED
      BY <3>1, <3>2
  <2>2. RulesInv'
    BY <1>1, <1>4 DEF RulesInv, FromAnInstance, Accepted
  <2> QED
    BY <1>1, <1>2, <1>4, <2>1, <2>2
<1> QED
  BY <1>3, <1>4 DEF Load

LEMMA Drops ==
  ASSUME InstanceInv, NEW s, stored' = Dropped(s),
         UNCHANGED <<builder, asked, built, wanted>>,
         \/ UNCHANGED rules
         \/ \E i \in Instance : rules' = [rules EXCEPT ![i] = NoRules]
  PROVE  InstanceInv'
<1> USE DEF InstanceInv
<1>1. BuilderInv' /\ BuiltInv'
  BY DEF BuilderInv, BuiltInv, Accepted
<1>2. StoredInv'
  BY DEF StoredInv, LifetimeIsAsked, Accepted, Dropped
<1>3. RulesInv' /\ DOMAIN rules' = Instance
  BY DEF RulesInv, FromAnInstance, Accepted
<1> QED
  BY <1>1, <1>2, <1>3

LEMMA InstanceStep == InstanceInv /\ [Next]_vars => InstanceInv'
<1> SUFFICES ASSUME InstanceInv, [Next]_vars PROVE InstanceInv'
  OBVIOUS
<1>1. CASE With
  <2>1. BuilderInv' /\ UNCHANGED <<built, wanted, rules, stored>>
    BY <1>1, Configures DEF InstanceInv, With, Configure
  <2> QED
    BY <2>1
    DEF InstanceInv, BuiltInv, StoredInv, LifetimeIsAsked, RulesInv, FromAnInstance, Accepted
<1>2. CASE Expire
  BY <1>2, Drops DEF Expire
<1>3. ASSUME NEW i \in Instance, New(i) PROVE InstanceInv'
  BY <1>3, News
<1>4. ASSUME NEW i \in Instance, Load(i) PROVE InstanceInv'
  BY <1>4, Loads
<1>5. ASSUME NEW i \in Instance, Refresh(i) PROVE InstanceInv'
  BY <1>5, Drops DEF Refresh
<1>6. CASE UNCHANGED vars
  BY <1>6
  DEF vars, InstanceInv, BuilderInv, BuiltInv, StoredInv, LifetimeIsAsked, RulesInv,
      FromAnInstance, Accepted
<1> QED
  BY <1>1, <1>2, <1>3, <1>4, <1>5, <1>6 DEF Next

LEMMA Consequences ==
  ASSUME InstanceInv
  PROVE  AcceptedIsUsable /\ LifetimeIsAsked /\ ForeignRulesAreShared
<1> USE DEF InstanceInv
<1>1. AcceptedIsUsable
  BY DEF BuiltInv, Usable, AcceptedIsUsable
<1>2. LifetimeIsAsked
  BY DEF StoredInv
<1>3. ForeignRulesAreShared
  <2> SUFFICES ASSUME NEW i \in Instance, rules[i] # NoRules,
                      rules[i] # Environment(built[i])
               PROVE  /\ built[i].cache[1] \in {"directory", "custom"}
                      /\ FromAnInstance(built[i].cache, rules[i])
    BY DEF ForeignRulesAreShared, FromAnInstance
  <2>1. PICK j \in Instance : /\ Accepted(j) /\ built[j].cache = built[i].cache
                              /\ rules[i] = Environment(built[j])
    BY DEF RulesInv, FromAnInstance
  <2>2. j # i /\ built[i].cache # <<"null">>
    BY <2>1 DEF RulesInv
  <2>3. CacheOf(built[i].cache, i) /\ CacheOf(built[i].cache, j)
    BY <2>1 DEF BuiltInv, RulesInv
  <2>4. built[i].cache[1] \in {"directory", "custom"}
    BY <2>2, <2>3 DEF CacheOf
  <2> QED
    BY <2>4 DEF RulesInv
<1> QED
  BY <1>1, <1>2, <1>3

-----------------------------------------------------------------------------
(* Requests.                                                               *)

Decoded == [version : Nat, edits : SUBSET Handler]
Place   == 0..Len(heap)
Stops   == {"idle", "handling", "delete", "read", "lookup", "fetch", "store", "install",
            "loaded"}
Seen    == [at : Nat, edits : SUBSET Handler, line : Nat]

WebTypes ==
  /\ server \in Nat /\ entry \in Decoded /\ heap \in Seq(Decoded)
  /\ root \in Place /\ idx \in [Handler -> Place] /\ using \in [Handler -> Nat]
  /\ clone \in [Handler -> Seq(Nat)] /\ line \in [Handler -> Seq(Nat)]
  /\ lines \in [Handler -> Nat] /\ seen \in [Handler -> Seq(Seen)]
  /\ pc \in [Handler -> Stops]

\* What a request has, there is.
Reached(h) ==
  /\ Len(line[h]) = Len(clone[h])
  /\ using[h] \in {Shared} \union DOMAIN clone[h]
  /\ \A m \in DOMAIN clone[h] : clone[h][m] \in Place
  /\ \A k \in DOMAIN seen[h] : seen[h][k].at \in Place

\* Managers of one line have the same rules, those of its answers.
Lined(h) ==
  /\ \A m \in DOMAIN clone[h] : line[h][m] \in 1..lines[h]
  /\ \A k \in DOMAIN seen[h] : seen[h][k].line \in 0..lines[h]
  /\ \A m, n \in DOMAIN clone[h] : m # n /\ line[h][m] = line[h][n] =>
       clone[h][m] = clone[h][n] /\ clone[h][m] # Unloaded
  /\ \A m \in DOMAIN clone[h], k \in DOMAIN seen[h] :
       seen[h][k].line = line[h][m] /\ seen[h][k].at # Unloaded =>
         clone[h][m] = seen[h][k].at

\* A manager of a request's own changes its rules only if it has none.
Steady(h) ==
  using[h] # Shared =>
    /\ pc[h] \in {"lookup", "fetch", "store", "install"} => clone[h][using[h]] = Unloaded
    /\ pc[h] = "loaded" => idx[h] = clone[h][using[h]]

Consistent(h) ==
  \A j, k \in DOMAIN seen[h] :
    j < k /\ SameLine(seen[h][j], seen[h][k]) /\ seen[h][j].at # Unloaded =>
      seen[h][k].at = seen[h][j].at

RequestInv(h) == Reached(h) /\ Lined(h) /\ Steady(h) /\ Consistent(h)

\* Rules that others than the request which loads them can have: those of a manager,
\* and those of an answer.
Out(o) ==
  \/ o = root
  \/ \E h \in Handler : \/ \E m \in DOMAIN clone[h] : clone[h][m] = o
                        \/ \E k \in DOMAIN seen[h] : seen[h][k].at = o

\* Rules that are not installed yet belong to one request.
Holding == {"store", "install"}
Hidden(h) ==
  /\ idx[h] # Unloaded /\ ~Out(idx[h])
  /\ \A g \in Handler \ {h} : idx[g] # idx[h]
Private == \A h \in Handler : pc[h] \in Holding => Hidden(h)

WebInv ==
  /\ WebTypes /\ Private /\ EditsStayInMemory
  /\ \A h \in Handler : RequestInv(h)

-----------------------------------------------------------------------------
LEMMA InitInv == WebInit => WebInv
<1> SUFFICES ASSUME WebInit PROVE WebInv
  OBVIOUS
<1>1. WebTypes
  <2>1. entry \in Decoded /\ heap \in Seq(Decoded) /\ heap = << >>
    BY DEF WebInit, Decoded, NoEntry
  <2>2. Unloaded \in Place
    BY <2>1 DEF Place, Unloaded
  <2>3. idx \in [Handler -> Place] /\ root \in Place /\ using \in [Handler -> Nat]
    BY <2>2 DEF WebInit, Shared
  <2>4. pc \in [Handler -> Stops] /\ server \in Nat /\ lines \in [Handler -> Nat]
    BY DEF WebInit, Stops
  <2>5. /\ clone \in [Handler -> Seq(Nat)] /\ line \in [Handler -> Seq(Nat)]
        /\ seen \in [Handler -> Seq(Seen)]
    BY EmptySeq DEF WebInit
  <2> QED
    BY <2>1, <2>3, <2>4, <2>5 DEF WebTypes
<1>2. ASSUME NEW h \in Handler PROVE RequestInv(h)
  <2>1. /\ clone[h] = << >> /\ line[h] = << >> /\ seen[h] = << >> /\ using[h] = Shared
        /\ DOMAIN clone[h] = {} /\ DOMAIN seen[h] = {}
    BY DEF WebInit
  <2> QED
    BY <2>1 DEF RequestInv, Reached, Lined, Steady, Consistent
<1>3. Private /\ EditsStayInMemory
  BY DEF WebInit, Private, Holding, EditsStayInMemory, NoEntry
<1> QED
  BY <1>1, <1>2, <1>3 DEF WebInv

\* The heap after a document is decoded.
LEMMA HeapGrows ==
  ASSUME heap \in Seq(Decoded), NEW e \in Decoded, heap' = Append(heap, e)
  PROVE  /\ heap' \in Seq(Decoded) /\ Len(heap') = Len(heap) + 1 /\ heap'[Len(heap')] = e
         /\ \A k \in 1..Len(heap) : heap'[k] = heap[k]
OBVIOUS

LEMMA SequenceEdited ==
  ASSUME NEW S, NEW s \in Seq(S), NEW i \in 1..Len(s), NEW e \in S
  PROVE  [s EXCEPT ![i] = e] \in Seq(S) /\ Len([s EXCEPT ![i] = e]) = Len(s)
BY ExceptSeq

\* The heap after a handler edits rules.
LEMMA HeapEdited ==
  ASSUME heap \in Seq(Decoded), NEW i \in 1..Len(heap), NEW h \in Handler,
         heap' = [heap EXCEPT ![i].edits = @ \union {h}]
  PROVE  /\ heap' \in Seq(Decoded) /\ Len(heap') = Len(heap)
         /\ \A k \in 1..Len(heap) : k # i => heap'[k] = heap[k]
<1> DEFINE e == [heap[i] EXCEPT !.edits = @ \union {h}]
<1>1. e \in Decoded
  <2>1. heap[i] \in Decoded
    OBVIOUS
  <2>2. heap[i].edits \union {h} \in SUBSET Handler
    BY <2>1 DEF Decoded
  <2> QED
    BY <2>1, <2>2 DEF Decoded
<1>2. heap' = [heap EXCEPT ![i] = e]
  OBVIOUS
<1>3. heap' \in Seq(Decoded) /\ Len(heap') = Len(heap)
  BY <1>1, <1>2, SequenceEdited
<1> QED
  BY <1>2, <1>3

-----------------------------------------------------------------------------
(* Frames.                                                                 *)

\* Once more rules are decoded, every place there was is still one.
LEMMA PlacesGrow ==
  ASSUME WebTypes, heap' \in Seq(Decoded), Len(heap) <= Len(heap')
  PROVE  Place \subseteq Place' /\ Unloaded \in Place'
<1>1. Len(heap) \in Nat /\ Len(heap') \in Nat
  BY DEF WebTypes
<1> QED
  BY <1>1 DEF Place, Unloaded

\* What is out is in the heap, and so is what a manager has.
LEMMA OutIsThere ==
  ASSUME WebInv
  PROVE  /\ \A o : Out(o) => o \in Place
         /\ \A h \in Handler : \A m \in {Shared} \union DOMAIN clone[h] :
              Rules(h, m) \in Place /\ Out(Rules(h, m))
<1>1. ASSUME NEW o, Out(o) PROVE o \in Place
  BY <1>1 DEF WebInv, WebTypes, Out, RequestInv, Reached
<1>2. ASSUME NEW h \in Handler, NEW m \in {Shared} \union DOMAIN clone[h]
      PROVE  Out(Rules(h, m))
  BY DEF Rules, Out
<1> QED
  BY <1>1, <1>2

LEMMA Others ==
  ASSUME WebTypes, NEW g \in Handler, RequestInv(g), Place \subseteq Place',
         UNCHANGED <<clone[g], line[g], lines[g], seen[g], using[g], pc[g], idx[g]>>
  PROVE  RequestInv(g)'
BY DEF RequestInv, Reached, Lined, Steady, Consistent

\* A step of a call that leaves the request's managers and answers as they are.
LEMMA Proceeds ==
  ASSUME WebTypes, NEW h \in Handler, RequestInv(h), Place \subseteq Place',
         UNCHANGED <<clone[h], line[h], lines[h], seen[h]>>,
         using'[h] \in {Shared} \union DOMAIN clone[h], Steady(h)'
  PROVE  RequestInv(h)'
<1>1. Reached(h)' /\ Consistent(h)'
  BY DEF RequestInv, Reached, Consistent
<1>2. Lined(h)'
  BY DEF RequestInv, Lined
<1> QED
  BY <1>1, <1>2 DEF RequestInv

LEMMA StaysPrivate ==
  ASSUME Private, NEW h \in Handler,
         \A g \in Handler \ {h} : pc'[g] = pc[g] /\ idx'[g] = idx[g],
         \A o : Out(o)' => Out(o) \/ o = Unloaded \/ o = idx[h],
         NEW i, i = idx'[h],
         i \in {Unloaded, idx[h]} \/ Out(i) \/ \A g \in Handler : idx[g] # i,
         pc'[h] \in Holding => Hidden(h)'
  PROVE  Private'
<1> SUFFICES ASSUME NEW g \in Handler, pc'[g] \in Holding PROVE Hidden(g)'
  BY DEF Private
<1>1. CASE g = h
  BY <1>1
<1>2. CASE g # h
  <2>1. /\ idx'[g] = idx[g] /\ idx[g] # Unloaded /\ ~Out(idx[g])
        /\ \A f \in Handler \ {g} : idx[f] # idx[g]
    BY <1>2 DEF Private, Hidden
  <2>2. idx'[h] # idx[g] /\ idx[h] # idx[g]
    BY <1>2, <2>1
  <2>3. \A f \in Handler \ {g} : idx'[f] # idx'[g]
    BY <2>1, <2>2
  <2>4. ~Out(idx[g])'
    BY <2>1, <2>2
  <2> QED
    BY <2>1, <2>3, <2>4 DEF Hidden
<1> QED
  BY <1>1, <1>2

\* Contexts and reports, and the outside, have no part in this.
LEMMA StandStill ==
  ASSUME WebInv, server' \in Nat, entry' \in Decoded, entry'.edits = {},
         UNCHANGED <<heap, root, pc, clone, line, lines, using, idx, seen>>
  PROVE  WebInv'
<1> USE DEF WebInv
<1>1. WebTypes' /\ Place' = Place
  BY DEF WebTypes, Place
<1>2. Private' /\ EditsStayInMemory'
  BY DEF Private, Hidden, Holding, Out, EditsStayInMemory
<1>3. ASSUME NEW g \in Handler PROVE RequestInv(g)'
  BY <1>1, Others
<1> QED
  BY <1>1, <1>2, <1>3

\* A step of request h, by what it keeps of the others.
LEMMA OneRequest ==
  ASSUME WebInv, NEW h \in Handler, WebTypes', Place \subseteq Place',
         \A g \in Handler \ {h} :
           UNCHANGED <<clone[g], line[g], lines[g], seen[g], using[g], pc[g], idx[g]>>,
         RequestInv(h)', Private', EditsStayInMemory'
  PROVE  WebInv'
<1>1. ASSUME NEW g \in Handler, g # h PROVE RequestInv(g)'
  BY <1>1, Others DEF WebInv
<1> QED
  BY <1>1 DEF WebInv

-----------------------------------------------------------------------------
(* Managers.                                                               *)

\* One more, of the line of that it was derived from, or of a new one.
LEMMA DeriveInv ==
  ASSUME WebInv, NEW h \in Handler, NEW m \in {Shared} \union DOMAIN clone[h], NEW c,
         Derive(h, m, c), pc[h] \in {"idle", "handling"},
         pc' = [pc EXCEPT ![h] = "handling"], UNCHANGED <<loading, using, idx, seen>>
  PROVE  WebInv'
<1> DEFINE e == Rules(h, m)
           l == IF m # Shared /\ e # Unloaded THEN line[h][m] ELSE lines[h] + 1
           n == Len(clone[h]) + 1
<1>1. /\ UNCHANGED <<server, entry, heap, root, using, idx, seen>>
      /\ clone' = [clone EXCEPT ![h] = Append(@, e)]
      /\ lines' = [lines EXCEPT ![h] = @ + 1]
      /\ line' = [line EXCEPT ![h] = Append(@, l)]
  BY DEF Derive, CloneRules, loading, WebInv, WebTypes
<1>2. /\ clone[h] \in Seq(Nat) /\ line[h] \in Seq(Nat) /\ lines[h] \in Nat
      /\ Len(line[h]) = Len(clone[h]) /\ DOMAIN clone[h] = 1..Len(clone[h])
      /\ DOMAIN line[h] = DOMAIN clone[h] /\ n \in Nat /\ n \notin DOMAIN clone[h]
  BY DEF WebInv, WebTypes, RequestInv, Reached
<1>3. e \in Place /\ Out(e) /\ e \in Nat /\ Place' = Place
  <2>1. Rules(h, m) \in Place /\ Out(Rules(h, m))
    BY OutIsThere
  <2>2. \A o \in Place : o \in Nat
    BY DEF Place
  <2>3. Place' = Place
    BY <1>1 DEF Place
  <2> QED
    BY <2>1, <2>2, <2>3
<1>4. /\ WebTypes /\ RequestInv(h) /\ \A k \in DOMAIN clone[h] : line[h][k] \in 1..lines[h]
      /\ m # Shared => m \in DOMAIN clone[h] /\ e = clone[h][m]
  BY DEF WebInv, RequestInv, Lined, Rules
<1> HIDE DEF e
<1>5. l \in 1..(lines[h] + 1) /\ l \in Nat
  <2>1. l = lines[h] + 1 \/ (m \in DOMAIN clone[h] /\ l = line[h][m])
    BY <1>4
  <2> QED
    BY <1>2, <1>4, <2>1
<1> HIDE DEF l
<1>6. /\ clone'[h] \in Seq(Nat) /\ line'[h] \in Seq(Nat) /\ lines'[h] = lines[h] + 1
      /\ Len(clone'[h]) = n /\ Len(line'[h]) = n
      /\ clone'[h][n] = e /\ line'[h][n] = l
      /\ DOMAIN clone'[h] = DOMAIN clone[h] \union {n}
      /\ \A k \in DOMAIN clone[h] : clone'[h][k] = clone[h][k] /\ line'[h][k] = line[h][k]
  <2>1. /\ clone'[h] = Append(clone[h], e) /\ line'[h] = Append(line[h], l)
        /\ lines'[h] = lines[h] + 1
    BY <1>1, <1>4 DEF WebTypes
  <2>2. /\ Append(clone[h], e) \in Seq(Nat) /\ Append(line[h], l) \in Seq(Nat)
        /\ Len(Append(clone[h], e)) = n /\ Len(Append(line[h], l)) = n
        /\ Append(clone[h], e)[n] = e /\ Append(line[h], l)[n] = l
        /\ \A k \in DOMAIN clone[h] : /\ Append(clone[h], e)[k] = clone[h][k]
                                     /\ Append(line[h], l)[k] = line[h][k]
    BY <1>2, <1>3, <1>5
  <2>3. 1..n = 1..Len(clone[h]) \union {n}
    BY <1>2
  <2> QED
    BY <1>2, <2>1, <2>2, <2>3
<1>7. \A g \in Handler \ {h} :
        UNCHANGED <<clone[g], line[g], lines[g], seen[g], using[g], pc[g], idx[g]>>
  BY <1>1, <1>4 DEF WebTypes
<1>8. WebTypes'
  <2>1. /\ clone' \in [Handler -> Seq(Nat)] /\ line' \in [Handler -> Seq(Nat)]
        /\ lines' \in [Handler -> Nat] /\ pc' \in [Handler -> Stops]
    BY <1>1, <1>4, <1>6 DEF WebTypes, Stops
  <2> QED
    BY <1>1, <1>3, <1>4, <2>1 DEF WebTypes
<1> HIDE DEF n
<1>9. Reached(h)'
  BY <1>1, <1>3, <1>4, <1>6 DEF RequestInv, Reached
<1>10. Lined(h)'
  <2>1. \A k \in DOMAIN clone'[h] : line'[h][k] \in 1..lines'[h]
    <3> TAKE k \in DOMAIN clone'[h]
    <3>1. line'[h][k] = l \/ line'[h][k] \in 1..lines[h]
      BY <1>4, <1>6
    <3>2. lines[h] \in Nat /\ lines'[h] = lines[h] + 1
      BY <1>2, <1>6
    <3> QED
      BY <1>5, <3>1, <3>2
  <2>2. \A k \in DOMAIN seen[h] : seen[h][k].line \in 0..lines'[h]
    BY <1>2, <1>4, <1>6 DEF RequestInv, Lined
  <2>3. ASSUME NEW k \in DOMAIN clone[h], line[h][k] = l
        PROVE  clone[h][k] = e /\ e # Unloaded
    <3>1. l # lines[h] + 1
      <4>1. l \in 1..lines[h]
        BY <1>4, <2>3
      <4> QED
        BY <1>2, <4>1
    <3>2. m # Shared /\ e # Unloaded /\ l = line[h][m] /\ m \in DOMAIN clone[h]
          /\ e = clone[h][m]
      BY <1>4, <3>1 DEF l
    <3> QED
      BY <1>4, <2>3, <3>2 DEF RequestInv, Lined
  <2>4. ASSUME NEW k \in DOMAIN clone'[h], NEW j \in DOMAIN clone'[h], k # j,
               line'[h][k] = line'[h][j]
        PROVE  clone'[h][k] = clone'[h][j] /\ clone'[h][k] # Unloaded
    <3>1. CASE k # n /\ j # n
      <4>1. /\ k \in DOMAIN clone[h] /\ j \in DOMAIN clone[h]
            /\ line[h][k] = line[h][j]
            /\ clone'[h][k] = clone[h][k] /\ clone'[h][j] = clone[h][j]
        BY <1>6, <2>4, <3>1
      <4> QED
        BY <1>4, <2>4, <4>1 DEF RequestInv, Lined
    <3>2. CASE k = n \/ j = n
      BY <1>6, <2>3, <2>4, <3>2
    <3> QED
      BY <3>1, <3>2
  <2>5. ASSUME NEW j \in DOMAIN clone'[h], NEW k \in DOMAIN seen[h],
               seen[h][k].line = line'[h][j], seen[h][k].at # Unloaded
        PROVE  clone'[h][j] = seen[h][k].at
    <3>1. CASE j # n
      <4>1. j \in DOMAIN clone[h] /\ seen[h][k].line = line[h][j]
            /\ clone'[h][j] = clone[h][j]
        BY <1>6, <2>5, <3>1
      <4> QED
        BY <1>4, <2>5, <4>1 DEF RequestInv, Lined
    <3>2. CASE j = n
      <4>1. seen[h][k].line = l /\ l # lines[h] + 1
        BY <1>2, <1>4, <1>6, <2>5, <3>2 DEF RequestInv, Lined
      <4>2. l = line[h][m] /\ m \in DOMAIN clone[h] /\ e = clone[h][m]
        BY <1>4, <4>1 DEF l
      <4> QED
        BY <1>4, <1>6, <2>5, <3>2, <4>1, <4>2 DEF RequestInv, Lined
    <3> QED
      BY <3>1, <3>2
  <2> QED
    <3>1. seen' = seen
      BY <1>1
    <3> QED
      BY <2>1, <2>2, <2>4, <2>5, <3>1 DEF Lined
<1>11. RequestInv(h)'
  <2>1. pc'[h] = "handling"
    BY <1>4 DEF WebTypes
  <2> QED
    BY <1>1, <1>4, <1>9, <1>10, <2>1 DEF RequestInv, Steady, Consistent
<1>12. Private'
  <2>1. \A o : Out(o)' => Out(o)
    BY <1>1, <1>3, <1>6, <1>7 DEF Out
  <2>2. pc'[h] \notin Holding /\ idx'[h] = idx[h]
    BY <1>1, <1>4 DEF Holding, WebTypes
  <2> QED
    BY <1>7, <2>1, <2>2, StaysPrivate DEF WebInv
<1>13. EditsStayInMemory'
  <2>1. \A g \in Handler : pc'[g] \in {"store", "install"} => pc[g] = pc'[g]
    BY <1>4, <1>7 DEF WebTypes
  <2> QED
    BY <1>1, <2>1 DEF WebInv, EditsStayInMemory
<1> QED
  BY <1>3, <1>7, <1>8, <1>11, <1>12, <1>13, OneRequest

LEMMA InjectFlagsInv ==
  ASSUME WebInv, NEW h \in Handler, InjectFlags(h)
  PROVE  WebInv'
<1>1. pc[h] = "idle" /\ pc' = [pc EXCEPT ![h] = "handling"]
      /\ UNCHANGED <<loading, using, idx, seen>>
  BY DEF InjectFlags, Goto, call
<1>2. CASE traffic[h].user
  BY <1>1, <1>2, DeriveInv DEF InjectFlags
<1>3. CASE ~traffic[h].user
  <2>1. UNCHANGED <<server, entry, heap, root, clone, line, lines, using, idx, seen>>
    BY <1>1, <1>3 DEF InjectFlags, managers, loading
  <2>2. /\ Place' = Place /\ pc'[h] = "handling"
        /\ \A g \in Handler \ {h} : pc'[g] = pc[g]
        /\ WebTypes'
    BY <1>1, <2>1 DEF WebInv, WebTypes, Place, Stops
  <2>3. RequestInv(h)'
    <3>1. using[h] \in {Shared} \union DOMAIN clone[h] /\ RequestInv(h)
      BY DEF WebInv, RequestInv, Reached
    <3> QED
      BY <2>1, <2>2, <3>1, Proceeds DEF WebInv, Steady
  <2>4. Private' /\ EditsStayInMemory'
    BY <2>1, <2>2 DEF WebInv, Private, Hidden, Holding, Out, EditsStayInMemory
  <2> QED
    BY <2>1, <2>2, <2>3, <2>4, OneRequest
<1> QED
  BY <1>2, <1>3

-----------------------------------------------------------------------------
(* Calls.                                                                  *)

\* Where a step of request h leaves it, and what it has in hand.
Moves(h, p, i, u) ==
  /\ pc' = [pc EXCEPT ![h] = p] /\ p \in Stops
  /\ idx' = [idx EXCEPT ![h] = i] /\ i \in Place'
  /\ using' = [using EXCEPT ![h] = u] /\ u \in {Shared} \union DOMAIN clone[h]

\* A document is decoded into a place of its own, or the heap is as it was.
Keeps ==
  /\ heap' \in Seq(Decoded) /\ Len(heap) <= Len(heap')
  /\ \A k \in 1..Len(heap) : heap'[k] = heap[k]
  /\ server' \in Nat /\ entry' \in Decoded /\ entry'.edits = {}
  /\ UNCHANGED <<root, clone, line, lines, seen>>

\* What it has in hand may be: nothing, what it had, what is out, or what nobody has.
MayHold(h, p, i) ==
  /\ i \in {Unloaded, idx[h]} \/ Out(i) \/ \A g \in Handler : idx[g] # i
  /\ p \in Holding => /\ i # Unloaded /\ ~Out(i) /\ heap'[i].edits = {}
                      /\ \A g \in Handler \ {h} : idx[g] # i

\* A step of a call that changes no manager.
LEMMA CallGoes ==
  ASSUME WebInv, NEW h \in Handler, NEW p, NEW i, NEW u,
         Moves(h, p, i, u), Keeps, MayHold(h, p, i),
         u # Shared =>
           /\ p \in {"lookup", "fetch", "store", "install"} => clone[h][u] = Unloaded
           /\ p = "loaded" => i = clone[h][u]
  PROVE  WebInv'
<1>1. WebTypes /\ Place \subseteq Place' /\ RequestInv(h) /\ Private /\ EditsStayInMemory
  BY PlacesGrow DEF WebInv, Keeps
<1>2. /\ pc'[h] = p /\ idx'[h] = i /\ using'[h] = u
      /\ \A g \in Handler \ {h} : pc'[g] = pc[g] /\ idx'[g] = idx[g] /\ using'[g] = using[g]
  BY <1>1 DEF WebTypes, Moves
<1>3. WebTypes'
  <2>1. pc' \in [Handler -> Stops]
    BY <1>1 DEF WebTypes, Moves
  <2>2. \A g \in Handler : idx[g] \in Place'
    BY <1>1 DEF WebTypes
  <2>3. idx' \in [Handler -> Place'] /\ root' \in Place'
    BY <1>1, <2>2 DEF WebTypes, Moves, Keeps
  <2>4. using' \in [Handler -> Nat]
    <3>1. u \in Nat
      BY <1>1 DEF WebTypes, Shared, Moves
    <3> QED
      BY <1>1, <3>1 DEF WebTypes, Moves
  <2> QED
    BY <1>1, <2>1, <2>3, <2>4 DEF WebTypes, Keeps
<1>4. RequestInv(h)'
  BY <1>1, <1>2, Proceeds DEF Steady, Keeps, Moves
<1>5. \A o : Out(o)' => Out(o)
  BY DEF Out, Keeps
<1>6. pc'[h] \in Holding => Hidden(h)'
  BY <1>2 DEF Hidden, Out, Keeps, MayHold
<1>7. Private'
  BY <1>1, <1>2, <1>5, <1>6, StaysPrivate DEF MayHold
<1>8. EditsStayInMemory'
  <2> SUFFICES ASSUME NEW g \in Handler, pc'[g] \in Holding PROVE heap'[idx'[g]].edits = {}
    BY DEF EditsStayInMemory, Holding, Keeps
  <2>1. CASE g = h
    BY <1>2, <2>1 DEF MayHold
  <2>2. CASE g # h
    <3>1. idx'[g] = idx[g] /\ idx[g] \in Place /\ idx[g] # Unloaded /\ heap[idx[g]].edits = {}
      BY <1>1, <1>2, <2>2 DEF EditsStayInMemory, Holding, Private, Hidden, WebTypes
    <3>2. idx[g] \in 1..Len(heap)
      <4>1. Len(heap) \in Nat
        BY <1>1 DEF WebTypes
      <4> QED
        BY <3>1, <4>1 DEF Place, Unloaded
    <3> QED
      BY <3>1, <3>2 DEF Keeps
  <2> QED
    BY <2>1, <2>2
<1> QED
  BY <1>1, <1>2, <1>3, <1>4, <1>7, <1>8, OneRequest DEF Keeps

\* Where nothing but the request's control changes.
LEMMA WhatThereIs ==
  ASSUME WebInv, NEW h \in Handler
  PROVE  /\ using[h] \in {Shared} \union DOMAIN clone[h] /\ idx[h] \in Place
         /\ server \in Nat /\ entry \in Decoded /\ entry.edits = {}
         /\ heap \in Seq(Decoded) /\ Unloaded \in Place /\ Len(heap) \in Nat
         /\ using = [using EXCEPT ![h] = using[h]] /\ idx = [idx EXCEPT ![h] = idx[h]]
<1>1. heap \in Seq(Decoded) /\ Len(heap) \in Nat
  BY DEF WebInv, WebTypes
<1> QED
  BY <1>1 DEF WebInv, WebTypes, RequestInv, Reached, EditsStayInMemory, Place, Unloaded

LEMMA SingleInv ==
  ASSUME WebInv, NEW h \in Handler, NEW m \in Managers(h), Single(h, m)
  PROVE  WebInv'
<1>1. m \in {Shared} \union DOMAIN clone[h] /\ "read" \in Stops
  BY DEF Managers, Stops
<1>2. /\ pc' = [pc EXCEPT ![h] = "read"] /\ using' = [using EXCEPT ![h] = m]
      /\ UNCHANGED <<server, entry, heap, root, clone, line, lines, idx, seen>>
  BY DEF Single, Call, Goto, loading, managers
<1>3. Place' = Place
  BY <1>2 DEF Place
<1> QED
  <2>1. Keeps /\ Moves(h, "read", idx[h], m) /\ MayHold(h, "read", idx[h])
    BY <1>1, <1>2, <1>3, WhatThereIs DEF Keeps, Moves, MayHold, Holding
  <2> QED
    BY <2>1, CallGoes

LEMMA DeleteEntryInv ==
  ASSUME WebInv, NEW h \in Handler, DeleteEntry(h)
  PROVE  WebInv'
<1>1. /\ pc' = [pc EXCEPT ![h] = "read"] /\ entry' = NoEntry /\ "read" \in Stops
      /\ UNCHANGED <<server, heap, root, clone, line, lines, using, idx, seen>>
  BY DEF DeleteEntry, Goto, managers, call, Stops
<1>2. Place' = Place /\ NoEntry \in Decoded /\ NoEntry.edits = {}
  BY <1>1 DEF Place, NoEntry, Decoded
<1> QED
  <2>1. /\ Keeps /\ Moves(h, "read", idx[h], using[h])
        /\ MayHold(h, "read", idx[h])
    BY <1>1, <1>2, WhatThereIs DEF Keeps, Moves, MayHold, Holding
  <2> QED
    BY <2>1, CallGoes

LEMMA ReadInv ==
  ASSUME WebInv, NEW h \in Handler, Read(h)
  PROVE  WebInv'
<1> DEFINE e == Rules(h, using[h])
<1>1. UNCHANGED <<server, entry, heap, root, clone, line, lines, using, seen>>
  BY DEF Read, loading, managers, call
<1>2. Place' = Place /\ {"loaded", "lookup"} \subseteq Stops
  BY <1>1 DEF Place, Stops
<1>3. e \in Place /\ Out(e) /\ (using[h] # Shared => e = clone[h][using[h]])
  BY WhatThereIs, OutIsThere DEF Rules
<1>4. \/ e # Unloaded /\ pc' = [pc EXCEPT ![h] = "loaded"] /\ idx' = [idx EXCEPT ![h] = e]
      \/ e = Unloaded /\ pc' = [pc EXCEPT ![h] = "lookup"] /\ idx' = idx
  BY DEF Read, Goto
<1> HIDE DEF e
<1>5. CASE e # Unloaded
  <2>1. /\ Keeps /\ Moves(h, "loaded", e, using[h])
        /\ MayHold(h, "loaded", e)
    BY <1>1, <1>2, <1>3, <1>4, <1>5, WhatThereIs DEF Keeps, Moves, MayHold, Holding
  <2> QED
    BY <1>3, <2>1, CallGoes
<1>6. CASE e = Unloaded
  <2>1. /\ Keeps /\ Moves(h, "lookup", idx[h], using[h])
        /\ MayHold(h, "lookup", idx[h])
    BY <1>1, <1>2, <1>3, <1>4, <1>6, WhatThereIs DEF Keeps, Moves, MayHold, Holding
  <2> QED
    BY <1>3, <1>6, <2>1, CallGoes
<1> QED
  BY <1>5, <1>6

\* What is decoded into a place of its own, nobody has.
LEMMA NewPlace ==
  ASSUME WebInv, NEW e \in Decoded, heap' = Append(heap, e)
  PROVE  /\ heap' \in Seq(Decoded) /\ Len(heap) <= Len(heap')
         /\ \A k \in 1..Len(heap) : heap'[k] = heap[k]
         /\ Len(heap') \in Place' /\ Len(heap') # Unloaded /\ ~Out(Len(heap'))
         /\ heap'[Len(heap')] = e /\ \A g \in Handler : idx[g] # Len(heap')
<1>1. /\ heap' \in Seq(Decoded) /\ Len(heap') = Len(heap) + 1 /\ heap'[Len(heap')] = e
      /\ \A k \in 1..Len(heap) : heap'[k] = heap[k]
  BY HeapGrows DEF WebInv, WebTypes
<1>2. Len(heap) \in Nat
  BY DEF WebInv, WebTypes
<1>3. Len(heap') \notin Place
  BY <1>1, <1>2 DEF Place
<1>4. ~Out(Len(heap')) /\ \A g \in Handler : idx[g] # Len(heap')
  BY <1>3, OutIsThere DEF WebInv, WebTypes
<1> QED
  BY <1>1, <1>2, <1>4 DEF Place, Unloaded

\* The manager that is loaded for has no rules.
LEMMA Loading ==
  ASSUME WebInv, NEW h \in Handler, pc[h] \in {"lookup", "fetch", "store", "install"}
  PROVE  using[h] # Shared => clone[h][using[h]] = Unloaded
BY DEF WebInv, RequestInv, Steady

LEMMA LookupInv ==
  ASSUME WebInv, NEW h \in Handler, Lookup(h)
  PROVE  WebInv'
<1>1. /\ UNCHANGED <<server, entry, root, clone, line, lines, using, seen>>
      /\ pc[h] = "lookup" /\ {"install", "fetch"} \subseteq Stops
  BY DEF Lookup, managers, call, Stops
<1>2. using[h] # Shared => clone[h][using[h]] = Unloaded
  BY <1>1, Loading
<1>3. CASE entry # NoEntry
  <2>1. heap' = Append(heap, entry) /\ idx' = [idx EXCEPT ![h] = Len(heap')]
        /\ pc' = [pc EXCEPT ![h] = "install"]
    BY <1>3 DEF Lookup, Goto
  <2> QED
    <3>1. /\ Keeps /\ Moves(h, "install", Len(heap'), using[h])
          /\ MayHold(h, "install", Len(heap'))
      BY <1>1, <2>1, WhatThereIs, NewPlace DEF Keeps, Moves, MayHold
    <3> QED
      BY <1>2, <3>1, CallGoes
<1>4. CASE entry = NoEntry
  <2>1. heap' = heap /\ idx' = idx /\ pc' = [pc EXCEPT ![h] = "fetch"]
    BY <1>4 DEF Lookup, Goto
  <2>2. Place' = Place
    BY <2>1 DEF Place
  <2> QED
    <3>1. Keeps /\ Moves(h, "fetch", idx[h], using[h]) /\ MayHold(h, "fetch", idx[h])
      BY <1>1, <2>1, <2>2, WhatThereIs DEF Keeps, Moves, MayHold, Holding
    <3> QED
      BY <1>2, <3>1, CallGoes
<1> QED
  BY <1>3, <1>4

LEMMA FetchInv ==
  ASSUME WebInv, NEW h \in Handler, Fetch(h)
  PROVE  WebInv'
<1> DEFINE e == [version |-> server, edits |-> {}]
<1>1. /\ UNCHANGED <<server, entry, root, clone, line, lines, using, seen>>
      /\ pc[h] = "fetch" /\ "store" \in Stops /\ heap' = Append(heap, e)
      /\ idx' = [idx EXCEPT ![h] = Len(heap')] /\ pc' = [pc EXCEPT ![h] = "store"]
  BY DEF Fetch, Fetched, Goto, call, Stops
<1>2. using[h] # Shared => clone[h][using[h]] = Unloaded
  BY <1>1, Loading
<1>3. e \in Decoded /\ e.edits = {}
  BY WhatThereIs DEF Decoded
<1> HIDE DEF e
<1> QED
  <2>1. heap'[Len(heap')] = e
    BY <1>1, <1>3, NewPlace
  <2>2. /\ Keeps /\ Moves(h, "store", Len(heap'), using[h])
        /\ MayHold(h, "store", Len(heap'))
    BY <1>1, <1>3, <2>1, WhatThereIs, NewPlace DEF Keeps, Moves, MayHold
  <2> QED
    BY <1>2, <2>2, CallGoes

LEMMA FetchFailsInv ==
  ASSUME WebInv, NEW h \in Handler, FetchFails(h)
  PROVE  WebInv'
<1>1. /\ UNCHANGED <<server, entry, heap, root, clone, line, lines, using, seen>>
      /\ pc[h] = "fetch" /\ "loaded" \in Stops
      /\ idx' = [idx EXCEPT ![h] = Unloaded] /\ pc' = [pc EXCEPT ![h] = "loaded"]
  BY DEF FetchFails, Goto, loading, managers, call, Stops
<1>2. using[h] # Shared => clone[h][using[h]] = Unloaded
  BY <1>1, Loading
<1>3. Place' = Place
  BY <1>1 DEF Place
<1> QED
  <2>1. /\ Keeps /\ Moves(h, "loaded", Unloaded, using[h])
        /\ MayHold(h, "loaded", Unloaded)
    BY <1>1, <1>3, WhatThereIs DEF Keeps, Moves, MayHold, Holding
  <2> QED
    BY <1>2, <2>1, CallGoes

\* Rules that are about to be installed are in the heap, as they were decoded.
LEMMA HeldRules ==
  ASSUME WebInv, NEW h \in Handler, pc[h] \in Holding
  PROVE  /\ idx[h] \in 1..Len(heap) /\ heap[idx[h]] \in Decoded
         /\ heap[idx[h]].edits = {} /\ Hidden(h)
<1>1. idx[h] \in Place /\ idx[h] # Unloaded /\ heap[idx[h]].edits = {} /\ Hidden(h)
  BY DEF WebInv, WebTypes, Private, Hidden, EditsStayInMemory, Holding
<1>2. heap \in Seq(Decoded) /\ Len(heap) \in Nat
  BY DEF WebInv, WebTypes
<1>3. idx[h] \in 1..Len(heap)
  BY <1>1, <1>2 DEF Place, Unloaded
<1> QED
  BY <1>1, <1>2, <1>3

LEMMA StoreInv ==
  ASSUME WebInv, NEW h \in Handler, Store(h)
  PROVE  WebInv'
<1>1. /\ UNCHANGED <<server, heap, root, clone, line, lines, using, idx, seen>>
      /\ pc[h] = "store" /\ "install" \in Stops /\ pc' = [pc EXCEPT ![h] = "install"]
      /\ entry' = IF config.cache = <<"null">> THEN NoEntry ELSE heap[idx[h]]
  BY DEF Store, Goto, managers, call, Stops
<1>2. using[h] # Shared => clone[h][using[h]] = Unloaded
  BY <1>1, Loading
<1>3. /\ heap[idx[h]] \in Decoded /\ heap[idx[h]].edits = {}
      /\ idx[h] # Unloaded /\ ~Out(idx[h]) /\ \A g \in Handler \ {h} : idx[g] # idx[h]
  BY <1>1, HeldRules DEF Holding, Hidden
<1>4. NoEntry \in Decoded /\ NoEntry.edits = {} /\ Place' = Place
  BY <1>1 DEF NoEntry, Decoded, Place
<1> QED
  <2>1. /\ Keeps /\ Moves(h, "install", idx[h], using[h])
        /\ MayHold(h, "install", idx[h])
    BY <1>1, <1>3, <1>4, WhatThereIs DEF Keeps, Moves, MayHold
  <2> QED
    BY <1>2, <2>1, CallGoes

-----------------------------------------------------------------------------
(* Rules of a manager, and answers.                                        *)

\* The steps of request h that leave the heap as it is.
LEMMA InHeap ==
  ASSUME WebInv, NEW h \in Handler, UNCHANGED <<server, entry, heap>>,
         pc' \in [Handler -> Stops], pc'[h] \notin Holding,
         \A g \in Handler \ {h} :
           UNCHANGED <<clone[g], line[g], lines[g], seen[g], using[g], pc[g], idx[g]>>,
         idx'[h] \in {Unloaded, idx[h]}, \A o : Out(o)' => Out(o) \/ o = Unloaded \/ o = idx[h],
         WebTypes', RequestInv(h)'
  PROVE  WebInv'
<1>1. Place' = Place
  BY DEF Place
<1>2. Private'
  BY StaysPrivate DEF WebInv
<1>3. EditsStayInMemory'
  <2>1. \A g \in Handler : pc'[g] \in {"store", "install"} => g # h
    BY DEF Holding
  <2> QED
    BY <2>1 DEF WebInv, EditsStayInMemory
<1> QED
  BY <1>1, <1>2, <1>3, OneRequest

\* A manager of a request's own is given rules.
LEMMA Given ==
  ASSUME WebInv, NEW h \in Handler, NEW m \in DOMAIN clone[h], NEW o \in Nat,
         clone' = [clone EXCEPT ![h][m] = o]
  PROVE  /\ clone' \in [Handler -> Seq(Nat)]
         /\ DOMAIN clone'[h] = DOMAIN clone[h] /\ Len(clone'[h]) = Len(clone[h])
         /\ clone'[h][m] = o
         /\ \A n \in DOMAIN clone[h] : n # m => clone'[h][n] = clone[h][n]
         /\ \A g \in Handler \ {h} : clone'[g] = clone[g]
<1>1. clone \in [Handler -> Seq(Nat)] /\ clone[h] \in Seq(Nat)
      /\ DOMAIN clone[h] = 1..Len(clone[h])
  BY DEF WebInv, WebTypes
<1> DEFINE s == [clone[h] EXCEPT ![m] = o]
<1>2. s \in Seq(Nat) /\ Len(s) = Len(clone[h]) /\ DOMAIN s = DOMAIN clone[h]
      /\ s[m] = o /\ \A n \in DOMAIN clone[h] : n # m => s[n] = clone[h][n]
  BY <1>1, SequenceEdited
<1>3. clone' = [clone EXCEPT ![h] = s]
  BY <1>1
<1> HIDE DEF s
<1> QED
  BY <1>1, <1>2, <1>3

LEMMA RefreshRulesInv ==
  ASSUME WebInv, NEW h \in Handler, NEW m \in Managers(h), RefreshRules(h, m)
  PROVE  WebInv'
<1>1. /\ UNCHANGED <<server, entry, heap, idx, seen>>
      /\ pc' = [pc EXCEPT ![h] = "delete"] /\ using' = [using EXCEPT ![h] = m]
      /\ SetRules(h, m, Unloaded)
  BY DEF RefreshRules, Call, Goto
<1>2. WebTypes /\ RequestInv(h) /\ m \in {Shared} \union DOMAIN clone[h]
      /\ Place' = Place /\ m \in Nat
  BY <1>1 DEF WebInv, Managers, Place, WebTypes, Shared
<1>3. /\ pc' \in [Handler -> Stops] /\ pc'[h] = "delete" /\ using'[h] = m
      /\ using' \in [Handler -> Nat]
      /\ \A g \in Handler \ {h} : pc'[g] = pc[g] /\ using'[g] = using[g]
  BY <1>1, <1>2 DEF WebTypes, Stops
<1>4. CASE m = Shared
  <2>1. root' = Unloaded /\ UNCHANGED <<clone, line, lines>>
    BY <1>1, <1>4 DEF SetRules, RefreshRules
  <2>2. Unloaded \in Place
    BY WhatThereIs
  <2>3. WebTypes'
    BY <1>1, <1>2, <1>3, <2>1, <2>2 DEF WebTypes
  <2>4. RequestInv(h)'
    BY <1>1, <1>2, <1>3, <2>1, Proceeds DEF Steady
  <2>5. \A o : Out(o)' => Out(o) \/ o = Unloaded
    BY <1>1, <2>1 DEF Out
  <2> QED
    BY <1>1, <1>3, <2>1, <2>3, <2>4, <2>5, InHeap DEF Holding
<1>5. CASE m # Shared
  <2> DEFINE n == lines[h] + 1
  <2>1. /\ clone' = [clone EXCEPT ![h][m] = Unloaded] /\ root' = root
        /\ lines' = [lines EXCEPT ![h] = n] /\ line' = [line EXCEPT ![h][m] = n]
    BY <1>1, <1>2, <1>5 DEF SetRules, RefreshRules, WebTypes
  <2>2. m \in DOMAIN clone[h] /\ DOMAIN line[h] = DOMAIN clone[h] /\ n \in Nat
        /\ line[h] \in Seq(Nat) /\ DOMAIN line[h] = 1..Len(line[h])
    BY <1>2, <1>5 DEF WebTypes, RequestInv, Reached
  <2>3. /\ clone' \in [Handler -> Seq(Nat)]
        /\ DOMAIN clone'[h] = DOMAIN clone[h] /\ Len(clone'[h]) = Len(clone[h])
        /\ clone'[h][m] = Unloaded
        /\ \A k \in DOMAIN clone[h] : k # m => clone'[h][k] = clone[h][k]
        /\ \A g \in Handler \ {h} : clone'[g] = clone[g]
    BY <2>1, <2>2, Given DEF Unloaded
  <2> DEFINE s == [line[h] EXCEPT ![m] = n]
  <2>4. s \in Seq(Nat) /\ Len(s) = Len(line[h]) /\ s[m] = n
        /\ \A k \in DOMAIN clone[h] : k # m => s[k] = line[h][k]
    BY <2>2, SequenceEdited
  <2>5. line' = [line EXCEPT ![h] = s]
    BY <1>2, <2>1 DEF WebTypes
  <2> HIDE DEF s
  <2>6. /\ line'[h] = s /\ lines'[h] = n /\ line' \in [Handler -> Seq(Nat)]
        /\ lines' \in [Handler -> Nat]
        /\ \A g \in Handler \ {h} : line'[g] = line[g] /\ lines'[g] = lines[g]
    BY <1>2, <2>1, <2>2, <2>4, <2>5 DEF WebTypes
  <2>7. WebTypes'
    BY <1>1, <1>2, <1>3, <2>1, <2>3, <2>6 DEF WebTypes
  <2>8. Unloaded \in Place
    BY WhatThereIs
  <2>9. Reached(h)'
    BY <1>1, <1>2, <1>3, <2>2, <2>3, <2>4, <2>6, <2>8 DEF RequestInv, Reached
  <2>10. \A k \in DOMAIN clone[h] : line[h][k] \in 1..lines[h]
    BY <1>2 DEF RequestInv, Lined
  <2>11. lines[h] \in Nat /\ n = lines[h] + 1
    BY <1>2 DEF WebTypes
  <2> HIDE DEF n
  <2>12. Lined(h)'
    <3>1. \A k \in DOMAIN clone'[h] : line'[h][k] \in 1..lines'[h]
      <4> TAKE k \in DOMAIN clone'[h]
      <4>1. line'[h][k] = n \/ line'[h][k] \in 1..lines[h]
        BY <2>3, <2>4, <2>6, <2>10
      <4> QED
        BY <2>6, <2>11, <4>1
    <3>2. \A k \in DOMAIN seen[h] : seen[h][k].line \in 0..lines[h]
      BY <1>2 DEF RequestInv, Lined
    <3>3. \A k \in DOMAIN clone[h] : line'[h][k] = n => k = m
      BY <2>4, <2>6, <2>10, <2>11
    <3>4. ASSUME NEW k \in DOMAIN clone'[h], NEW j \in DOMAIN clone'[h], k # j,
                 line'[h][k] = line'[h][j]
          PROVE  clone'[h][k] = clone'[h][j] /\ clone'[h][k] # Unloaded
      <4>1. k # m /\ j # m
        BY <2>3, <2>4, <2>6, <3>3, <3>4
      <4>2. line[h][k] = line[h][j] /\ clone'[h][k] = clone[h][k] /\ clone'[h][j] = clone[h][j]
            /\ k \in DOMAIN clone[h] /\ j \in DOMAIN clone[h]
        BY <2>3, <2>4, <2>6, <3>4, <4>1
      <4> QED
        BY <1>2, <3>4, <4>2 DEF RequestInv, Lined
    <3>5. ASSUME NEW j \in DOMAIN clone'[h], NEW k \in DOMAIN seen[h],
                 seen[h][k].line = line'[h][j], seen[h][k].at # Unloaded
          PROVE  clone'[h][j] = seen[h][k].at
      <4>1. j # m
        BY <2>4, <2>6, <2>11, <3>2, <3>5
      <4>2. j \in DOMAIN clone[h] /\ line[h][j] = seen[h][k].line
            /\ clone'[h][j] = clone[h][j]
        BY <2>3, <2>4, <2>6, <3>5, <4>1
      <4> QED
        BY <1>2, <3>5, <4>2 DEF RequestInv, Lined
    <3>6. \A k \in DOMAIN seen[h] : seen[h][k].line \in 0..lines'[h]
      BY <2>6, <2>11, <3>2
    <3> QED
      BY <1>1, <3>1, <3>4, <3>5, <3>6 DEF Lined
  <2>13. RequestInv(h)'
    BY <1>1, <1>2, <1>3, <2>9, <2>12 DEF RequestInv, Steady, Consistent
  <2>14. \A o : Out(o)' => Out(o) \/ o = Unloaded
    BY <1>1, <2>1, <2>3 DEF Out
  <2> QED
    BY <1>1, <1>3, <2>3, <2>6, <2>7, <2>13, <2>14, InHeap DEF Holding
<1> QED
  BY <1>4, <1>5

\* Nobody is of the line of a manager without rules, and no answer of it has any.
LEMMA InstallInv ==
  ASSUME WebInv, NEW h \in Handler, Install(h)
  PROVE  WebInv'
<1> DEFINE m == using[h]
           i == idx[h]
<1>1. /\ UNCHANGED <<server, entry, heap, line, lines, using, idx, seen>>
      /\ pc[h] = "install" /\ pc' = [pc EXCEPT ![h] = "loaded"] /\ SetRules(h, m, i)
  BY DEF Install, Goto, call
<1>2. WebTypes /\ RequestInv(h) /\ Place' = Place
  BY <1>1 DEF WebInv, Place
<1>3. m \in {Shared} \union DOMAIN clone[h] /\ i \in Place /\ i \in Nat
      /\ (m # Shared => clone[h][m] = Unloaded)
  BY <1>1, WhatThereIs, Loading DEF Place
<1>4. /\ pc' \in [Handler -> Stops] /\ pc'[h] = "loaded"
      /\ \A g \in Handler \ {h} : pc'[g] = pc[g]
  BY <1>1, <1>2 DEF WebTypes, Stops
<1> HIDE DEF m, i
<1>5. CASE m = Shared
  <2>1. root' = i /\ UNCHANGED clone
    BY <1>1, <1>5 DEF SetRules
  <2>2. WebTypes'
    BY <1>1, <1>2, <1>3, <1>4, <2>1 DEF WebTypes
  <2>3. RequestInv(h)'
    BY <1>1, <1>2, <1>3, <1>5, <2>1, Proceeds DEF Steady, m
  <2>4. \A o : Out(o)' => Out(o) \/ o = idx[h]
    BY <1>1, <2>1 DEF Out, i
  <2> QED
    BY <1>1, <1>4, <2>1, <2>2, <2>3, <2>4, InHeap DEF Holding
<1>6. CASE m # Shared
  <2>1. clone' = [clone EXCEPT ![h][m] = i] /\ root' = root /\ m \in DOMAIN clone[h]
        /\ clone[h][m] = Unloaded
    BY <1>1, <1>3, <1>6 DEF SetRules
  <2>2. /\ clone' \in [Handler -> Seq(Nat)]
        /\ DOMAIN clone'[h] = DOMAIN clone[h] /\ Len(clone'[h]) = Len(clone[h])
        /\ clone'[h][m] = i
        /\ \A k \in DOMAIN clone[h] : k # m => clone'[h][k] = clone[h][k]
        /\ \A g \in Handler \ {h} : clone'[g] = clone[g]
    BY <1>3, <2>1, Given
  <2>3. WebTypes'
    BY <1>1, <1>2, <1>4, <2>1, <2>2 DEF WebTypes
  <2>4. Reached(h)'
    BY <1>1, <1>2, <1>3, <2>2 DEF RequestInv, Reached
  <2>5. \A k \in DOMAIN clone[h] : k # m => line[h][k] # line[h][m]
    BY <1>2, <2>1 DEF RequestInv, Lined
  <2>6. \A k \in DOMAIN seen[h] : seen[h][k].line = line[h][m] => seen[h][k].at = Unloaded
    BY <1>2, <2>1 DEF RequestInv, Lined
  <2>7. Lined(h)'
    <3>1. /\ \A k \in DOMAIN clone'[h] : line'[h][k] \in 1..lines'[h]
          /\ \A k \in DOMAIN seen'[h] : seen'[h][k].line \in 0..lines'[h]
      BY <1>1, <1>2, <2>2 DEF RequestInv, Lined
    <3>2. ASSUME NEW k \in DOMAIN clone[h], NEW j \in DOMAIN clone[h], k # j,
                 line[h][k] = line[h][j]
          PROVE  clone'[h][k] = clone'[h][j] /\ clone'[h][k] # Unloaded
      <4>1. k # m /\ j # m
        BY <2>5, <3>2
      <4> QED
        BY <1>2, <2>2, <3>2, <4>1 DEF RequestInv, Lined
    <3>3. ASSUME NEW j \in DOMAIN clone[h], NEW k \in DOMAIN seen[h],
                 seen[h][k].line = line[h][j], seen[h][k].at # Unloaded
          PROVE  clone'[h][j] = seen[h][k].at
      <4>1. j # m
        BY <2>6, <3>3
      <4> QED
        BY <1>2, <2>2, <3>3, <4>1 DEF RequestInv, Lined
    <3> QED
      BY <1>1, <2>2, <3>1, <3>2, <3>3 DEF Lined
  <2>8. RequestInv(h)'
    BY <1>1, <1>2, <1>4, <2>2, <2>4, <2>7 DEF RequestInv, Steady, Consistent, m, i
  <2>9. \A o : Out(o)' => Out(o) \/ o = idx[h]
    BY <1>1, <2>1, <2>2 DEF Out, i
  <2> QED
    BY <1>1, <1>4, <2>2, <2>3, <2>8, <2>9, InHeap DEF Holding
<1> QED
  BY <1>5, <1>6

\* A manager answers with the rules of its line.
LEMMA AnswerInv ==
  ASSUME WebInv, NEW h \in Handler, Answer(h)
  PROVE  WebInv'
<1>1. /\ UNCHANGED <<server, entry, heap, root, clone, line, lines, using>>
      /\ pc[h] = "loaded" /\ pc' = [pc EXCEPT ![h] = "handling"]
      /\ idx' = [idx EXCEPT ![h] = Unloaded]
  BY DEF Answer, Goto, loading, managers, call
<1>2. WebTypes /\ RequestInv(h) /\ Place' = Place /\ Unloaded \in Place
  BY <1>1, WhatThereIs DEF WebInv, Place
<1>3. /\ pc' \in [Handler -> Stops] /\ pc'[h] = "handling" /\ idx'[h] = Unloaded
      /\ idx' \in [Handler -> Place]
      /\ \A g \in Handler \ {h} : pc'[g] = pc[g] /\ idx'[g] = idx[g]
  BY <1>1, <1>2 DEF WebTypes, Stops
<1>4. CASE seen' = seen
  <2>1. WebTypes'
    BY <1>1, <1>2, <1>3, <1>4 DEF WebTypes
  <2>2. using[h] \in {Shared} \union DOMAIN clone[h]
    BY WhatThereIs
  <2>3. RequestInv(h)'
    BY <1>1, <1>2, <1>3, <1>4, <2>2, Proceeds DEF Steady
  <2>4. \A o : Out(o)' => Out(o)
    BY <1>1, <1>4 DEF Out
  <2> QED
    BY <1>1, <1>3, <1>4, <2>1, <2>3, <2>4, InHeap DEF Holding
<1>5. CASE op[h] = "single"
  <2> DEFINE a == [at    |-> idx[h],
                   edits |-> IF idx[h] = Unloaded THEN {} ELSE heap[idx[h]].edits,
                   line  |-> LineOf(h, using[h])]
             n == Len(seen[h]) + 1
  <2>1. seen' = [seen EXCEPT ![h] = Append(@, a)]
    BY <1>1, <1>5 DEF Answer
  <2>2. /\ a.at = idx[h] /\ a.line = LineOf(h, using[h]) /\ idx[h] \in Place /\ idx[h] \in Nat
        /\ seen[h] \in Seq(Seen)
    BY <1>2 DEF WebTypes, Place
  <2>3. a.line \in 0..lines[h] /\ lines[h] \in Nat
    <3>1. using[h] \in {Shared} \union DOMAIN clone[h] /\ lines[h] \in Nat
      BY <1>2, WhatThereIs DEF WebTypes
    <3>2. using[h] # Shared => line[h][using[h]] \in 1..lines[h]
      BY <1>2, <3>1 DEF RequestInv, Lined
    <3> QED
      BY <2>2, <3>1, <3>2 DEF LineOf
  <2>4. a.line # 0 => /\ using[h] \in DOMAIN clone[h] /\ a.line = line[h][using[h]]
                      /\ a.at = clone[h][using[h]]
    BY <1>1, <1>2, <2>2, WhatThereIs DEF LineOf, RequestInv, Steady
  <2>5. a \in Seen
    <3>1. idx[h] # Unloaded => heap[idx[h]] \in Decoded
      <4>1. heap \in Seq(Decoded) /\ Len(heap) \in Nat
        BY <1>2 DEF WebTypes
      <4>2. idx[h] # Unloaded => idx[h] \in 1..Len(heap)
        BY <2>2, <4>1 DEF Place, Unloaded
      <4> QED
        BY <4>1, <4>2
    <3>2. (IF idx[h] = Unloaded THEN {} ELSE heap[idx[h]].edits) \in SUBSET Handler
      BY <3>1 DEF Decoded
    <3>3. LineOf(h, using[h]) \in Nat
      BY <2>2, <2>3
    <3> QED
      BY <2>2, <3>2, <3>3 DEF Seen
  <2> HIDE DEF a
  <2>6. /\ seen'[h] \in Seq(Seen) /\ DOMAIN seen'[h] = DOMAIN seen[h] \union {n}
        /\ seen'[h][n] = a /\ n \notin DOMAIN seen[h]
        /\ \A k \in DOMAIN seen[h] : seen'[h][k] = seen[h][k] /\ k < n
        /\ \A k \in DOMAIN seen'[h] : k <= n
    <3>1. seen'[h] = Append(seen[h], a)
      BY <1>2, <2>1 DEF WebTypes
    <3> QED
      BY <2>2, <2>5, <3>1
  <2>7. \A g \in Handler \ {h} : seen'[g] = seen[g]
    BY <1>2, <2>1 DEF WebTypes
  <2>8. WebTypes'
    <3>1. seen' \in [Handler -> Seq(Seen)]
      BY <1>2, <2>1, <2>6 DEF WebTypes
    <3> QED
      BY <1>1, <1>2, <1>3, <3>1 DEF WebTypes
  <2> HIDE DEF n
  <2>9. Reached(h)'
    BY <1>1, <1>2, <2>2, <2>6 DEF RequestInv, Reached
  <2>10. Lined(h)'
    <3>1. \A k \in DOMAIN seen'[h] : seen'[h][k].line \in 0..lines[h]
      BY <1>2, <2>3, <2>6 DEF RequestInv, Lined
    <3>2. ASSUME NEW m \in DOMAIN clone[h], a.line = line[h][m], a.at # Unloaded
          PROVE  clone[h][m] = a.at
      <4>1. line[h][m] \in 1..lines[h]
        BY <1>2 DEF RequestInv, Lined
      <4>2. a.line # 0
        BY <2>3, <3>2, <4>1
      <4> QED
        BY <1>2, <2>4, <3>2, <4>2 DEF RequestInv, Lined
    <3>3. ASSUME NEW m \in DOMAIN clone[h], NEW k \in DOMAIN seen'[h],
                 seen'[h][k].line = line[h][m], seen'[h][k].at # Unloaded
          PROVE  clone[h][m] = seen'[h][k].at
      <4>1. CASE k = n
        BY <2>6, <3>2, <3>3, <4>1
      <4>2. CASE k # n
        BY <1>2, <2>6, <3>3, <4>2 DEF RequestInv, Lined
      <4> QED
        BY <4>1, <4>2
    <3> QED
      BY <1>1, <1>2, <3>1, <3>3 DEF RequestInv, Lined
  <2>11. Consistent(h)'
    <3> SUFFICES ASSUME NEW j \in DOMAIN seen'[h], NEW k \in DOMAIN seen'[h], j < k,
                        SameLine(seen'[h][j], seen'[h][k]), seen'[h][j].at # Unloaded
                 PROVE  seen'[h][k].at = seen'[h][j].at
      BY DEF Consistent, SameLine
    <3>1. j \in DOMAIN seen[h] /\ seen'[h][j] = seen[h][j]
      <4>1. j # n
        <5>1. k <= n /\ DOMAIN seen'[h] = 1..Len(seen'[h])
          BY <2>6
        <5>2. n \in Nat /\ j \in Nat /\ k \in Nat
          BY <2>6, <5>1
        <5> QED
          BY <5>1, <5>2
      <4> QED
        BY <2>6, <4>1
    <3>2. CASE k # n
      BY <1>2, <2>6, <3>1, <3>2 DEF RequestInv, Consistent
    <3>3. CASE k = n
      <4>1. seen[h][j].line # 0 /\ a.line = seen[h][j].line
        BY <2>6, <3>1, <3>3 DEF SameLine
      <4>2. clone[h][using[h]] = seen[h][j].at
        BY <1>2, <2>4, <3>1, <4>1 DEF RequestInv, Lined
      <4> QED
        BY <2>4, <2>6, <3>1, <3>3, <4>1, <4>2
    <3> QED
      BY <3>2, <3>3
  <2>12. RequestInv(h)'
    BY <1>3, <2>9, <2>10, <2>11 DEF RequestInv, Steady
  <2>13. \A o : Out(o)' => Out(o) \/ o = idx[h]
    BY <1>1, <2>2, <2>6, <2>7 DEF Out
  <2> QED
    BY <1>1, <1>3, <2>7, <2>8, <2>12, <2>13, InHeap DEF Holding
<1> QED
  BY <1>4, <1>5 DEF Answer

\* What a handler edits are rules it was answered from: not what somebody is about
\* to install.
LEMMA EditInv ==
  ASSUME WebInv, NEW h \in Handler, Edit(h)
  PROVE  WebInv'
<1>1. PICK k \in DOMAIN seen[h] :
        seen[h][k].at # Unloaded /\ heap' = [heap EXCEPT ![seen[h][k].at].edits = @ \union {h}]
  BY DEF Edit
<1> DEFINE o == seen[h][k].at
<1>2. UNCHANGED <<server, entry, root, pc, clone, line, lines, using, idx, seen>>
  BY DEF Edit, managers, call
<1>3. WebTypes /\ Out(o) /\ o \in Place /\ heap \in Seq(Decoded) /\ Len(heap) \in Nat
  BY DEF WebInv, WebTypes, Out, RequestInv, Reached
<1>4. o \in 1..Len(heap)
  BY <1>1, <1>3 DEF Place, Unloaded
<1> HIDE DEF o
<1>5. /\ heap' \in Seq(Decoded) /\ Len(heap') = Len(heap)
      /\ \A p \in 1..Len(heap) : p # o => heap'[p] = heap[p]
  BY <1>1, <1>3, <1>4, HeapEdited DEF o
<1>6. Place' = Place
  BY <1>5 DEF Place
<1>7. WebTypes'
  BY <1>2, <1>3, <1>5, <1>6 DEF WebTypes
<1>8. Private'
  BY <1>2 DEF WebInv, Private, Hidden, Out
<1>9. EditsStayInMemory'
  <2> SUFFICES ASSUME NEW g \in Handler, pc[g] \in Holding PROVE heap'[idx[g]].edits = {}
    BY <1>2 DEF WebInv, EditsStayInMemory, Holding
  <2>1. idx[g] \in 1..Len(heap) /\ heap[idx[g]].edits = {} /\ idx[g] # o
    BY <1>3, HeldRules DEF Hidden
  <2> QED
    BY <1>5, <2>1
<1>10. RequestInv(h)'
  BY <1>2, <1>3, <1>6, Others DEF WebInv
<1> QED
  BY <1>2, <1>6, <1>7, <1>8, <1>9, <1>10, OneRequest

-----------------------------------------------------------------------------
LEMMA StepOfRequest ==
  ASSUME WebInv, NEW h \in Handler, Step(h)
  PROVE  WebInv'
<1>1. ASSUME NEW m \in Managers(h), WithContext(h, m) PROVE WebInv'
  <2>1. m \in {Shared} \union DOMAIN clone[h]
    BY DEF Managers
  <2>2. /\ pc[h] = "handling" /\ Derive(h, m, context[h])
        /\ UNCHANGED <<loading, pc, using, idx, seen>>
    BY <1>1 DEF WithContext, call
  <2>3. pc' = [pc EXCEPT ![h] = "handling"]
    BY <2>2 DEF WebInv, WebTypes
  <2> QED
    BY <2>1, <2>2, <2>3, DeriveInv
<1>2. CASE \/ CopyContext(h) \/ AddAttribute(h) \/ Send(h)
           \/ \E m \in Managers(h) : ReportUsage(h, m)
  <2>1. UNCHANGED <<server, entry, heap, root, pc, clone, line, lines, using, idx, seen>>
    BY <1>2 DEF CopyContext, AddAttribute, Send, ReportUsage, loading, managers, call
  <2>2. server \in Nat /\ entry \in Decoded /\ entry.edits = {}
    BY WhatThereIs
  <2> QED
    BY <2>1, <2>2, StandStill
<1> QED
  BY <1>1, <1>2, InjectFlagsInv, SingleInv, RefreshRulesInv, DeleteEntryInv, ReadInv,
     LookupInv, FetchInv, FetchFailsInv, StoreInv, InstallInv, AnswerInv, EditInv DEF Step

LEMMA StepInv == WebInv /\ [WebNext]_<<vars, web>> => WebInv'
<1> SUFFICES ASSUME WebInv, [WebNext]_<<vars, web>> PROVE WebInv'
  OBVIOUS
<1>1. server \in Nat /\ entry \in Decoded /\ entry.edits = {}
  BY DEF WebInv, WebTypes, EditsStayInMemory
<1>2. CASE UNCHANGED web \/ ExtendTemplate \/ \E i \in Instance : Serve(i)
  <2>1. UNCHANGED <<server, entry, heap, root, pc, clone, line, lines, using, idx, seen>>
    BY <1>2 DEF web, ExtendTemplate, Serve, loading, managers, call
  <2> QED
    BY <1>1, <2>1, StandStill
<1>3. CASE Publish \/ EntryExpires
  <2>1. UNCHANGED <<heap, root, pc, clone, line, lines, using, idx, seen>>
    BY <1>3 DEF Publish, EntryExpires, managers, call
  <2>2. /\ server' \in {server, server + 1} /\ entry' \in {entry, NoEntry}
        /\ NoEntry \in Decoded /\ NoEntry.edits = {}
    BY <1>3 DEF Publish, EntryExpires, NoEntry, Decoded
  <2>3. server' \in Nat /\ entry' \in Decoded /\ entry'.edits = {}
    BY <1>1, <2>2
  <2> QED
    BY <2>1, <2>3, StandStill
<1> QED
  BY <1>2, <1>3, StepOfRequest DEF WebNext
-----------------------------------------------------------------------------
(* Contexts.                                                               *)

Cells     == Handler \union {"base", Blank}
Slices    == [array : Nat, len : Nat]
Telling   == [context : Slices, told : Seq(Cells)]
Adopted   == {h \in Handler : context[h] # NoContext}

MakingTypes ==
  /\ arrays \in Seq(Seq(Cells))
  /\ template \in Slices /\ context \in [Handler -> Slices]
  /\ bound \in [Handler -> Seq(Slices)] /\ adds \in [Handler -> Nat]
  /\ reports \in [Handler -> SUBSET Telling] /\ pending \in Seq({"base"}) /\ extended \in BOOLEAN
  /\ pc \in [Handler -> Stops]

\* A slice of an array there is, which begins with what the template has.
Reach(c)   == c.array \in DOMAIN arrays /\ c.len <= Len(arrays[c.array])
Begun(c)   == \A k \in 1..template.len : arrays[c.array][k] = "base"
Derived(c) == Reach(c) /\ template.len <= c.len /\ Begun(c)

\* No request begins before the context to copy is finished, and only one that has
\* copied it adds to it.
Opening ==
  /\ config = NotYet \/ pending # << >> => \A h \in Handler : pc[h] = "idle"
  /\ pending # << >> => extended
  /\ \A h \in Handler : pc[h] = "idle" =>
       bound[h] = << >> /\ context[h] = NoContext /\ reports[h] = {}
  /\ \A h \in Handler : context[h] = NoContext => adds[h] = 0

Prefixes ==
  /\ Derived(template)
  /\ \A h \in Adopted : Derived(context[h])
  /\ \A h \in Handler : \A m \in DOMAIN bound[h] : Reach(bound[h][m])

\* There is no room behind a context of NewContext: a copy that was added to has
\* an array of its own.
Full == Len(arrays[template.array]) = template.len
Apart ==
  /\ \A h \in Adopted :
       /\ context[h].len = template.len + adds[h]
       /\ context[h].array = template.array => adds[h] = 0
       /\ \A k \in template.len + 1..context[h].len : arrays[context[h].array][k] = h
  /\ \A g, h \in Adopted :
       g # h /\ context[g].array = context[h].array => context[h].array = template.array

\* Nobody will write into what c has: whoever holds its array is past its end.
Safe(c) ==
  Reach(c) /\ \A g \in Adopted : context[g].array = c.array => c.len <= context[g].len
Faithful ==
  \A h \in Handler :
    /\ \A m \in DOMAIN bound[h] : Safe(bound[h][m])
    /\ \A r \in reports[h] : Safe(r.context) /\ r.told = Attributes(arrays, r.context)

MakingInv ==
  /\ MakingTypes /\ Opening
  /\ config # NotYet => Prefixes /\ (extended \/ (Full /\ Apart /\ Faithful))

\* What a slice of an array holds.
LEMMA CellsOf ==
  ASSUME NEW S, NEW s \in Seq(S), NEW n \in Nat, n <= Len(s)
  PROVE  /\ SubSeq(s, 1, n) \in Seq(S) /\ Len(SubSeq(s, 1, n)) = n
         /\ \A k \in 1..n : SubSeq(s, 1, n)[k] = s[k]
OBVIOUS

LEMMA SameCells ==
  ASSUME NEW S, NEW s \in Seq(S), NEW n \in Nat, n <= Len(s),
         NEW T, NEW t \in Seq(T), Len(t) = Len(s), \A k \in 1..n : t[k] = s[k]
  PROVE  SubSeq(t, 1, n) = SubSeq(s, 1, n)
BY CellsOf

LEMMA Grows ==
  ASSUME NEW S, Blank \in S, NEW s \in Seq(S)
  PROVE  /\ Grown(s) \in Seq(S) /\ Len(Grown(s)) > Len(s)
         /\ \A k \in 1..Len(s) : Grown(s)[k] = s[k]
<1> DEFINE n == IF s = << >> THEN 1 ELSE Len(s)
           t == [k \in 1..n |-> Blank]
<1>1. n \in Nat /\ n > 0
  OBVIOUS
<1>2. t \in Seq(S) /\ Len(t) = n
  BY <1>1
<1>3. Grown(s) = s \o t
  BY DEF Grown
<1> HIDE DEF n, t
<1> QED
  BY <1>1, <1>2, <1>3

\* AddAttribute: the slice d that it leaves is one longer than c, ends with the
\* attribute and begins as before; every other cell of every array is as it was,
\* but for the one behind the slice, if there was room.
OneMore(S, A, c, a, B, d) ==
  /\ B \in Seq(Seq(S)) /\ d \in Slices /\ d.array \in DOMAIN B
  /\ d.len = c.len + 1 /\ d.len <= Len(B[d.array])
  /\ B[d.array][d.len] = a
  /\ \A k \in 1..c.len : B[d.array][k] = A[c.array][k]
  /\ \A n \in DOMAIN A :
       /\ n \in DOMAIN B /\ Len(B[n]) = Len(A[n])
       /\ \A k \in 1..Len(A[n]) :
            B[n][k] = A[n][k] \/ (HasRoom(A, c) /\ n = c.array /\ k = d.len)
  /\ d.array = c.array \/ d.array \notin DOMAIN A
  /\ d.array = c.array <=> HasRoom(A, c)

LEMMA AddsOne ==
  ASSUME NEW S, Blank \in S, NEW A \in Seq(Seq(S)), NEW c \in Slices,
         c.array \in DOMAIN A, c.len <= Len(A[c.array]), NEW a \in S
  PROVE  OneMore(S, A, c, a, ArraysWith(A, c, a), ContextWith(A, c))
<1> SUFFICES ASSUME NEW B, B = ArraysWith(A, c, a), NEW d, d = ContextWith(A, c)
             PROVE  OneMore(S, A, c, a, B, d)
  OBVIOUS
<1> DEFINE s == A[c.array]
<1>1. s \in Seq(S) /\ c.len \in Nat /\ c.array \in Nat /\ c.len <= Len(s)
  BY DEF Slices
<1>2. d = Context(IF HasRoom(A, c) THEN c.array ELSE Len(A) + 1, c.len + 1)
  BY DEF ContextWith
<1> HIDE DEF s
<1>3. d \in Slices /\ d.len = c.len + 1
      /\ d.array = IF HasRoom(A, c) THEN c.array ELSE Len(A) + 1
  BY <1>1, <1>2 DEF Context, Slices
<1>4. CASE HasRoom(A, c)
  <2> DEFINE t == [s EXCEPT ![c.len + 1] = a]
  <2>1. t \in Seq(S) /\ Len(t) = Len(s) /\ t[c.len + 1] = a
        /\ \A k \in 1..Len(s) : t[k] = s[k] \/ k = c.len + 1
    BY <1>1, <1>4 DEF HasRoom, s
  <2>2. B = [A EXCEPT ![c.array] = t]
    BY <1>4 DEF ArraysWith, s
  <2> HIDE DEF t
  <2>3. B \in Seq(Seq(S)) /\ DOMAIN B = DOMAIN A /\ B[c.array] = t
        /\ \A n \in DOMAIN A : n # c.array => B[n] = A[n]
    BY <2>1, <2>2
  <2>4. c.len + 1 <= Len(t)
    BY <1>1, <1>4, <2>1 DEF HasRoom, s
  <2>5. \A k \in 1..c.len : t[k] = s[k]
    <3> TAKE k \in 1..c.len
    <3>1. k \in 1..Len(s) /\ k # c.len + 1
      BY <1>1
    <3> QED
      BY <2>1, <3>1
  <2>6. ASSUME NEW n \in DOMAIN A
        PROVE  /\ Len(B[n]) = Len(A[n])
               /\ \A k \in 1..Len(A[n]) :
                    B[n][k] = A[n][k] \/ (HasRoom(A, c) /\ n = c.array /\ k = d.len)
    BY <1>3, <1>4, <2>1, <2>3 DEF s
  <2>7. d.array = c.array
    BY <1>3, <1>4
  <2>8. d.len <= Len(B[d.array]) /\ B[d.array][d.len] = a
        /\ \A k \in 1..c.len : B[d.array][k] = A[c.array][k]
    BY <1>3, <2>1, <2>3, <2>4, <2>5, <2>7 DEF s
  <2> QED
    BY <1>3, <1>4, <2>3, <2>6, <2>7, <2>8 DEF OneMore
<1>5. CASE ~HasRoom(A, c)
  <2> DEFINE t == [Grown(s) EXCEPT ![c.len + 1] = a]
  <2>1. Len(s) = c.len
    BY <1>1, <1>5 DEF HasRoom, s
  <2>2. Grown(s) \in Seq(S) /\ c.len + 1 <= Len(Grown(s))
        /\ \A k \in 1..c.len : Grown(s)[k] = s[k]
    BY <1>1, <2>1, Grows
  <2>3. t \in Seq(S) /\ c.len + 1 <= Len(t) /\ t[c.len + 1] = a
        /\ \A k \in 1..c.len : t[k] = s[k]
    BY <1>1, <2>2
  <2>4. B = Append(A, t)
    BY <1>5 DEF ArraysWith, s
  <2> HIDE DEF t
  <2>5. B \in Seq(Seq(S)) /\ DOMAIN B = 1..(Len(A) + 1) /\ B[Len(A) + 1] = t
        /\ \A n \in DOMAIN A : n \in DOMAIN B /\ B[n] = A[n]
    BY <2>3, <2>4
  <2>6. d.array = Len(A) + 1 /\ d.array \notin DOMAIN A /\ d.array # c.array
    BY <1>3, <1>5
  <2> QED
    BY <1>3, <1>5, <2>3, <2>5, <2>6 DEF s, OneMore
<1> QED
  BY <1>4, <1>5

LEMMA AttributesOf ==
  ASSUME MakingTypes, NEW c \in Slices, Reach(c)
  PROVE  /\ Attributes(arrays, c) \in Seq(Cells) /\ Len(Attributes(arrays, c)) = c.len
         /\ \A k \in 1..c.len : Attributes(arrays, c)[k] = arrays[c.array][k]
<1>1. arrays[c.array] \in Seq(Cells) /\ c.len \in Nat /\ c.len <= Len(arrays[c.array])
  BY DEF MakingTypes, Slices, Reach
<1> QED
  BY <1>1, CellsOf DEF Attributes

LEMMA MakingBegins == WebInit => MakingInv
<1> SUFFICES ASSUME WebInit PROVE MakingInv
  OBVIOUS
<1>1. NoContext \in Slices /\ config = NotYet
  BY DEF WebInit, NoContext, Context, Slices
<1>2. MakingTypes
  <2>1. /\ arrays \in Seq(Seq(Cells)) /\ pending \in Seq({"base"})
    BY EmptySeq DEF WebInit
  <2>2. template \in Slices /\ extended \in BOOLEAN /\ context \in [Handler -> Slices]
        /\ bound \in [Handler -> Seq(Slices)]
    BY <1>1, EmptySeq DEF WebInit
  <2>3. /\ adds \in [Handler -> Nat] /\ reports \in [Handler -> SUBSET Telling]
        /\ pc \in [Handler -> Stops]
    BY DEF WebInit, Stops
  <2> QED
    BY <2>1, <2>2, <2>3 DEF MakingTypes
<1>3. Opening
  BY DEF WebInit, Opening
<1> QED
  BY <1>1, <1>2, <1>3 DEF MakingInv

\* A step of a request that has begun and leaves every context as it is.
LEMMA Asks ==
  ASSUME MakingInv, UNCHANGED <<config, making>>,
         NEW h \in Handler, pc[h] # "idle", config # NotYet,
         pc' = pc \/ \E p \in Stops \ {"idle"} : pc' = [pc EXCEPT ![h] = p],
         reports' \in [Handler -> SUBSET Telling],
         \A g \in Handler : \A r \in reports'[g] :
           \/ r \in reports[g]
           \/ g = h /\ \E m \in DOMAIN bound[h] : r = Report(h, m)
  PROVE  MakingInv'
<1> USE DEF MakingInv
<1>1. UNCHANGED <<traffic, template, pending, extended, arrays, context, bound, adds>>
  BY DEF making, scenario
<1>2. pc' \in [Handler -> Stops]
      /\ (\A g \in Handler : pc'[g] = pc[g] \/ (g = h /\ pc'[h] # "idle"))
  BY DEF MakingTypes
<1>3. MakingTypes'
  BY <1>1, <1>2 DEF MakingTypes
<1>4. Opening'
  <2>1. \A g \in Handler : pc'[g] = "idle" => pc[g] = "idle" /\ reports'[g] = {}
    <3> TAKE g \in Handler
    <3> HAVE pc'[g] = "idle"
    <3>1. g # h /\ pc[g] = "idle" /\ reports[g] = {}
      BY <1>2 DEF Opening
    <3> QED
      BY <3>1
  <2>2. pending' = << >>
    BY <1>1 DEF Opening
  <2> QED
    BY <1>1, <2>1, <2>2 DEF Opening
<1>5. Prefixes'
  BY <1>1 DEF Prefixes, Adopted, Derived, Reach, Begun
<1>6. ASSUME Full, Apart, Faithful
      PROVE  Full' /\ Apart' /\ Faithful'
  <2>1. Full' /\ Apart'
    BY <1>1, <1>6 DEF Full, Apart, Adopted
  <2>2. \A c : Safe(c) => Safe(c)'
    BY <1>1 DEF Safe, Reach, Adopted
  <2>3. \A g \in Handler : \A m \in DOMAIN bound'[g] : Safe(bound[g][m])'
    BY <1>1, <1>6, <2>2 DEF Faithful
  <2>4. ASSUME NEW g \in Handler, NEW r \in reports'[g]
        PROVE  Safe(r.context) /\ r.told = Attributes(arrays, r.context)
    BY <1>6, <2>4 DEF Faithful, Report
  <2> QED
    BY <1>1, <2>1, <2>2, <2>3, <2>4 DEF Faithful
<1> QED
  BY <1>1, <1>3, <1>4, <1>5, <1>6

\* Before the first request has a context there is only the template.
LEMMA OnlyTemplate ==
  ASSUME MakingInv, config = NotYet \/ pending # << >>, config' # NotYet,
         UNCHANGED <<pc, context, bound, adds, reports>>,
         arrays' \in Seq(Seq(Cells)), template' \in Slices, Derived(template)',
         pending' \in Seq({"base"}), extended' \in BOOLEAN, pending' # << >> => extended',
         extended' \/ Full'
  PROVE  MakingInv'
<1> USE DEF MakingInv
<1>1. MakingTypes'
  BY DEF MakingTypes
<1>2. \A h \in Handler : /\ pc[h] = "idle" /\ context[h] = NoContext
                         /\ DOMAIN bound[h] = {} /\ reports[h] = {}
  BY DEF Opening
<1>3. Opening' /\ Adopted' = {}
  BY <1>2 DEF Opening, Adopted
<1>4. Prefixes' /\ Apart'
  BY <1>2, <1>3 DEF Prefixes, Apart
<1>5. Faithful'
  BY <1>2 DEF Faithful
<1> QED
  BY <1>1, <1>3, <1>4, <1>5

LEMMA ServeMaking ==
  ASSUME MakingInv, NEW i \in Instance, Serve(i), config' # NotYet
  PROVE  MakingInv'
<1>1. PICK t \in Traffic :
        /\ arrays' = NewContext(<< >>, t.given) /\ template' = Context(1, Len(t.given))
        /\ pending' = t.added /\ extended' = (t.added # << >>)
  BY DEF Serve
<1>2. t.given \in Seq({"base"}) /\ t.added \in Seq({"base"})
  BY TrafficAssumption
<1>3. arrays' = << t.given >>
  BY <1>1 DEF NewContext, Allocated
<1>4. template'.array = 1 /\ template'.len = Len(t.given) /\ template' \in Slices
  BY <1>1, <1>2 DEF Context, Slices
<1>5. t.given \in Seq(Cells) /\ \A k \in 1..Len(t.given) : t.given[k] = "base"
  BY <1>2 DEF Cells
<1>6. arrays' \in Seq(Seq(Cells)) /\ 1 \in DOMAIN arrays' /\ arrays'[1] = t.given
  BY <1>3, <1>5
<1>7. Derived(template)' /\ Full'
  BY <1>4, <1>5, <1>6 DEF Derived, Reach, Begun, Full, Slices
<1>8. config = NotYet /\ UNCHANGED <<pc, context, bound, adds, reports>>
  BY DEF Serve
<1> QED
  BY <1>1, <1>2, <1>4, <1>6, <1>7, <1>8, OnlyTemplate

LEMMA ExtendTemplateMaking ==
  ASSUME MakingInv, ExtendTemplate, config # NotYet
  PROVE  MakingInv'
<1> DEFINE a == Head(pending)
<1>1. /\ pending # << >> /\ pending' = Tail(pending) /\ extended' = extended
      /\ arrays' = ArraysWith(arrays, template, a)
      /\ template' = ContextWith(arrays, template)
      /\ config' # NotYet /\ UNCHANGED <<pc, context, bound, adds, reports>>
  BY DEF ExtendTemplate
<1>2. MakingTypes /\ Derived(template) /\ extended = TRUE
  BY <1>1 DEF MakingInv, MakingTypes, Opening, Prefixes
<1>3. a \in {"base"} /\ pending' \in Seq({"base"})
  BY <1>1, <1>2 DEF MakingTypes
<1> HIDE DEF a
<1>4. a \in Cells /\ Blank \in Cells /\ template \in Slices /\ template.len \in Nat
  BY <1>2, <1>3 DEF Cells, MakingTypes, Slices
<1>5. /\ template.array \in DOMAIN arrays /\ template.len <= Len(arrays[template.array])
      /\ arrays \in Seq(Seq(Cells))
  BY <1>2 DEF Derived, Reach, MakingTypes
<1>6. OneMore(Cells, arrays, template, a, arrays', template')
  BY <1>1, <1>4, <1>5, AddsOne
<1>7. \A k \in 1..template'.len : k \in 1..template.len \/ k = template'.len
  BY <1>4, <1>6 DEF OneMore, Slices
<1>8. Derived(template)'
  <2>1. Begun(template)'
    BY <1>2, <1>3, <1>6, <1>7 DEF Begun, Derived, OneMore
  <2> QED
    BY <1>4, <1>6, <2>1 DEF Derived, Reach, OneMore
<1> QED
  BY <1>1, <1>2, <1>3, <1>6, <1>8, OnlyTemplate DEF OneMore

\* A manager keeps the context it is given.
LEMMA DeriveMaking ==
  ASSUME MakingInv, config # NotYet, NEW h \in Handler, NEW c \in Slices,
         Reach(c), ~extended /\ Full /\ Apart => Safe(c),
         pc[h] = "idle" => pending = << >>, pc' = [pc EXCEPT ![h] = "handling"],
         bound' = [bound EXCEPT ![h] = Append(@, c)],
         UNCHANGED <<config, traffic, template, pending, extended, arrays, context, adds,
                     reports>>
  PROVE  MakingInv'
<1>1. MakingTypes /\ Opening /\ Prefixes
  BY DEF MakingInv
<1>2. /\ \A g \in Handler \ {h} : pc'[g] = pc[g] /\ bound'[g] = bound[g]
      /\ pc'[h] = "handling" /\ bound'[h] = Append(bound[h], c) /\ bound[h] \in Seq(Slices)
  BY <1>1 DEF MakingTypes
<1>3. MakingTypes'
  <2>1. Append(bound[h], c) \in Seq(Slices)
    BY <1>2
  <2>2. bound' \in [Handler -> Seq(Slices)]
    BY <1>1, <2>1 DEF MakingTypes
  <2> QED
    BY <1>1, <2>2 DEF MakingTypes, Stops
<1>4. Opening'
  <2>1. pending = << >> /\ \A g \in Handler : pc'[g] = "idle" => g # h /\ pc[g] = "idle"
    BY <1>1, <1>2 DEF Opening
  <2> QED
    BY <1>1, <1>2, <2>1 DEF Opening
<1>5. ASSUME NEW g \in Handler, NEW m \in DOMAIN bound'[g]
      PROVE  bound'[g][m] = c \/ (m \in DOMAIN bound[g] /\ bound'[g][m] = bound[g][m])
  <2>1. CASE g = h
    <3>1. m \in 1..(Len(bound[h]) + 1) /\ bound[h] \in Seq(Slices)
      BY <1>2, <2>1
    <3> QED
      BY <1>2, <2>1, <3>1
  <2>2. CASE g # h
    BY <1>2, <2>2
  <2> QED
    BY <2>1, <2>2
<1>6. \A x : Reach(x) => Reach(x)'
  BY DEF Reach
<1>7. Prefixes'
  <2>1. \A g \in Handler : \A m \in DOMAIN bound'[g] : Reach(bound[g][m])'
    BY <1>1, <1>5, <1>6 DEF Prefixes
  <2> QED
    BY <1>1, <2>1 DEF Prefixes, Adopted, Derived, Reach, Begun
<1>8. ASSUME ~extended, Full, Apart, Faithful
      PROVE  Full' /\ Apart' /\ Faithful'
  <2>1. Full' /\ Apart'
    BY <1>8 DEF Full, Apart, Adopted
  <2>2. \A x : Safe(x) => Safe(x)'
    BY DEF Safe, Reach, Adopted
  <2>3. \A g \in Handler : \A m \in DOMAIN bound'[g] : Safe(bound[g][m])'
    BY <1>5, <1>8, <2>2 DEF Faithful
  <2>4. ASSUME NEW g \in Handler, NEW r \in reports'[g]
        PROVE  (Safe(r.context) /\ r.told = Attributes(arrays, r.context))'
    BY <1>8, <2>2 DEF Faithful
  <2> QED
    BY <2>1, <2>3, <2>4 DEF Faithful
<1> QED
  BY <1>3, <1>4, <1>7, <1>8 DEF MakingInv

\* The context of a user's ID has nothing that could be written over.
LEMMA UserContextIsSafe ==
  ASSUME MakingInv, config # NotYet
  PROVE  UserContext \in Slices /\ Reach(UserContext) /\ Safe(UserContext)
<1>1. MakingTypes /\ Derived(template)
  BY DEF MakingInv, Prefixes
<1>2. UserContext.array = 1 /\ UserContext.len = 0 /\ UserContext \in Slices
  BY DEF UserContext, Context, Slices
<1>3. 1 \in DOMAIN arrays /\ Len(arrays[1]) \in Nat
  <2>1. template.array \in 1..Len(arrays) /\ arrays \in Seq(Seq(Cells))
    BY <1>1 DEF MakingTypes, Derived, Reach
  <2>2. 1 \in 1..Len(arrays)
    BY <2>1
  <2> QED
    BY <2>1, <2>2
<1>4. \A g \in Adopted : 0 <= context[g].len
  BY <1>1 DEF Adopted, MakingTypes, Slices
<1> QED
  BY <1>2, <1>3, <1>4 DEF Reach, Safe

LEMMA InjectFlagsMaking ==
  ASSUME MakingInv, config # NotYet, NEW h \in Handler, InjectFlags(h)
  PROVE  MakingInv'
<1>1. /\ pc[h] = "idle" /\ pending = << >> /\ pc' = [pc EXCEPT ![h] = "handling"]
      /\ UNCHANGED <<config, traffic, template, pending, extended, arrays, context, adds,
                     reports>>
  BY DEF InjectFlags, Goto, scenario
<1>2. CASE traffic[h].user
  <2>1. bound' = [bound EXCEPT ![h] = Append(@, UserContext)]
    BY <1>2 DEF InjectFlags, Derive
  <2> QED
    BY <1>1, <2>1, UserContextIsSafe, DeriveMaking
<1>3. CASE ~traffic[h].user
  <2>1. UNCHANGED bound
    BY <1>3 DEF InjectFlags
  <2>2. \A g \in Handler : pc'[g] = pc[g] \/ (g = h /\ pc'[h] = "handling")
    BY <1>1 DEF MakingInv, MakingTypes
  <2>3. MakingTypes' /\ Opening'
    BY <1>1, <2>1, <2>2 DEF MakingInv, MakingTypes, Stops, Opening
  <2>4. Prefixes'
    BY <1>1, <2>1 DEF MakingInv, Prefixes, Adopted, Derived, Reach, Begun
  <2>5. Full /\ Apart /\ Faithful => Full' /\ Apart' /\ Faithful'
    BY <1>1, <2>1 DEF Full, Apart, Adopted, Faithful, Safe, Reach
  <2> QED
    BY <1>1, <2>3, <2>4, <2>5 DEF MakingInv
<1> QED
  BY <1>2, <1>3

LEMMA CopyContextMaking ==
  ASSUME MakingInv, config # NotYet, NEW h \in Handler, CopyContext(h)
  PROVE  MakingInv'
<1> USE DEF MakingInv
<1>1. /\ pc[h] = "handling" /\ context[h] = NoContext /\ adds[h] = 0 /\ config' # NotYet
      /\ context' = [context EXCEPT ![h] = template]
      /\ UNCHANGED <<traffic, template, pending, extended, arrays, bound, adds, pc, reports>>
  BY DEF CopyContext, scenario, Opening
<1>2. MakingTypes'
  BY <1>1 DEF MakingTypes, Stops
<1>3. /\ \A g \in Handler \ {h} : pc'[g] = pc[g] /\ context'[g] = context[g]
      /\ context'[h] = template
  BY <1>1 DEF MakingTypes
<1>4. Derived(template) /\ template # NoContext
  BY DEF Prefixes, Derived, Reach, MakingTypes, NoContext, Context
<1>5. Adopted' = Adopted \union {h} /\ h \notin Adopted /\ Adopted \subseteq Handler
  BY <1>1, <1>3, <1>4 DEF Adopted
<1>6. Opening'
  BY <1>1, <1>3, <1>4 DEF Opening
<1>7. Prefixes'
  BY <1>1, <1>3, <1>4, <1>5 DEF Prefixes, Derived, Reach, Begun
<1>8. ASSUME Full, Apart, Faithful
      PROVE  Full' /\ Apart' /\ Faithful'
  <2>1. Full'
    BY <1>1, <1>8 DEF Full
  <2>2. Apart'
    <3>1. \A g \in Adopted : context'[g] = context[g]
      BY <1>3, <1>5
    <3>2. \A g \in Adopted' :
            /\ context'[g].len = template.len + adds[g]
            /\ context'[g].array = template.array => adds[g] = 0
            /\ \A k \in template.len + 1..context'[g].len :
                 arrays[context'[g].array][k] = g
      <4> TAKE g \in Adopted'
      <4>1. CASE g = h
        BY <1>1, <1>3, <4>1 DEF MakingTypes, Slices
      <4>2. CASE g # h
        BY <1>5, <1>8, <3>1, <4>2 DEF Apart
      <4> QED
        BY <4>1, <4>2
    <3>3. \A f, g \in Adopted' :
            f # g /\ context'[f].array = context'[g].array =>
              context'[g].array = template.array
      BY <1>3, <1>5, <1>8, <3>1 DEF Apart
    <3> QED
      BY <1>1, <3>2, <3>3 DEF Apart
  <2>3. ASSUME NEW c, Safe(c) PROVE Safe(c)'
    BY <1>1, <1>3, <1>5, <1>8, <2>3 DEF Safe, Reach, Full
  <2>4. Faithful'
    <3>1. \A g \in Handler : \A m \in DOMAIN bound'[g] : Safe(bound[g][m])'
      BY <1>1, <1>8, <2>3 DEF Faithful
    <3>2. ASSUME NEW g \in Handler, NEW r \in reports'[g]
          PROVE  (Safe(r.context) /\ r.told = Attributes(arrays, r.context))'
      BY <1>1, <1>8, <2>3 DEF Faithful
    <3> QED
      BY <3>1, <3>2 DEF Faithful
  <2> QED
    BY <2>1, <2>2, <2>4
<1> QED
  BY <1>1, <1>2, <1>6, <1>7, <1>8

\* What a handler's AddAttribute writes is behind what the template and, if
\* NewContext made it, everybody else has.
LEMMA AddAttributeMaking ==
  ASSUME MakingInv, config # NotYet, NEW h \in Handler, AddAttribute(h)
  PROVE  MakingInv'
<1> DEFINE c == context[h]
           d == ContextWith(arrays, c)
<1>1. /\ pc[h] = "handling" /\ c # NoContext /\ config' # NotYet
      /\ adds' = [adds EXCEPT ![h] = @ + 1]
      /\ arrays' = ArraysWith(arrays, c, h) /\ context' = [context EXCEPT ![h] = d]
      /\ UNCHANGED <<traffic, template, pending, extended, bound, pc, reports>>
  BY DEF AddAttribute, scenario
<1>2. MakingTypes /\ Opening /\ Prefixes
  BY DEF MakingInv
<1>3. h \in Adopted /\ Adopted \subseteq Handler
  BY <1>1 DEF Adopted
<1>4. /\ c \in Slices /\ c.len \in Nat /\ template \in Slices /\ template.len \in Nat
      /\ Derived(c) /\ adds[h] \in Nat
  BY <1>2, <1>3 DEF MakingTypes, Slices, Prefixes
<1> HIDE DEF c, d
<1>5. OneMore(Cells, arrays, c, h, arrays', d)
  <2>1. h \in Cells /\ Blank \in Cells
    BY DEF Cells
  <2> QED
    BY <1>1, <1>2, <1>4, <2>1, AddsOne DEF MakingTypes, Derived, Reach, d
<1>6. /\ \A g \in Handler \ {h} : context'[g] = context[g] /\ adds'[g] = adds[g]
      /\ context'[h] = d /\ adds'[h] = adds[h] + 1
  BY <1>1, <1>2 DEF MakingTypes
<1>7. d \in Slices /\ d # NoContext /\ d.len = c.len + 1
  BY <1>2, <1>5 DEF OneMore, MakingTypes, NoContext, Context
<1>8. Adopted' = Adopted
  BY <1>3, <1>6, <1>7 DEF Adopted
<1>9. MakingTypes'
  <2>1. context' \in [Handler -> Slices] /\ adds' \in [Handler -> Nat]
    BY <1>1, <1>2, <1>4, <1>7 DEF MakingTypes
  <2> QED
    BY <1>1, <1>2, <1>5, <2>1 DEF MakingTypes, OneMore
<1>10. Opening'
  BY <1>1, <1>2, <1>6, <1>7 DEF Opening
<1>11. /\ \A x \in Slices : Reach(x) => Reach(x)'
       /\ \A x \in Slices : Reach(x) => \A k \in 1..x.len :
            arrays'[x.array][k] = arrays[x.array][k]
            \/ (HasRoom(arrays, c) /\ x.array = c.array /\ k = c.len + 1)
  <2> SUFFICES ASSUME NEW x \in Slices, Reach(x)
               PROVE  /\ Reach(x)'
                      /\ \A k \in 1..x.len :
                           arrays'[x.array][k] = arrays[x.array][k]
                           \/ (HasRoom(arrays, c) /\ x.array = c.array /\ k = c.len + 1)
    OBVIOUS
  <2>1. x.array \in DOMAIN arrays /\ arrays[x.array] \in Seq(Cells)
    BY <1>2 DEF Reach, MakingTypes
  <2>2. /\ x.array \in DOMAIN arrays' /\ Len(arrays'[x.array]) = Len(arrays[x.array])
        /\ \A k \in 1..Len(arrays[x.array]) :
             arrays'[x.array][k] = arrays[x.array][k]
             \/ (HasRoom(arrays, c) /\ x.array = c.array /\ k = d.len)
    BY <1>5, <2>1 DEF OneMore
  <2>3. x.len <= Len(arrays[x.array]) /\ x.len \in Nat /\ Len(arrays[x.array]) \in Nat
    BY <2>1 DEF Reach, Slices
  <2>4. \A k \in 1..x.len : k \in 1..Len(arrays[x.array])
    BY <2>3
  <2>5. Reach(x)'
    BY <2>2, <2>3 DEF Reach
  <2> QED
    BY <1>7, <2>2, <2>4, <2>5
<1>12. \A x \in Slices : Derived(x) => Derived(x)'
  <2> SUFFICES ASSUME NEW x \in Slices, Derived(x) PROVE Derived(x)'
    OBVIOUS
  <2>1. \A k \in 1..template.len : k \in 1..x.len /\ k # c.len + 1
    BY <1>4 DEF Derived, Slices
  <2>2. \A k \in 1..template.len : arrays'[x.array][k] = "base"
    BY <1>11, <2>1 DEF Derived, Begun
  <2> QED
    BY <1>1, <1>11, <2>2 DEF Derived, Begun
<1>13. Prefixes'
  <2>1. \A g \in Adopted : g # h => Derived(context[g])'
    BY <1>2, <1>3, <1>6, <1>12 DEF Prefixes, MakingTypes, Derived, Reach, Begun
  <2>2. Derived(context[h])'
    <3>1. \A k \in 1..template.len : k \in 1..c.len
      BY <1>4 DEF Derived
    <3>2. \A k \in 1..template.len : arrays'[d.array][k] = "base"
      BY <1>4, <1>5, <3>1 DEF Derived, Begun, OneMore
    <3>3. d.array \in DOMAIN arrays' /\ d.len <= Len(arrays'[d.array])
          /\ template.len <= d.len
      BY <1>4, <1>5, <1>7 DEF Derived, OneMore
    <3> QED
      BY <1>1, <1>6, <3>2, <3>3 DEF Derived, Reach, Begun
  <2>3. Derived(template)'
    BY <1>1, <1>2, <1>4, <1>12 DEF Prefixes, Derived, Reach, Begun
  <2>4. \A g \in Handler : \A m \in DOMAIN bound'[g] : Reach(bound[g][m])'
    <3> SUFFICES ASSUME NEW g \in Handler, NEW m \in DOMAIN bound[g]
                 PROVE  Reach(bound[g][m])'
      BY <1>1
    <3>1. bound[g][m] \in Slices /\ Reach(bound[g][m])
      BY <1>2 DEF Prefixes, MakingTypes
    <3> QED
      BY <1>1, <1>11, <3>1 DEF Reach
  <2> QED
    BY <1>8, <2>1, <2>2, <2>3, <2>4 DEF Prefixes
<1>14. ASSUME Full, Apart, Faithful
       PROVE  Full' /\ Apart' /\ Faithful'
  <2>1. HasRoom(arrays, c) => c.array # template.array
    BY <1>4, <1>14 DEF HasRoom, Full, Derived
  <2>2. HasRoom(arrays, c) => \A g \in Adopted : context[g].array = c.array => g = h
    BY <1>3, <1>14, <2>1 DEF Apart, c
  <2>3. Full'
    BY <1>1, <1>2, <1>5, <1>14 DEF Full, OneMore, Prefixes, Derived, Reach
  <2>4. d.array # template.array /\ \A g \in Adopted : g # h => context[g].array # d.array
    <3>1. /\ template.array \in DOMAIN arrays
          /\ \A g \in Adopted : context[g].array \in DOMAIN arrays
      BY <1>2 DEF Prefixes, Derived, Reach
    <3>2. CASE HasRoom(arrays, c)
      BY <1>5, <2>1, <2>2, <3>2 DEF OneMore
    <3>3. CASE ~HasRoom(arrays, c)
      BY <1>5, <3>1, <3>3 DEF OneMore
    <3> QED
      BY <3>2, <3>3
  <2>5. Apart'
    <3>1. \A k \in template.len + 1..d.len : arrays'[d.array][k] = h
      <4> TAKE k \in template.len + 1..d.len
      <4>1. CASE k = d.len
        BY <1>5, <4>1 DEF OneMore
      <4>2. CASE k # d.len
        <5>1. k \in 1..c.len /\ k \in template.len + 1..c.len
          BY <1>4, <1>7, <4>2
        <5>2. arrays[c.array][k] = h
          BY <1>3, <1>14, <5>1 DEF Apart, c
        <5> QED
          BY <1>5, <5>1, <5>2 DEF OneMore
      <4> QED
        BY <4>1, <4>2
    <3>2. d.len = template.len + adds'[h]
      BY <1>3, <1>4, <1>6, <1>7, <1>14 DEF Apart, c
    <3>3. ASSUME NEW g \in Adopted, g # h,
                 NEW k \in template.len + 1..context[g].len
          PROVE  arrays'[context[g].array][k] = g
      <4>1. context[g] \in Slices /\ Reach(context[g]) /\ k \in 1..context[g].len
        BY <1>2, <1>3, <1>4 DEF MakingTypes, Prefixes, Derived, Slices
      <4>2. arrays[context[g].array][k] = g
        BY <1>14 DEF Apart
      <4> QED
        BY <1>11, <2>2, <3>3, <4>1, <4>2
    <3>4. ASSUME NEW g \in Adopted
          PROVE  /\ context'[g].len = template.len + adds'[g]
                 /\ context'[g].array = template.array => adds'[g] = 0
                 /\ \A k \in template.len + 1..context'[g].len :
                      arrays'[context'[g].array][k] = g
      <4>1. CASE g = h
        BY <1>6, <2>4, <3>1, <3>2, <4>1
      <4>2. CASE g # h
        BY <1>3, <1>6, <1>14, <3>3, <4>2 DEF Apart
      <4> QED
        BY <4>1, <4>2
    <3>5. ASSUME NEW f \in Adopted, NEW g \in Adopted, f # g,
                 context'[f].array = context'[g].array
          PROVE  context'[g].array = template.array
      BY <1>3, <1>6, <1>14, <2>4, <3>5 DEF Apart
    <3> QED
      BY <1>1, <1>8, <3>4, <3>5 DEF Apart
  <2>6. ASSUME NEW x \in Slices, Safe(x)
        PROVE  Safe(x)' /\ Attributes(arrays', x) = Attributes(arrays, x)
    <3>1. ASSUME NEW g \in Adopted, context'[g].array = x.array
          PROVE  x.len <= context'[g].len
      <4>1. CASE g # h
        BY <1>3, <1>6, <2>6, <3>1, <4>1 DEF Safe
      <4>2. CASE g = h
        <5>1. d.array = c.array
          BY <1>5, <1>6, <2>6, <3>1, <4>2 DEF OneMore, Safe, Reach
        <5>2. x.len <= c.len
          BY <1>3, <1>6, <2>6, <3>1, <4>2, <5>1 DEF Safe, c
        <5> QED
          BY <1>4, <1>6, <1>7, <4>2, <5>2 DEF Slices
      <4> QED
        BY <4>1, <4>2
    <3>2. Safe(x)'
      BY <1>8, <1>11, <2>6, <3>1 DEF Safe
    <3>3. \A k \in 1..x.len : arrays'[x.array][k] = arrays[x.array][k]
      <4> TAKE k \in 1..x.len
      <4>1. ASSUME x.array = c.array, k = c.len + 1 PROVE FALSE
        BY <1>3, <1>4, <2>6, <4>1 DEF Safe, c, Slices
      <4> QED
        BY <1>11, <2>6, <4>1 DEF Safe
    <3>4. /\ arrays[x.array] \in Seq(Cells) /\ arrays'[x.array] \in Seq(Cells)
          /\ Len(arrays'[x.array]) = Len(arrays[x.array])
          /\ x.len \in Nat /\ x.len <= Len(arrays[x.array])
      <4>1. x.array \in DOMAIN arrays /\ x.len <= Len(arrays[x.array]) /\ x.len \in Nat
        BY <2>6 DEF Safe, Reach, Slices
      <4>2. x.array \in DOMAIN arrays' /\ Len(arrays'[x.array]) = Len(arrays[x.array])
        BY <1>5, <4>1 DEF OneMore
      <4> QED
        BY <1>2, <1>9, <4>1, <4>2 DEF MakingTypes
    <3> QED
      BY <3>2, <3>3, <3>4, SameCells DEF Attributes
  <2>7. Faithful'
    <3>1. ASSUME NEW g \in Handler, NEW m \in DOMAIN bound'[g]
          PROVE  Safe(bound[g][m])'
      <4>1. bound'[g][m] = bound[g][m] /\ bound[g][m] \in Slices /\ Safe(bound[g][m])
        BY <1>1, <1>2, <1>14, <3>1 DEF Faithful, MakingTypes
      <4> QED
        BY <2>6, <4>1 DEF Safe, Reach
    <3>2. ASSUME NEW g \in Handler, NEW r \in reports'[g]
          PROVE  (Safe(r.context) /\ r.told = Attributes(arrays, r.context))'
      <4>1. r \in reports[g] /\ r.context \in Slices
        BY <1>1, <1>2 DEF MakingTypes, Telling
      <4> QED
        BY <1>14, <2>6, <4>1 DEF Faithful
    <3> QED
      BY <3>1, <3>2 DEF Faithful
  <2> QED
    BY <2>3, <2>5, <2>7
<1> QED
  BY <1>1, <1>9, <1>10, <1>13, <1>14 DEF MakingInv

\* The context a manager is given stays as it is: the request's next attribute
\* goes behind it.
LEMMA WithContextMaking ==
  ASSUME MakingInv, config # NotYet, NEW h \in Handler, NEW m, WithContext(h, m)
  PROVE  MakingInv'
<1> DEFINE c == context[h]
<1>1. /\ pc[h] = "handling" /\ c # NoContext /\ bound' = [bound EXCEPT ![h] = Append(@, c)]
      /\ UNCHANGED <<config, traffic, template, pending, extended, arrays, context, adds,
                     pc, reports>>
  BY DEF WithContext, Derive, scenario
<1>2. MakingTypes /\ Opening /\ Prefixes
  BY DEF MakingInv
<1>3. h \in Adopted /\ Adopted \subseteq Handler /\ c \in Slices /\ Derived(c)
  BY <1>1, <1>2 DEF Adopted, MakingTypes, Prefixes
<1> HIDE DEF c
<1>4. ASSUME Apart PROVE Safe(c)
  <2> SUFFICES ASSUME NEW g \in Adopted, context[g].array = c.array
               PROVE  c.len <= context[g].len
    BY <1>3 DEF Safe, Derived
  <2>1. context[g] \in Slices /\ template.len \in Nat /\ template.len <= context[g].len
    BY <1>2, <1>3 DEF MakingTypes, Slices, Prefixes, Derived
  <2>2. CASE g = h
    BY <2>1, <2>2 DEF c, Slices
  <2>3. CASE g # h
    <3>1. adds[h] = 0 /\ c.len = template.len + adds[h]
      BY <1>3, <1>4, <2>3 DEF Apart, c
    <3> QED
      BY <2>1, <3>1
  <2> QED
    BY <2>2, <2>3
<1>5. pc' = [pc EXCEPT ![h] = "handling"]
  BY <1>1, <1>2 DEF MakingTypes
<1> QED
  BY <1>1, <1>3, <1>4, <1>5, DeriveMaking DEF Derived

\* A report is of a context its manager has.
LEMMA ReportTells ==
  ASSUME MakingInv, config # NotYet, NEW h \in Handler, NEW m \in DOMAIN bound[h]
  PROVE  Report(h, m) \in Telling
<1>1. bound[h][m] \in Slices /\ MakingTypes /\ Reach(bound[h][m])
  BY DEF MakingInv, MakingTypes, Prefixes
<1> QED
  BY <1>1, AttributesOf DEF Report, Telling

LEMMA StepMaking ==
  ASSUME MakingInv, config # NotYet, NEW h \in Handler, Step(h)
  PROVE  MakingInv'
<1> USE DEF Goto
<1>1. MakingTypes /\ Opening
  BY DEF MakingInv
<1>2. reports \in [Handler -> SUBSET Telling]
  BY <1>1 DEF MakingTypes
<1>3. CASE \/ \E m \in Managers(h) : Single(h, m) \/ RefreshRules(h, m)
           \/ DeleteEntry(h) \/ Read(h) \/ Lookup(h) \/ Fetch(h) \/ FetchFails(h)
           \/ Store(h) \/ Install(h)
  <2>1. UNCHANGED <<config, making, reports>> /\ pc[h] # "idle"
    BY <1>3 DEF Single, RefreshRules, Call, DeleteEntry, Read, Lookup, Fetch, FetchFails,
                Store, Install, loading
  <2>2. \E p \in Stops \ {"idle"} : pc' = [pc EXCEPT ![h] = p]
    BY <1>3 DEF Single, RefreshRules, DeleteEntry, Read, Lookup, Fetch, Fetched, FetchFails,
                Store, Install, Stops
  <2> QED
    BY <1>2, <2>1, <2>2, Asks
<1>4. CASE Edit(h) \/ Send(h)
  <2>1. UNCHANGED <<config, making, pc>> /\ pc[h] # "idle"
    BY <1>1, <1>4 DEF Edit, Send, Opening
  <2>2. /\ reports' \in [Handler -> SUBSET Telling]
        /\ \A g \in Handler : reports'[g] \subseteq reports[g]
    BY <1>2, <1>4 DEF Edit, Send
  <2> QED
    BY <2>1, <2>2, Asks
<1>5. CASE Answer(h) \/ \E m \in Managers(h) : ReportUsage(h, m)
  <2>1. /\ UNCHANGED <<config, making>> /\ pc[h] \in {"loaded", "handling"}
        /\ pc' = pc \/ pc' = [pc EXCEPT ![h] = "handling"]
    BY <1>5 DEF Answer, ReportUsage
  <2>2. \/ reports' = reports
        \/ \E m \in DOMAIN bound[h] :
             reports' = [reports EXCEPT ![h] = @ \union {Report(h, m)}]
    BY <1>5 DEF Answer, ReportUsage, Reporting, Reported
  <2>3. reports' \in [Handler -> SUBSET Telling]
    BY <1>2, <2>2, ReportTells
  <2>4. \A g \in Handler : \A r \in reports'[g] :
          r \in reports[g] \/ (g = h /\ \E m \in DOMAIN bound[h] : r = Report(h, m))
    BY <1>2, <2>2
  <2> QED
    BY <2>1, <2>3, <2>4, Asks DEF Stops
<1> QED
  BY <1>3, <1>4, <1>5, InjectFlagsMaking, CopyContextMaking, AddAttributeMaking,
     WithContextMaking DEF Step

LEMMA MakingStep == MakingInv /\ [WebNext]_<<vars, web>> => MakingInv'
<1> SUFFICES ASSUME MakingInv, [WebNext]_<<vars, web>> PROVE MakingInv'
  OBVIOUS
<1>1. CASE UNCHANGED <<config, making, pc, reports>>
  BY <1>1
  DEF making, scenario, MakingInv, MakingTypes, Opening, Prefixes, Derived, Reach, Begun,
      Adopted, Full, Apart, Faithful, Safe, Attributes
<1>2. CASE UNCHANGED web \/ Publish \/ EntryExpires
  BY <1>1, <1>2 DEF web, Publish, EntryExpires
<1>3. ASSUME NEW i \in Instance, Serve(i) PROVE MakingInv'
  BY <1>3, ServeMaking DEF Serve, Accepted
<1> QED
  BY <1>2, <1>3, ExtendTemplateMaking, StepMaking DEF WebNext

LEMMA MakingConsequences ==
  ASSUME MakingInv
  PROVE  NoCrossTalk
<1> SUFFICES ASSUME config # NotYet, NEW h \in Handler
             PROVE  /\ context[h] # NoContext =>
                         LET own == Attributes(arrays, context[h]) IN
                         IF extended
                         THEN SubSeq(own, 1, template.len) = Expected(h, template.len)
                         ELSE own = Expected(h, template.len + adds[h])
                    /\ extended \/ \A r \in reports[h] :
                                     Attributes(arrays, r.context) = r.told
  BY DEF NoCrossTalk
<1>1. MakingTypes /\ Prefixes /\ template.len \in Nat
  BY DEF MakingInv, MakingTypes, Slices
<1>2. extended \/ \A r \in reports[h] : Attributes(arrays, r.context) = r.told
  BY DEF MakingInv, Faithful
<1>3. ASSUME context[h] # NoContext
      PROVE  LET own == Attributes(arrays, context[h]) IN
             IF extended
             THEN SubSeq(own, 1, template.len) = Expected(h, template.len)
             ELSE own = Expected(h, template.len + adds[h])
  <2> DEFINE c == context[h]
             own == Attributes(arrays, c)
  <2>1. h \in Adopted /\ c \in Slices /\ c.len \in Nat /\ Derived(c)
    BY <1>1, <1>3 DEF Adopted, MakingTypes, Slices, Prefixes
  <2>2. /\ own \in Seq(Cells) /\ Len(own) = c.len
        /\ \A k \in 1..c.len : own[k] = arrays[c.array][k]
    BY <1>1, <2>1, AttributesOf DEF Derived
  <2>3. template.len <= c.len /\ \A k \in 1..template.len : arrays[c.array][k] = "base"
    BY <2>1 DEF Derived, Begun
  <2> HIDE DEF own
  <2>4. CASE extended
    <3> DEFINE s == SubSeq(own, 1, template.len)
    <3>1. /\ s \in Seq(Cells) /\ Len(s) = template.len
          /\ \A k \in 1..template.len : s[k] = own[k]
      <4>1. template.len <= Len(own)
        BY <2>2, <2>3
      <4> QED
        BY <1>1, <2>2, <4>1, CellsOf
    <3> HIDE DEF s
    <3>2. \A k \in 1..template.len : own[k] = "base"
      <4>1. \A k \in 1..template.len : k \in 1..c.len
        BY <1>1, <2>1, <2>3
      <4> QED
        BY <2>2, <2>3, <4>1
    <3>3. s = Expected(h, template.len)
      BY <1>1, <3>1, <3>2 DEF Expected
    <3> QED
      BY <2>4, <3>3 DEF s, own
  <2>5. CASE ~extended
    <3>1. c.len = template.len + adds[h]
          /\ \A k \in template.len + 1..c.len : arrays[c.array][k] = h
      BY <2>1, <2>5 DEF MakingInv, Apart
    <3>2. \A k \in 1..c.len : own[k] = IF k <= template.len THEN "base" ELSE h
      BY <1>1, <2>1, <2>2, <2>3, <3>1
    <3>3. own = Expected(h, c.len)
      BY <2>1, <2>2, <3>2 DEF Expected
    <3> QED
      BY <2>5, <3>1, <3>3 DEF own
  <2> QED
    BY <2>4, <2>5
<1> QED
  BY <1>2, <1>3

-----------------------------------------------------------------------------
LEMMA Inductive == WebSpec => []WebInv
BY InitInv, StepInv, PTL DEF WebSpec

LEMMA MakingInductive == WebSpec => []MakingInv
BY MakingBegins, MakingStep, PTL DEF WebSpec

LEMMA InstancesInductive == WebSpec => []InstanceInv
<1>1. WebInit => InstanceInv
  BY Begins DEF WebInit
<1>2. [WebNext]_<<vars, web>> => [Next]_vars
  BY DEF WebNext, Serve
<1> QED
  BY <1>1, <1>2, InstanceStep, PTL DEF WebSpec

\* An instance gets rules of another environment only through a directory or a
\* custom cache that both were given (flag_manager.go:10, config.go:175, :197).
THEOREM OnlySharedRulesAreForeign == WebSpec => []ForeignRulesAreShared
<1>1. InstanceInv => ForeignRulesAreShared
  BY Consequences
<1> QED
  BY <1>1, InstancesInductive, PTL

\* Rules are cached for the time that was asked for last, if it fits 64 bits
\* (config.go:76), by an instance of their environment.
THEOREM LifetimesAreAsked == WebSpec => []LifetimeIsAsked
<1>1. InstanceInv => LifetimeIsAsked
  BY Consequences
<1> QED
  BY <1>1, InstancesInductive, PTL

\* Whatever the order of calls, what Build (config.go:174-222) accepts is usable.
THEOREM BuildsAreUsable == WebSpec => []AcceptedIsUsable
<1>1. InstanceInv => AcceptedIsUsable
  BY Consequences
<1> QED
  BY <1>1, InstancesInductive, PTL

\* Rules are marshalled into the cache before a handler can have edited them
\* (flag_manager.go:277, :286), however many there are.
THEOREM EditsNeverStored == WebSpec => []EditsStayInMemory
<1>1. WebInv => EditsStayInMemory
  BY DEF WebInv
<1> QED
  BY <1>1, Inductive, PTL

\* A manager that is derived from one of the request's own with rules answers with
\* those, at whatever remove, until it is itself refreshed (flag_manager.go:72,
\* :106, :251), whatever other requests load, refresh or publish.
THEOREM RequestsAreConsistent == WebSpec => []RequestIsConsistent
<1>1. ASSUME WebInv PROVE RequestIsConsistent
  <2>1. \A h \in Handler : Consistent(h)
    BY <1>1 DEF WebInv, RequestInv
  <2> QED
    BY <2>1 DEF Consistent, RequestIsConsistent
<1> QED
  BY <1>1, Inductive, PTL

\* Requests that copy one context of NewContext (context.go:40) and add to their
\* copies never see each other's attributes, and what a report sends is what was
\* evaluated (flag_manager.go:312); of a context that was itself added to
\* (context.go:95), what was copied stays.
THEOREM ContextsAreApart == WebSpec => []NoCrossTalk
<1>1. MakingInv => NoCrossTalk
  BY MakingConsequences
<1> QED
  BY <1>1, MakingInductive, PTL
=============================================================================
