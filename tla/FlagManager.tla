----------------------------- MODULE FlagManager -----------------------------
(***************************************************************************)
(* The flag manager of the SDK: a family of managers (a root and the       *)
(* clones WithContext / WithDefaults derive from it) that share one cache, *)
(* one API client and one table of warned types, each with its own pointer *)
(* to an immutable index of rules, used by goroutines that call Single,    *)
(* All and RefreshRules concurrently.                                      *)
(*                                                                         *)
(* A rules payload is the number of the version the server published: the  *)
(* server, the cache and every index are compared by it.  The cache is     *)
(* what loadRules sees of it: no entry, bytes that do not decode, a        *)
(* version, or a document that decodes although the server never sent it;  *)
(* CacheContract and its implementations look inside it.                   *)
(***************************************************************************)
EXTENDS Integers, Sequences, FiniteSets, FiniteSetsExt

CONSTANTS Manager,     \* identities of flag managers, the root included
          Root,        \* the manager NewFlagManager makes
          Goroutine,   \* the goroutines of the program
          Call,        \* the calls they make: records [op, key, inline]
          Payload,     \* document -> sequence of flags [key, type, broken]
          Key,         \* flag keys
          EmptyKey,    \* the key "" (a member of Key or not)
          Collection,  \* the defaults collections a program makes: sets of keys
          Type,        \* flag types that occur in payloads
          UnknownType, \* those this release does not know
          Backend,     \* "memory", "filesystem" or "null"
          MaxVersion   \* bound on the versions the server publishes

Version  == 1..MaxVersion        \* what the server publishes
Foreign  == 0                   \* JSON of another program, such as {}
Document == Foreign..MaxVersion \* whatever decodes, checked no further
Nil      == -1                  \* a nil *flagIndex
NoEntry  == -1                  \* the cache misses
Corrupt  == -2                  \* the cache holds bytes that do not decode

Flag == [key : Key, type : Type, broken : BOOLEAN]

ASSUME RootAssumption    == Root \in Manager
ASSUME VersionAssumption == MaxVersion \in Nat \ {0}
ASSUME PayloadAssumption == Payload \in [Document -> Seq(Flag)]
ASSUME CallAssumption    ==
  /\ Call # {}
  /\ Call \subseteq [op : {"single", "all", "refresh"}, key : Key, inline : BOOLEAN]
ASSUME CollectionAssumption == Collection \subseteq SUBSET Key
ASSUME BackendAssumption == Backend \in {"memory", "filesystem", "null"}

VARIABLES published, \* the version the API serves
          live,      \* the managers that exist
          rules,     \* m.rules: the version of the index, or Nil
          defaults,  \* m.defaults: the keys of its collection
          warnRef,   \* m.warnedTypes: the manager that allocated the table
          warned,    \* the unknown types stored in each table
          warnings,  \* how often each unknown type has been logged
          cache,     \* the entry under rulesCacheKey
          pc, on, call,  \* where a goroutine is, on which manager, in which call
          idx,       \* the index its loadRules has in hand
          at,        \* All: the position in idx.rules.Flags
          out,       \* All: the flags evaluated so far
          ret,       \* the answer of its last call
          usage,     \* the default its last call reported with its usage
          since,     \* history: published when its call began
          clean      \* history: nothing disturbed its call (see Overlap)

family == <<live, defaults, warnRef>>
log    == <<warned, warnings>>
vars   == <<published, live, rules, defaults, warnRef, warned, warnings, cache,
            pc, on, call, idx, at, out, ret, usage, since, clean>>

PC == {"idle", "delete", "read", "lookup", "fetch", "store", "adopt",
       "install", "loaded", "flags"}

\* The places between the start of a load and its end.
Loading == {"delete", "read", "lookup", "fetch", "store", "adopt", "install"}

Default == {"inline", "collection", "nil", "unsent"}
Answer  == [kind : {"none", "flag", "default", "notFound", "loadError",
                    "evalError", "list", "refreshed"},
            version : Nil..MaxVersion, default : Default]
None    == [kind |-> "none", version |-> Nil, default |-> "nil"]

-----------------------------------------------------------------------------
(* The payload and its index.                                              *)

Known(f) == f.type \notin UnknownType                     \* isKnownFlagType

\* Mutant: the last occurrence wins.
ByKey_Last(v, k) == Payload[v][Max({i \in DOMAIN Payload[v] : Payload[v][i].key = k})]

\* newFlagIndex: the entry byKey has for a key is its first occurrence.
Places(v, k) == {i \in DOMAIN Payload[v] : Payload[v][i].key = k}
Indexed(v, k) == v # Nil /\ Places(v, k) # {}
ByKey(v, k)   == Payload[v][Min(Places(v, k))]

\* The table a manager logs to, and whether a type is new to it.
AlreadyWarned(m, t) == t \in warned[warnRef[m]]

\* Mutant: the collection wins over the inline default.
EffectiveDefault_Collection(m, c) ==
  IF c.key \in defaults[m] THEN "collection"
  ELSE IF c.inline THEN "inline" ELSE "nil"

\* resolveEffectiveDefault.
EffectiveDefault(m, c) ==
  IF c.inline THEN "inline"
  ELSE IF c.key \in defaults[m] THEN "collection" ELSE "nil"

\* Mutant: the inline default is not looked at.
ServedDefault_NoInline(m, c) ==
  IF c.key \in defaults[m] THEN "collection" ELSE "nil"

\* Single: the default it serves when the flag cannot be evaluated.
ServedDefault(m, c) ==
  IF c.inline THEN "inline"
  ELSE IF c.key \in defaults[m] THEN "collection" ELSE "nil"

\* reportUsageAsync sends nothing for the empty key.
Report(c, d) == IF c.key = EmptyKey THEN "unsent" ELSE d

Fallible == Backend = "filesystem"   \* the cache operations that can fail

-----------------------------------------------------------------------------
Init ==
  /\ published = 1
  /\ live      = {Root}
  /\ rules     = [m \in Manager |-> Nil]
  /\ defaults  = [m \in Manager |-> {}]
  /\ warnRef   = [m \in Manager |-> m]
  /\ warned    = [m \in Manager |-> {}]
  /\ warnings  = [t \in UnknownType |-> 0]
  /\ cache     = NoEntry
  /\ pc        = [g \in Goroutine |-> "idle"]
  /\ on        = [g \in Goroutine |-> Root]
  /\ call      = [g \in Goroutine |-> CHOOSE c \in Call : TRUE]
  /\ idx       = [g \in Goroutine |-> Nil]
  /\ at        = [g \in Goroutine |-> 1]
  /\ out       = [g \in Goroutine |-> << >>]
  /\ ret       = [g \in Goroutine |-> None]
  /\ usage     = [g \in Goroutine |-> "unsent"]
  /\ since     = [g \in Goroutine |-> 1]
  /\ clean     = [g \in Goroutine |-> TRUE]

-----------------------------------------------------------------------------
(* The environment: the server, and the clones a program derives.          *)

Publish ==
  /\ published < MaxVersion
  /\ published' = published + 1
  /\ UNCHANGED <<family, log, rules, cache, pc, on, call, idx, at, out, ret,
                 usage, since, clean>>

\* Mutant: every clone gets a table of its own, as NewFlagManager gives it.
CloneTable_Fresh(m, n) == n

\* Mutant: the clone begins without rules.
CloneRules_Nil(m) == Nil

\* clone(): the index is copied by pointer, under the receiver's read lock.
CloneRules(m)  == rules[m]
CloneTable(m, n) == warnRef[m]

\* WithContext keeps the receiver's defaults, WithDefaults(d) replaces them.
Clone(m, n, d) ==
  /\ m \in live /\ n \in Manager \ live
  /\ live'     = live \union {n}
  /\ rules'    = [rules EXCEPT ![n] = CloneRules(m)]
  /\ warnRef'  = [warnRef EXCEPT ![n] = CloneTable(m, n)]
  /\ defaults' = [defaults EXCEPT ![n] = d]
  /\ UNCHANGED <<published, log, cache, pc, on, call, idx, at, out, ret, usage,
                 since, clean>>

WithContext(m, n)     == Clone(m, n, defaults[m])
WithDefaults(m, n, d) == Clone(m, n, d)

-----------------------------------------------------------------------------
(* A call begins.  RefreshRules drops the index first, then the cache entry.*)

Busy(g) == pc[g] \in Loading

\* A call is undisturbed if no other load, of this process or of another, overlapped
\* it and, for a refresh, the cache really dropped its entry.
Overlap(g) == [h \in Goroutine |->
                 IF h = g THEN \A k \in Goroutine \ {g} : ~Busy(k)
                          ELSE clean[h] /\ ~Busy(h)]

Start(g, m, c) ==
  /\ pc[g] = "idle" /\ m \in live
  /\ on'    = [on EXCEPT ![g] = m]
  /\ call'  = [call EXCEPT ![g] = c]
  /\ idx'   = [idx EXCEPT ![g] = Nil]
  /\ at'    = [at EXCEPT ![g] = 1]
  /\ out'   = [out EXCEPT ![g] = << >>]
  /\ ret'   = [ret EXCEPT ![g] = None]
  /\ usage' = [usage EXCEPT ![g] = "unsent"]
  /\ since' = [since EXCEPT ![g] = published]
  /\ clean' = Overlap(g)
  /\ UNCHANGED <<published, family, log, cache>>

BeginRead(g, m, c) ==                              \* Single and All
  /\ c.op \in {"single", "all"}
  /\ Start(g, m, c)
  /\ pc' = [pc EXCEPT ![g] = "read"]
  /\ UNCHANGED rules

BeginRefresh(g, m, c) ==
  /\ c.op = "refresh"
  /\ Start(g, m, c)
  /\ pc' = [pc EXCEPT ![g] = "delete"]
  /\ rules' = [rules EXCEPT ![m] = Nil]

\* A step of goroutine g from place a to place b, on its own variables.
Goto(g, a, b) == pc[g] = a /\ pc' = [pc EXCEPT ![g] = b]

\* Mutant: the refresh forgets the shared cache.
CacheAfterDelete_Kept == cache

\* What the cache holds once its Delete has succeeded.
CacheAfterDelete == NoEntry

DeleteEntry(g) ==
  /\ Goto(g, "delete", "read")
  /\ cache' = CacheAfterDelete
  /\ UNCHANGED <<published, family, log, rules, on, call, idx, at, out, ret,
                 usage, since, clean>>

\* _ = m.cache.Delete(...): a failing Delete goes unnoticed.
DeleteFails(g) ==
  /\ Fallible
  /\ Goto(g, "delete", "read")
  /\ clean' = [clean EXCEPT ![g] = FALSE]
  /\ UNCHANGED <<published, family, log, rules, cache, on, call, idx, at, out,
                 ret, usage, since>>

-----------------------------------------------------------------------------
(* loadRules, one step per place where another goroutine can come between. *)

\* Mutant: the fast path is lost.
InMemory_Never(g) == FALSE

\* The fast path: an index in memory is used as it is.
InMemory(g) == rules[on[g]] # Nil

ReadRules(g) ==
  /\ InMemory(g)
  /\ Goto(g, "read", "loaded")
  /\ idx' = [idx EXCEPT ![g] = rules[on[g]]]
  /\ UNCHANGED <<published, family, log, rules, cache, on, call, at, out, ret,
                 usage, since, clean>>

NoRules(g) ==
  /\ ~InMemory(g)
  /\ Goto(g, "read", "lookup")
  /\ UNCHANGED <<published, family, log, rules, cache, on, call, idx, at, out,
                 ret, usage, since, clean>>

\* Mutant: an entry that does not decode is taken for rules.
Decodes_Any == cache # NoEntry

\* Get finds an entry and it unmarshals, whoever wrote it and whatever it lacks.
Decodes == cache \in Document

CacheHit(g) ==
  /\ Decodes
  /\ Goto(g, "lookup", "adopt")
  /\ idx' = [idx EXCEPT ![g] = cache]
  /\ UNCHANGED <<published, family, log, rules, cache, on, call, at, out, ret,
                 usage, since, clean>>

\* A miss, an entry that does not decode and an error of Get all lead here.
CacheMiss(g) ==
  /\ ~Decodes \/ Fallible
  /\ Goto(g, "lookup", "fetch")
  /\ UNCHANGED <<published, family, log, rules, cache, on, call, idx, at, out,
                 ret, usage, since, clean>>

FetchOk(g) ==
  /\ Goto(g, "fetch", "store")
  /\ idx' = [idx EXCEPT ![g] = published]
  /\ UNCHANGED <<published, family, log, rules, cache, on, call, at, out, ret,
                 usage, since, clean>>

\* Mutant: loadRules tries again for as long as the API is down.
AfterFailure_Retry == "lookup"

\* loadRules returns the error; the index stays Nil.
AfterFailure == "loaded"

FetchFails(g) ==
  /\ Goto(g, "fetch", AfterFailure)
  /\ UNCHANGED <<published, family, log, rules, cache, on, call, idx, at, out,
                 ret, usage, since, clean>>

\* What the cache holds after a Set: the null cache keeps nothing.
Kept(v) == IF Backend = "null" THEN NoEntry ELSE v

\* cache.Set succeeds.
Store(g) ==
  /\ Goto(g, "store", "install")
  /\ cache' = Kept(idx[g])
  /\ UNCHANGED <<published, family, log, rules, on, call, idx, at, out, ret,
                 usage, since, clean>>

\* cache.Set fails, before or in the middle of its write; it is only logged.
StoreFails(g) ==
  /\ Fallible
  /\ Goto(g, "store", "install")
  /\ cache' \in {cache, Corrupt}
  /\ UNCHANGED <<published, family, log, rules, on, call, idx, at, out, ret,
                 usage, since, clean>>

\* m.rules = idx, for an index from the cache or from the API.
Install(g) ==
  /\ Goto(g, "adopt", "loaded") \/ Goto(g, "install", "loaded")
  /\ rules' = [rules EXCEPT ![on[g]] = idx[g]]
  /\ UNCHANGED <<published, family, log, cache, on, call, idx, at, out, ret,
                 usage, since, clean>>

-----------------------------------------------------------------------------
(* The rest of each call.                                                  *)

\* The variables a returning goroutine leaves alone.
Return(g, a, answer, report) ==
  /\ Goto(g, a, "idle")
  /\ ret'   = [ret EXCEPT ![g] = answer]
  /\ usage' = [usage EXCEPT ![g] = report]
  /\ UNCHANGED <<published, family, rules, cache, on, call, idx, at, since,
                 clean>>

Error(kind, v) == [kind |-> kind, version |-> v, default |-> "nil"]

\* warnUnknownFlagType: LoadOrStore, then a log line if it stored.
Warn(m, t) ==
  /\ warned'   = [warned EXCEPT ![warnRef[m]] = @ \union {t}]
  /\ warnings' = IF AlreadyWarned(m, t) THEN warnings
                 ELSE [warnings EXCEPT ![t] = @ + 1]

RefreshReturns(g) ==
  /\ call[g].op = "refresh"
  /\ Return(g, "loaded", Error(IF idx[g] = Nil THEN "loadError" ELSE "refreshed",
                               idx[g]), "unsent")
  /\ UNCHANGED <<log, out>>

\* The flag is in the index, of a known type: evaluate it.
SingleEvaluates(g) ==
  LET c == call[g]
      f == ByKey(idx[g], c.key)
  IN /\ c.op = "single"
     /\ Indexed(idx[g], c.key) /\ Known(f)
     /\ IF f.broken
          THEN Return(g, "loaded", Error("evalError", idx[g]), "unsent")
          ELSE Return(g, "loaded",
                      [kind |-> "flag", version |-> idx[g], default |-> "nil"],
                      Report(c, EffectiveDefault(on[g], c)))
     /\ UNCHANGED <<log, out>>

\* No rules, no such flag, or a flag of an unknown type (which is logged).
SingleFallsBack(g) ==
  LET c == call[g]
      d == ServedDefault(on[g], c)
      unknown == Indexed(idx[g], c.key)
  IN /\ c.op = "single"
     /\ unknown => ~Known(ByKey(idx[g], c.key))
     /\ IF unknown THEN Warn(on[g], ByKey(idx[g], c.key).type)
                   ELSE UNCHANGED log
     /\ IF d = "nil"
          THEN Return(g, "loaded", Error("notFound", idx[g]), "unsent")
          ELSE Return(g, "loaded",
                      [kind |-> "default", version |-> idx[g], default |-> d],
                      Report(c, d))
     /\ UNCHANGED out

AllFails(g) ==
  /\ call[g].op = "all" /\ idx[g] = Nil
  /\ Return(g, "loaded", Error("loadError", Nil), "unsent")
  /\ UNCHANGED <<log, out>>

AllBegins(g) ==
  /\ call[g].op = "all" /\ idx[g] # Nil
  /\ Goto(g, "loaded", "flags")
  /\ UNCHANGED <<published, family, log, rules, cache, on, call, idx, at, out,
                 ret, usage, since, clean>>

\* Mutant: the loop reads m.rules again for every flag.
Walked_Reread(g) == IF rules[on[g]] = Nil THEN idx[g] ELSE rules[on[g]]

\* The index whose flags the loop of All walks.
Walked(g) == idx[g]

AllNext(g) ==
  /\ pc[g] = "flags" /\ at[g] <= Len(Payload[Walked(g)])
  /\ LET f == Payload[Walked(g)][at[g]] IN
       \/ /\ ~Known(f)
          /\ Warn(on[g], f.type)
          /\ at' = [at EXCEPT ![g] = @ + 1]
          /\ UNCHANGED <<published, family, rules, cache, pc, on, call, idx,
                         out, ret, usage, since, clean>>
       \/ /\ Known(f) /\ ~f.broken
          /\ out' = [out EXCEPT ![g] = Append(@, <<f.key, Walked(g)>>)]
          /\ at' = [at EXCEPT ![g] = @ + 1]
          /\ UNCHANGED <<published, family, log, rules, cache, pc, on, call,
                         idx, ret, usage, since, clean>>
       \/ /\ Known(f) /\ f.broken
          /\ Return(g, "flags", Error("evalError", idx[g]), "unsent")
          /\ out' = [out EXCEPT ![g] = << >>]
          /\ UNCHANGED log

AllReturns(g) ==
  /\ pc[g] = "flags" /\ at[g] > Len(Payload[Walked(g)])
  /\ Return(g, "flags", Error("list", idx[g]), "unsent")
  /\ UNCHANGED <<log, out>>

-----------------------------------------------------------------------------
(* The cache entry goes away by itself: its TTL passed, another process or *)
(* the program deleted it, or a racing Get removed it.                     *)
Expire ==
  /\ cache \in Document
  /\ cache' = NoEntry
  /\ UNCHANGED <<published, family, log, rules, pc, on, call, idx, at, out,
                 ret, usage, since, clean>>

(* Another process stores under the same path: a version the server had,   *)
(* be it an old one, a document of its own, or half of either.             *)
OthersStore ==
  /\ Backend = "filesystem"
  /\ cache' \in {Corrupt} \union Foreign..published
  /\ clean' = [g \in Goroutine |-> clean[g] /\ ~Busy(g)]
  /\ UNCHANGED <<published, family, log, rules, pc, on, call, idx, at, out,
                 ret, usage, since>>

(* The program crashes and starts again.  Only the filesystem cache lives  *)
(* on, torn if a Set was writing it.                                       *)
Restart ==
  /\ cache' \in IF Backend # "filesystem" THEN {NoEntry}
                ELSE {cache} \union
                     (IF \E g \in Goroutine : pc[g] = "store" THEN {Corrupt} ELSE {})
  /\ live' = {Root}
  /\ rules'    = [m \in Manager |-> Nil]
  /\ defaults' = [m \in Manager |-> {}]
  /\ warnRef'  = [m \in Manager |-> m]
  /\ warned'   = [m \in Manager |-> {}]
  /\ warnings' = [t \in UnknownType |-> 0]
  /\ pc'    = [g \in Goroutine |-> "idle"]
  /\ on'    = [g \in Goroutine |-> Root]
  /\ call'  = [g \in Goroutine |-> CHOOSE c \in Call : TRUE]
  /\ idx'   = [g \in Goroutine |-> Nil]
  /\ at'    = [g \in Goroutine |-> 1]
  /\ out'   = [g \in Goroutine |-> << >>]
  /\ ret'   = [g \in Goroutine |-> None]
  /\ usage' = [g \in Goroutine |-> "unsent"]
  /\ since' = [g \in Goroutine |-> published]
  /\ clean' = [g \in Goroutine |-> TRUE]
  /\ UNCHANGED published

-----------------------------------------------------------------------------
Begin(g) == \E m \in live, c \in Call : BeginRead(g, m, c) \/ BeginRefresh(g, m, c)

Load(g) ==
  \/ DeleteEntry(g) \/ DeleteFails(g)
  \/ ReadRules(g) \/ NoRules(g)
  \/ CacheHit(g) \/ CacheMiss(g)
  \/ FetchOk(g) \/ FetchFails(g)
  \/ Store(g) \/ StoreFails(g)
  \/ Install(g)

Answering(g) ==
  \/ RefreshReturns(g)
  \/ SingleEvaluates(g) \/ SingleFallsBack(g)
  \/ AllFails(g) \/ AllBegins(g) \/ AllNext(g) \/ AllReturns(g)

Environment ==
  \/ Publish \/ Expire \/ OthersStore \/ Restart
  \/ \E m \in live, n \in Manager \ live :
       WithContext(m, n) \/ \E d \in Collection : WithDefaults(m, n, d)

Next == Environment \/ \E g \in Goroutine : Begin(g) \/ Load(g) \/ Answering(g)

Spec == Init /\ [][Next]_vars

(* The Go scheduler runs every goroutine that can run, and FetchRules      *)
(* returns (ApiClient): a goroutine inside a call takes its next step.     *)
Fairness == \A g \in Goroutine : WF_vars(Load(g) \/ Answering(g))
FairSpec == Spec /\ Fairness

-----------------------------------------------------------------------------
(* What the flag manager promises.                                         *)

\* Every variable stays in its domain; no index is newer than what the
\* server published.
TypeOK ==
  /\ published \in Version
  /\ live \subseteq Manager /\ Root \in live
  /\ rules \in [Manager -> Nil..published]
  /\ defaults \in [Manager -> SUBSET Key]
  /\ warnRef \in [Manager -> Manager]
  /\ warned \in [Manager -> SUBSET UnknownType]
  /\ warnings \in [UnknownType -> Nat]
  /\ cache \in {NoEntry, Corrupt} \union Foreign..published
  /\ pc \in [Goroutine -> PC]
  /\ on \in [Goroutine -> live]
  /\ call \in [Goroutine -> Call]
  /\ idx \in [Goroutine -> Nil..published]
  /\ at \in [Goroutine -> Nat \ {0}]
  /\ out \in [Goroutine -> Seq(Key \X Document)]
  /\ ret \in [Goroutine -> Answer]
  /\ usage \in [Goroutine -> Default]
  /\ since \in [Goroutine -> 1..published]
  /\ clean \in [Goroutine -> BOOLEAN]

\* RefreshRules (flag_manager.go:105) serves rules at least as new as those
\* the server had when it was called: unless another load overlapped it, another
\* process stored meanwhile or the cache failed to delete its entry, no old index and no old cache entry, of
\* whichever manager, finds its way back.
RefreshIsFresh ==
  \A g \in Goroutine :
    ret[g].kind = "refreshed" /\ clean[g] => ret[g].version >= since[g]

\* loadRules (flag_manager.go:250) goes to the cache and to the network only
\* for a manager without rules, as long as no two loads overlap.
LoadsOnlyWithoutRules ==
  \A g \in Goroutine :
    Busy(g) /\ pc[g] # "read" /\ clean[g] => rules[on[g]] = Nil

\* The flags of a known type among the first n of a version, and what it is for
\* a sequence to list them in their order.
KnownUpTo(v, n) == {i \in DOMAIN Payload[v] : i <= n /\ Known(Payload[v][i])}

Lists(o, v, n) ==
  \E f \in [DOMAIN o -> KnownUpTo(v, n)] :
    /\ \A k \in KnownUpTo(v, n) : \E i \in DOMAIN o : f[i] = k
    /\ \A i, j \in DOMAIN o : i < j => f[i] < f[j]
    /\ \A i \in DOMAIN o : o[i] = <<Payload[v][f[i]].key, v>>

\* All (flag_manager.go:115) answers with every flag of a known type, in the
\* payload's order, of one version of the rules and of that version only,
\* whatever other goroutines refresh, load or install while it is in its loop.
AllIsOneSnapshot ==
  \A g \in Goroutine :
    ret[g].kind = "list" =>
      Lists(out[g], ret[g].version, Len(Payload[ret[g].version]))

\* Single (flag_manager.go:137) degrades, it does not fail: no load error ever
\* reaches the caller, "not found" only a caller that has no default, an
\* evaluation error only when the flag's own rules are broken, and a default
\* never stands in for a flag that could have been evaluated.
Evaluable(v, k) == /\ v # Nil
                   /\ \E i \in DOMAIN Payload[v] :
                        /\ Payload[v][i].key = k /\ Known(Payload[v][i])
                        /\ \A j \in 1..(i - 1) : Payload[v][j].key # k
HasDefault(m, c) == c.inline \/ c.key \in defaults[m]

SingleDegrades ==
  \A g \in Goroutine :
    LET a == ret[g]  k == call[g].key IN
    call[g].op = "single" /\ a.kind # "none" =>
      /\ a.kind \in {"flag", "evalError"} <=> Evaluable(a.version, k)
      /\ a.kind \in {"default", "notFound"} <=> ~Evaluable(a.version, k)
      /\ a.kind = "notFound" <=>
           ~Evaluable(a.version, k) /\ ~HasDefault(on[g], call[g])
      /\ a.kind = "evalError" => \E i \in DOMAIN Payload[a.version] :
           Payload[a.version][i].key = k /\ Payload[a.version][i].broken

\* The default a usage report carries (reportUsageAsync, flag_manager.go:305)
\* is the one the caller was served or would have been served, on the path that
\* evaluates (resolveEffectiveDefault) as on the path that falls back; nothing
\* is reported for an answer that is not a flag.
UsageMatchesAnswer ==
  \A g \in Goroutine :
    LET c == call[g]
        wanted == IF c.inline THEN "inline"
                  ELSE IF c.key \in defaults[on[g]] THEN "collection" ELSE "nil"
    IN usage[g] = IF ret[g].kind \in {"flag", "default"} /\ c.key # EmptyKey
                  THEN wanted ELSE "unsent"

\* A type this release does not know is logged once, whichever manager of the
\* family meets it first and however many goroutines meet it at a time
\* (warnedTypes, flag_manager.go:46-51).
WarnOnce == \A t \in UnknownType : warnings[t] <= 1

\* How far a place is from the end of a call, and whether a step brings a call
\* nearer to it: the loop of All by a flag, any other step by a place.
Distance(p) ==
  CASE p = "idle" -> 0 [] p = "flags" -> 1 [] p = "loaded" -> 2
    [] p \in {"adopt", "install"} -> 3 [] p = "store" -> 4 [] p = "fetch" -> 5
    [] p = "lookup" -> 6 [] p = "read" -> 7 [] p = "delete" -> 8

Nearer(g) ==
  \/ Distance(pc'[g]) < Distance(pc[g])
  \/ /\ pc[g] = "flags" /\ pc'[g] = "flags" /\ idx'[g] = idx[g]
     /\ at'[g] \in at[g] + 1..Len(Payload[idx[g]]) + 1

\* A call never turns back (flag_manager.go:105-171, 250-289): whatever fails, and
\* whatever the other goroutines refresh or install in its way, it looks into the
\* cache and asks the API at most once, and each of its steps brings its end nearer.
\* What others do leaves it where it is, but for a crash, which ends it.
CallsAdvance ==
  [][\A g \in Goroutine : pc[g] # "idle" =>
       IF Load(g) \/ Answering(g) \/ Restart THEN Nearer(g)
       ELSE pc'[g] = pc[g] /\ idx'[g] = idx[g] /\ at'[g] = at[g]]_vars

\* Every call returns: no step of a call waits for another goroutine.
CallsReturn == \A g \in Goroutine : pc[g] # "idle" ~> pc[g] = "idle"

-----------------------------------------------------------------------------
(* The abstract service this implements.  An entry that does not decode is *)
(* no entry; where a call is and what it answered are seen coarser.        *)

StoredVersion == IF cache \in Document THEN cache ELSE NoEntry

PhaseAt(p) ==
  CASE p = "idle"   -> "idle"
    [] p = "delete" -> "forgetting"
    [] p = "read"   -> "taking"
    [] p = "lookup" -> "looking"
    [] p = "fetch"  -> "asking"
    [] p = "store"  -> "storing"
    [] p \in {"adopt", "install"} -> "leaving"
    [] p \in {"loaded", "flags"}  -> "answering"

SeenAs(a) ==
  [kind |-> CASE a.kind = "none"    -> "none"
              [] a.kind = "default" -> "default"
              [] a.kind \in {"flag", "list", "refreshed"} -> "served"
              [] a.kind \in {"notFound", "loadError", "evalError"} -> "error",
   version |-> a.version]

Service == INSTANCE FlagService WITH
  held <- rules, store <- StoredVersion, taken <- idx, OnDisk <- Fallible,
  op     <- [g \in Goroutine |-> call[g].op],
  phase  <- [g \in Goroutine |-> PhaseAt(pc[g])],
  answer <- [g \in Goroutine |-> SeenAs(ret[g])]

\* Whatever managers are derived, refreshed, shared and restarted while others
\* load: a call takes one version of the rules once, from its own manager; only if
\* that holds none, from what the cache holds; only if that misses, from the
\* server.  It answers from that version, and leaves it with its own manager and
\* no other (flag_manager.go:67-171, 234-289).
ImplementsService == Service!Spec

-----------------------------------------------------------------------------
(* What the documentation says and the code does not do.                   *)

\* "RefreshRules forces rules refresh from API." (flag_manager.go:104): a
\* refresh that succeeds serves what the API had when it was called.
RefreshForcesFetch ==
  \A g \in Goroutine : ret[g].kind = "refreshed" => ret[g].version >= since[g]
=============================================================================
