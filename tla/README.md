# Verification of zenmanage-go

TLA+ models of the Zenmanage feature-flag SDK for Go, checked with TLC on small
instances, and theorems about them proved with TLAPS for every value of the
constants. Paths and line numbers refer to the repository's source.

## The system

A program makes one `Zenmanage` object, which owns one root `FlagManager`. Each
request typically takes a clone of it, with a context of its own, and asks it
for flags. Flags are evaluated locally, against rules that come from the
manager's memory, else from a cache, else from the API and its CDN.

| Part | Source | State it keeps | Operations | What is hard |
|---|---|---|---|---|
| flag manager | `flag_manager.go` | a pointer to an index of rules (`m.rules`), the context and the defaults; shared by all clones: cache, API client, table of warned types | `RefreshRules`, `All`, `Single`, `WithContext`, `WithDefaults`, `ReportUsage` | the index, the cache and the API are read and written in separate critical sections by any number of goroutines; errors of the cache are swallowed |
| caches | `cache*.go` | an entry per key with its expiry, in memory or in a file | `Get`, `Set`, `Delete`, `Clear` | `Get` also removes; files are shared between processes that do not share the mutex; torn writes, crashes |
| API client | `api_client.go` | none between calls | `FetchRules` (metadata, then rules), `ReportUsage` | retries, backoff, cancellation, lost answers |
| rule engine | `rule_engine.go` | none | `Evaluate` | order of rules and errors; negations, absent attributes |
| rollout, evaluation | `rollout.go`, `flag_manager.go:206-232` | none | `IsInBucket`, `evaluateFlag` | bucket boundaries; what reaches users outside a rollout |
| wire types | `types.go` | none | decoding of rules, `isKnownFlagType` | two formats of a condition; rules decoded, encoded and decoded again |
| flag values | `flag.go` | none | `newDefaultFlag`, `Value`, `AsBool`, ... | coercions between types; JSON values handed out by reference |
| context, defaults | `context.go`, `defaults_collection.go` | slices and a map that callers share | `NewContext`, `AddAttribute`, `Set`, ... | copies that share an array; no locks |
| configuration | `config.go` | a builder | `With...`, `ConfigFromEnvironment`, `Build` | any order of calls, several builds from one builder, overflow |
| entry point, middleware | `zenmanage.go`, `middleware/` | a value in the request's context | `New`, `InjectFlags`, typed getters in four copies | what requests share; copies that may drift apart |

Calls go down (middleware, entry point, flag manager, then cache or API client
and rule engine); the only callbacks are the logger's. Usage reports run in
goroutines of their own.

### What makes each part correct

- Flag manager: a refresh serves fresh rules; `All` answers from one version of
  the rules; `Single` degrades to a default and never fails for want of rules;
  what is reported matches what was served; an unknown type is logged once;
  every call returns; all in all, it is the service of `FlagService`.
- Caches: a `Get` answers only what the entry was, or was becoming, during the
  call; a `Delete` that reports success emptied the cache; an entry lives for
  its TTL; in one process nothing is torn.
- API client: a fetch is as new as its call; retries are bounded, only after
  failures that may pass, and never after cancellation; the error returned is
  that of the last attempt; a report that succeeds was recorded.
- Rule engine and wire types: the first rule that matches or errs decides;
  negative operators are the complements of positive ones; rules that went
  through the cache answer as before.
- Rollout and flag values: a share of p percent is p of 100 buckets, raising it
  keeps its users, and nothing of it reaches anybody else; the accessors follow
  the documented table; all copies of the getters agree.
- Configuration: whatever is accepted can run; rules of one environment do not
  reach another through anything the program did not share; a TTL is the one
  that was asked for.
- Requests: managers that a handler derives from one another answer from one
  version; what one handler does to its context or to a value it was given does
  not reach another, or the cache.

## Modules

| Module | Models | Extended or instantiated by |
|---|---|---|
| `FlagService` | the abstract specification of the flag managers: one version taken, once, per call, from the first of manager, store and server that has one | instantiated by `FlagManager` |
| `FlagManager` | the flag manager, with a server that publishes versions, a cache seen from outside, other processes that store in it, and restarts | `MCFlagManager`, `FlagManagerProofs` |
| `CacheContract` | the abstract specification of a cache with concurrent clients | instantiated by the two caches |
| `MemoryCache` | `InMemoryCache` for one key | `MCMemoryCache`, `MemoryCacheProofs` |
| `FileCache` | `FileSystemCache` for one key, and the file system under it | `MCFileCache`, `FileCacheProofs` |
| `ApiClient` | one call of `APIClient` after another, for ever | `ApiClientProofs` |
| `WireFormat` | conditions as JSON: two formats read, a third written | `RuleEngine` |
| `RuleEngine` | operators and loops of the rule engine | `MCRuleEngine`, `RuleEngineProofs` |
| `FlagEvaluation` | `IsInBucket` and `evaluateFlag` | `ServedFlags` |
| `FlagValues` | flags made of defaults, `Value` and the accessors | `ServedFlags` |
| `ServedFlags` | the value a user gets through the getters of the entry point and the middleware | `MCServedFlags`, `ServedFlagsProofs` |
| `Configuration` | the builder and `Build` | `Instances` |
| `Instances` | a program that configures, builds and loads several instances, and the caches they share | `Requests` |
| `Contexts` | contexts as slices over shared arrays | `Requests` |
| `Requests` | a server that handles concurrent requests with one of the instances | `MCRequests`, `RequestsProofs` |

Each model replaces the parts under it by what the model of those parts shows:

- `FlagManager.FetchOk` answers what is published when the fetch ends. The
  older answers that a fetch may also give are allowed by `ApiClient.FetchIsFresh`
  to be no older than the call; `RefreshIsFresh` compares with the version
  at the start of the refresh, so the abstraction does not decide it.
- `FlagManager.Expire`, `Corrupt`, `StoreFails` and `DeleteFails` are `Forget`,
  the torn entry and the failures of `CacheContract`, which both caches
  implement; `OthersStore` is a `Set` of a client in another process. The manager's
  cache operations are one step each: `CacheContract` says that is what a `Get` or a
  `Delete` amounts to within its call.
- `FlagEvaluation` takes what `Evaluate` answers as an input; `RuleEngine`
  computes it. `FlagManager` knows of a flag only whether its rules err.
- `Instances` makes a load one step, because `FlagManager` has its
  interleavings; `Requests` has the steps again, because there the rules are
  places in a heap and it matters when they become visible to others.

### FlagManager and FlagService

Rules are compared by version: the server, the cache and each index hold the
number of the version published. A cache may also hold bytes that do not decode
(`Corrupt`), and with the filesystem backend a document of another program that does,
like `{}`: `loadRules` makes an index of that without a check (261-263), and it has the
number `Foreign`. A payload is a sequence of flags with a key, a type (known or not)
and whether its rules err; the checked one of `Foreign` has no flags. A goroutine
runs a call through program counters that stand for the places where another
goroutine can come between:

| pc | The code about to run |
|---|---|
| `delete` | `cache.Delete` in `RefreshRules` (109); `m.rules = nil` (107) was the step before |
| `read` | the read-locked fast path of `loadRules` (251-257) |
| `lookup` | `cache.Get` and decoding (259-262) |
| `fetch` | `FetchRules` (272) |
| `store` | `cache.Set` (279) |
| `adopt`, `install` | `m.rules = idx` for an index from the cache (265), from the API (286) |
| `loaded` | the rest of the call, with the index in hand |
| `flags` | the loop of `All` (122), one flag a step |

`Clone` is `clone()` with `WithContext` or `WithDefaults`: the index, and the
table of warned types, are copied by reference. `since` and `clean` are history:
the version published when a call began, and whether anything disturbed it,
which is another load that overlapped it, another process that stored under the same
path (`OthersStore`: a version the server had, be it an old one, a foreign document,
or half of either), or a cache `Delete` that failed.

`FlagService` says what the managers promise without program counters, indexes,
flags or failures: a manager holds a version or none; a call takes one version,
from its manager, only if that has none from the store, only if that misses from the
server, leaves it with its manager and answers from it. Each look is a phase with a
guard of its own (`MissHeld`, `MissStored`), at the moment the code looks.
`ImplementsService` is that specification under a mapping of the ten places to eight
phases; only the walk of `All` is stutters.

### Caches

`CacheContract` has one entry per cache. A client calls and returns in separate
steps; between them its operation takes effect, or not. The candidates of a `Get`
are the entry at its call and all that a `Set` was writing during it; `Torn` is
an entry that is not a value. A cache may forget at any time.

`MemoryCache` makes each locked section a step and keeps the gaps between them:
`Get` looks, compares the expiry with the clock, and evicts. `FileCache` adds
what `os` does: `os.WriteFile` opens with truncation and then writes, in one go or
in parts (`WritePart`), a file that is open stays readable when its name is gone, a
write over the bytes of another process may leave a mixture, every operation may fail,
and a process may die at any step; a write that fails or dies half-way leaves the
mixture it has made. Each process has a mutex, which the others do not know. A
deployment, chosen in the initial state, says which client runs in which process and
whether operations fail and processes die.

### ApiClient, RuleEngine, WireFormat

`ApiClient` runs `doRequestWithRetry` for the metadata, the rules or a usage
report; responses are classes of status, bodies decode or not, and the context
may end at any step. `RuleEngine` has the conditions as operators and the two
loops as steps; what `strings`, `regexp` and `strconv` say of two strings is a
set of pairs given by the instance. Its rules are what `WireFormat.Decode` makes
of documents in both formats. No code writes either format: `json.Marshal`
writes the names of the Go fields, and it is only because `encoding/json` reads
names without regard to case that the legacy format takes them back.

### ServedFlags

The state is a flag's rollout, edited from version to version, over users with
arbitrary hashes, and a flag whose four places (target and rule, of the flag and
of its rollout) hold envelopes of any type. A Go value is its kind with what it
holds; `strconv` and the conversions to `float64` are functions given by the
instance. The four copies of the getters are written out as the code has them,
and `GettersAnswer` says what all of them should do.

### Configuration, Instances, Contexts, Requests

A builder begins as the zero value, from `NewConfigBuilder` or from the
environment, is changed by `With...` calls in any order, and is built as often
as there are instances. Durations have 8 bits in the checked instance and any
even range in the proofs; `Wrap` is the overflow of `config.go:76`. An instance
is known to the API by its token and endpoint; its rules are compared by that.

In `Contexts` an array is a sequence as long as its capacity, and a `Context` is
a place in the sequence of arrays with a length, so that two copies share what
Go lets them share. In `Requests`, `heap` has the decoded rules, with the set of
handlers that have edited them; managers hold places in it. `InjectFlags` gives a
request with a user a clone of the root, bound to a context of its own
(`middleware.go:40-45`), and any other the root itself (`Shared`); that manager stays
in the request's context, where `FlagManagerFromContext` finds it. `WithContext`
derives another from any manager the handler has, the injected one again or a later
one, and each call of `Single` or `RefreshRules` is made of any of them. A load has the
steps of the code: `read`, `lookup`, `fetch`, `store`, `install`, and `delete` before them
in a refresh. `line` is history: a manager derived from one of the request's own that
has rules is of the same line as that one, any other begins a line, and so does a
manager that is refreshed. A handler is one goroutine. The context handlers copy is
made of some attributes by `NewContext`, and others are added to it before the first
request begins. Reports under way are serialized later than they are started.

## Runs

| Run | What it asks | Bounds |
|---|---|---|
| `FlagManagerRefresh` | fresh refreshes, loads, one-version lists, one warning, no way back for a call, the abstract service, under all interleavings | 2 goroutines, root and one clone, 2 versions of two flags in different orders, memory cache |
| `FlagManagerSingle` | types, degradation to defaults, usage reports, the abstract service, every call returns | 1 goroutine, root and one clone, 2 versions and a foreign document, 3 collections, filesystem cache with failures, other processes that store, restarts |
| `FlagManagerForce` | counterexample, see Findings | 2 goroutines on the root, null cache |
| `MemoryCacheContract` | implements `CacheContract`; evictions of live entries only in one race | 2 clients, 2 values, TTL below 0 and of 1, clock to 3 |
| `MemoryCacheFresh` | counterexample, see Findings | same |
| `FileCache` | one process that nothing disturbs: nothing fails, a `Set` sticks, no deadlock; two processes with failures, partial writes and crashes: implements `CacheContract` | 2 clients, 2 values, TTL 0 and 1, clock to 3 |
| `ApiClient` | freshness, retries, errors, reports, with reporting on and off; every call returns, within 16 steps | 3 versions |
| `ApiClientSDKErrors` | counterexample, see Findings | 1 version |
| `RuleEngine` | first decisive rule; negations; the way through the cache | up to 2 rules of up to 2 clauses in both formats, 4 contexts, 4 strings |
| `FlagEvaluation` | shares, monotone raising, confinement; the table of coercions; the getters | a user with an ID and one without, 6 hashes and 9 percentages around the boundaries, 8 flags, 7 defaults |
| `Requests` | foreign rules, lifetimes, usable configurations; one version per line of managers, edits, contexts | 2 instances, up to 3 `With...` calls, 11 environments; 2 requests of up to 3 managers and 3 calls, 2 versions |
| `IndexIsImmutable` | counterexample, see Findings | the same requests, no `With...` calls |

Why these bounds are enough for the cases to happen: two versions tell old rules
from new ones, and two goroutines make every overlap of a refresh with a load;
the race of `RefreshForcesFetch`, which needs all of it, is found at this size.
A clone made before and after the root loads shows both what it inherits and
what it loads itself. In the payload of `FlagManagerSingle` the first key of version 2
is duplicated with a known and an unknown type and the second flag's rules err; in
version 1 a type is unknown. In that of `FlagManagerRefresh` each version has two flags
to list, in an order of its own, and version 2 one of an unknown type before them, so
that a list which mixes versions, loses a flag or reorders them shows. Three is the
least clock that sees an entry of TTL 1 stored, live and expired, and two values
tell a stale answer from a right one. No operator of `ServedFlags` relates two
users, so one with an ID and one without meet all of it.

In `Requests`, a second is 8 units of an 8-bit duration: of the texts, 32 seconds
overflow to zero, which is for ever, 33 to one second, 17 to a negative and -20 to a
positive time. Two instances and three calls are what it takes to build, change
the builder and build the other, over a memory cache, a directory or a custom
cache. The requests are of three kinds (`MCTraffic`): every combination of two
that edit with a user, edit without and refresh the root; one with a user that has
up to three managers, the injected one and those it derives from it and from each
other, and refreshes them, with up to three calls, and one with two managers beside a
request that derives one from the root and refreshes the root; and pairs that add to
contexts with no attribute, with one, and with three in an array of four. Three
managers are the injected one and two derived from it, or one from the other; three
calls are an answer, a refresh or a load in between, and an answer that may differ.
A server serves only with a configuration nothing was called on, in memory or
without a cache, as the first to be built: configuring and serving are two
questions, and their product would ask neither better. Counters are bound by
`MaxVersion` (versions), `MaxTime` (clock), `MaxCalls` (`With...` calls) and
`Traffic` (the configurations that serve, and the managers, attributes and calls of
each request).

Symmetry: goroutines in the flag manager's runs with two of them, values in
`FileCache`, handlers in `Requests`; no run with a liveness property uses it.
`RuleEngine` stops when `Evaluate` returns, and `Requests` when the requests are
answered and the program makes no more calls, so they do not check for deadlock.

Fairness: in `FlagManager` a goroutine inside a call takes its next step (the Go
scheduler is fair, and `FetchRules` returns); in `ApiClient` a request ends (the
default HTTP client has a timeout; a custom client without one is outside this)
and a timer fires. The server, the clock, restarts and the beginning of a call
are under no fairness. `FlagManager` holds a lock for a single step only, so that
no goroutine waits for another: one goroutine is enough for `CallsReturn`.

## Proofs

Eight modules prove 34 theorems of the specifications: for any number of
managers, goroutines, clients, instances and handlers, and any payload, rule
list, text or value.

- `FlagManagerProofs`. `TypeCorrect` (`TypeOK`): the inductive invariant adds
  `WalksAnIndex`, that `All` is in its loop only with an index in hand, without
  which the payload's length would be asked of no version.
  `RefreshServesFreshRules` (`RefreshIsFresh`) and `LoadsOnlyIfEmpty`
  (`LoadsOnlyWithoutRules`), from `RefreshInv`: the property speaks of the answer,
  so the invariant has to follow a call to it. While a call is undisturbed no
  other goroutine is loading (`Alone`), so nobody can put an old version back; the
  index of its manager is empty from the `Delete` on; and what the cache holds and
  what it has in hand are no older than `since` at each place of the load
  (`Knows`, `Answered`). `WarnsOnce` (`WarnOnce`), from `WarnInv`: all managers
  that exist share the root's table, and a type has been logged once if it is in
  the table and never if it is not; without the first part a clone could log it
  again. `ReportsMatch` (`UsageMatchesAnswer`) and `SinglesDegrade`
  (`SingleDegrades`), from `AnswerInv`, which says of each answer which flag of
  which version it came from, and with what default. That the index has a key
  exactly if the payload does, at its first occurrence, needs the least element of
  a set of positions. `ListsOneSnapshot` (`AllIsOneSnapshot`), from `ListInv`: in its
  loop `All` has listed the flags of a known type before `at`, of the index it
  has in hand. That a list is complete and in order is said by a function from its
  places to those of the payload, which a round of the loop extends by one place or
  leaves as it is. `CallsNeverTurnBack` (`CallsAdvance`): the places of a call have a
  distance from its end, and each round of the loop of `All` is a flag nearer the
  end of its index, which others cannot change.
- `FlagServiceProofs`. `FlagManagerServes` (`ImplementsService`): initial states
  map to initial states and each action to one of the service or to a stutter.
  It uses the type invariant, and that only `All` walks an index, since `flags`
  and `loaded` map to the same phase.
- `ApiClientProofs`. `TypeCorrect`, `FetchesAreFresh`, `ErrorsAreOfTheLastAttempt`,
  `ReportsAreRecorded` and `RetriesSound`, from `ClientInv`: the requests sent are as
  many as the attempts made (`SentByAttempt`), what is under way is known at each
  place (`UnderWay`), each request records at most once (`RecordedOnce`), and the
  place the metadata gave is no older than the call (`PlaceIsFresh`).
  `CallsAreBounded` (`CallIsBounded`): the steps a call has left, over both requests
  and their attempts, go down with each step; a backoff is behind a failed attempt.
- `RuleEngineProofs`. `LoopsFindFirstMatch` (`EvaluatesFirstMatch`), from `EngineInv`:
  no rule behind the loop decides and all clauses behind it match.
  `CacheChangesNoAnswer` (`CacheKeepsAnswers`): decoding what was encoded gives the
  same condition, then the same rules. `NegationsAreExact` (`NegationIsExact`):
  each pair of operators by cases, with absent attributes apart.
- `ServedFlagsProofs`. `RaisingIsMonotone` (`RaisingKeepsUsers`), `RolloutIsConfined`
  (`OutsideIsUntouched`) and `SharesHold` (`SharesAreExact`), from the type invariant
  and two lemmas on buckets; the share of p percent is an interval of p buckets.
  `AccessorsFollowTable` (`CoercionTable`) and `GettersAreRight` (`GettersAnswer`), by
  cases on where a value comes from and what type it has.
- `MemoryCacheProofs`. `EvictionsRace` (`EvictsOnlyInRace`) and `MemoryCacheIsACache`
  (`KeepsContract`), from `MemoryInv`: what a `Get` has seen is a candidate of the
  abstract one (`Candidates`), and one that is about to evict has seen an expired
  entry, so that an entry that is live by then was stored in between (`Races`). The
  look and the comparison are stutters of the contract; the clock and an eviction
  forget the entry, or change nothing a client can see.
- `RequestsProofs`. `OnlySharedRulesAreForeign`, `LifetimesAreAsked` and
  `BuildsAreUsable`, from `InstanceInv`: a cache in memory belongs to the instance it
  was built for, and what is stored or loaded is of an instance that was accepted
  with that very cache. `EditsNeverStored` and `RequestsAreConsistent`, from
  `WebInv`: rules nobody has installed yet are held by one goroutine only
  (`Private`, where `Out` is what others can have), which is why nobody can have edited
  them when they are marshalled. What a request has is in the heap (`Reached`); its
  managers change their rules only if they have none (`Steady`), so two of one line
  have the same, those of the line's answers (`Lined`), from which `Consistent`, the
  property, follows at the next answer. `ContextsAreApart` (`NoCrossTalk`), from
  `MakingInv`: no request begins before the context to copy is finished (`Opening`);
  every slice begins with what the template has, and `AddAttribute` writes behind that
  (`Prefixes`); if the template has no room
  (`Full`), a request that has added something holds an array alone (`Apart`), and
  what managers and reports have of an array ends before the place its holder
  writes to next (`Safe`, `Faithful`). `AddsOne` says once what Go's `append` leaves.
- `FileCacheProofs`. `NothingFails` (`NeverFails`) and `SetsStick` (`SetSticks`), from
  `ControlInv`, the mutex and the places of each operation, and `ShelterInv`: in one
  process the file is whole but while its writer is between truncation and write.
  `SetSticks` speaks of the moment a `Set` returns: what it left in the file is its own.
  A new file finds a free inode because the clients are finitely many.
  `FileCacheIsACache` (`KeepsContract`), for every deployment, from `AnswersInv`:
  what a `Get` that is under way finds in any file, under a name, open or
  unlinked, is torn, expired, or a candidate of the abstract `Get` (`Answers`). It does
  not matter which writer the bytes are from: whoever is writing is in a `Set`, whose
  value is a candidate of every `Get` it overlaps. `Disturbs` is all that one step of
  anybody can do to a reader. Creating and writing the file are both a `Write` of the
  contract, a crash is its `Abort`.

Assumptions: those the modules name on their constants, all of which TLC
evaluates. What they say beyond types: rules, rule conditions and values have the
shape Go's types give them; operators that are already normalised are normalised to
themselves; client names, torn entries, failures and the absence of an entry are told apart.
Attributes are told apart by who adds them, the program or a request.
`RefreshIsFresh` excepts, with `clean`, a cache that others write to during the call: a
directory that other processes share can hold a version older than the refresh again
after its `Delete`.

Only model-checked: liveness and fairness (`CallsReturn`, `CallReturns`), which are
out of the prover's reach, as is `ENABLED`. What they need besides fairness is
proved: `CallsAdvance` and `CallIsBounded` say that a call which keeps taking steps
ends. That it always can take one stays with TLC. Every other property of a run
that passes has a theorem; the four of the runs that show a counterexample are
false.

## Findings

1. `RefreshForcesFetch`: "RefreshRules forces rules refresh from API"
   (`flag_manager.go:104`). A load in flight installs its older index between the
   reset and the load of the refresh, which then returns it and reports success
   (`FlagManagerForce`; not even a cache is needed). The other way to the same
   end is a `Delete` that fails (`flag_manager.go:109`): the old cache entry is
   adopted again; a third is another process that stores an older version after it.
   They are what `clean` excepts besides the race, and with
   `Backend = "filesystem"` one goroutine finds them.
2. `GetKeepsFresh`: `InMemoryCache.Get` deletes an entry that was stored after it
   saw an expired one (`cache_memory.go:32-36`). `EvictsOnlyInRace` shows that this
   is the only way a live entry goes.
3. `EveryErrorIsSDKError`: "Every error this SDK returns satisfies the shared
   `zenmanage.Error` interface" (`README.md:296`), but a context that ends in a
   backoff and a request that cannot be built give errors that do not.
4. `IndexIsImmutable`: "Both fields are immutable after construction"
   (`flag_manager.go:16`), but `AsJSON` and `GetJSON` hand out the map of the index
   (`flag.go:119`), and what one handler writes into it another is answered with.
   `EditsStayInMemory` shows that it never gets into the cache.

What the properties except, because no text promises it:

- A TTL from the environment that overflows (`config.go:76`): `LifetimeIsAsked`
  speaks of those that fit.
- One cache key for all environments (`flag_manager.go:10`): instances that share a
  directory or a custom cache serve each other's rules (`ForeignRulesAreShared`).
- Two managers derived from one without rules, as the injected manager of a request
  with a user is until something has loaded, each load their own
  (`flag_manager.go:72-86`, `:250`), and may answer one request from two versions;
  so may a manager that is refreshed and one that is not, and two derived from the
  root at different times. `RequestIsConsistent` speaks of one line of managers.
- Loads are not merged: every manager without rules that is asked goes to the cache
  and the network, however many are at it (`flag_manager.go:257`).
  `LoadsOnlyWithoutRules` says only that no other does.
- A cache may lose what it was given: a `Get` that removes an expired file by its
  path can remove a fresh one of another process (`cache_filesystem.go:49`), and a
  `Clear` fails on a file another process has removed (`:101`). `KeepsContract` allows
  both, as a miss and as a failure.
- A context that was added to after `NewContext` has room in its array, which its
  copies share: each `AddAttribute` of one may overwrite another's, before or
  while it is reported (`context.go:95`). `NoCrossTalk` holds without exception
  only for contexts as `NewContext` makes them.

Met while reading, and too plain for a run: the comment of
`APIClient.ReportUsage` (`api_client.go:83-85`) says a default is sent when the
flag could not be resolved, but `Single` sends it for every flag, as
`CHANGELOG.md:43` says it should; `flag_manager.go:48` gives `"json"` as an
example of an unknown type, which it no longer is; "Data returns a copy of context
data" (`context.go:113`) is a copy that shares its attributes' array;
`GetJSON` (`zenmanage.go:76-78`) gives an empty map for a default that is nil or
not structured; "AsBool() returns true unconditionally for every non-boolean
type" (`README.md:194`) is false for a `json` flag whose payload holds the scalar
`false`, which nothing rejects, and which `WellTyped` leaves out; and the
"request-scoped" manager of `InjectFlags` is the shared root when the request
has no user ID.

## Not modelled

- Editing a `DefaultsCollection` while goroutines evaluate: an unsynchronised map,
  for which Go may end the program; a manager's collection is fixed here.
- The number of report goroutines: nothing bounds it, and no text says so.
- Structs of `types.go` that are read and written under the same names; the getters
  of plain fields; the logger, header contents, URL assembly, the wording of
  errors, and CRC32 itself (an arbitrary hash).
- Examples, tests, test utilities and the version constant have no logic of their own.

## What could come next

1. `FlagManager` composed with `CacheContract`, cache operations as intervals and
   not as steps.
2. Serving with a directory that several processes share, over `FileCache`.
