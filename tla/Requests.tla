-------------------------------- MODULE Requests --------------------------------
(***************************************************************************)
(* A server: the program has built its instances (Instances), and serves   *)
(* concurrent requests with one of them.  The middleware injects a manager *)
(* into each request: a clone of the root for a request with a user, for   *)
(* any other the root itself.  A handler asks it for flags whose values    *)
(* are JSON, which it may edit, refreshes it, and derives managers from    *)
(* it, and from those, with contexts it adds attributes to; usage is       *)
(* reported from goroutines of their own.                                  *)
(*                                                                         *)
(* What is shared is modelled as shared: the root manager, the decoded     *)
(* rules, which clones and handlers hold by reference, and the arrays of   *)
(* attributes.                                                             *)
(***************************************************************************)
EXTENDS Instances, Contexts, FiniteSets

CONSTANTS Handler,
          Traffic,     \* what the program does: [served, does, given, added], where
                       \* served is the configuration that gets to serve, does says
                       \* of each handler how many managers of its own it has, how
                       \* many attributes it adds and how many calls it makes, at
                       \* most, and the context they copy is made of given, and then
                       \* of added
          MaxVersion   \* bound: versions the API serves

\* Attributes are told apart by who adds them: the program, or a handler.
ASSUME TrafficAssumption ==
  \A t \in Traffic :
    /\ t.does \in [Handler -> [user : BOOLEAN, managers : Nat, adds : Nat, calls : Nat,
                              edits : BOOLEAN, refreshes : BOOLEAN]]
    /\ t.given \in Seq({"base"}) /\ t.added \in Seq({"base"})

VARIABLES config,   \* of the instance that serves, or NotYet
          traffic,  \* what the handlers of this run do
          template, \* the context they copy
          pending,  \* what the program will add to it before they do
          extended, \* whether it was added to after NewContext
          arrays,   \* the arrays of attributes
          server,   \* the version the API serves
          entry,    \* the instance's cache: rules, or NoEntry
          heap,     \* decoded rules: [version, edits], who has edited them
          root,     \* m.rules of the root: a place in heap, or Unloaded
          pc,
          clone,    \* m.rules of each manager of a request, the injected one first
          line,     \* history: the line of each of them, see Derive
          lines,    \* history: how many lines there have been
          context,  \* the handler's context
          bound,    \* the context each of its managers has
          adds,     \* how many attributes it has added
          called,   \* how many calls it has made
          op,       \* the call it makes: "single" or "refresh"
          using,    \* the manager it calls, or Shared
          idx,      \* the rules its loadRules has in hand
          seen,     \* its answers: [at, edits, line]
          reports   \* its reports under way: [context, told]

loading  == <<server, entry, heap, root>>
managers == <<clone, line, lines>>
scenario == <<traffic, template, pending, extended>>
making   == <<scenario, arrays, context, bound, adds>>
call     == <<called, op, using>>
web      == <<config, loading, managers, making, call, pc, idx, seen, reports>>

NoEntry   == [version |-> 0, edits |-> {}]
Unloaded  == 0                 \* a nil *flagIndex, or the empty one of a fallback
Shared    == 0                 \* the root, where a manager is asked for
NoContext == Context(0, 0)

WebInit ==
  /\ Init
  /\ config = NotYet /\ traffic = << >> /\ template = NoContext
  /\ pending = << >> /\ extended = FALSE /\ arrays = << >>
  /\ server = 1 /\ entry = NoEntry /\ heap = << >> /\ root = Unloaded
  /\ pc      = [h \in Handler |-> "idle"]
  /\ clone   = [h \in Handler |-> << >>]
  /\ line    = [h \in Handler |-> << >>]
  /\ lines   = [h \in Handler |-> 0]
  /\ context = [h \in Handler |-> NoContext]
  /\ bound   = [h \in Handler |-> << >>]
  /\ adds    = [h \in Handler |-> 0]
  /\ called  = [h \in Handler |-> 0]
  /\ op      = [h \in Handler |-> "single"]
  /\ using   = [h \in Handler |-> Shared]
  /\ idx     = [h \in Handler |-> Unloaded]
  /\ seen    = [h \in Handler |-> << >>]
  /\ reports = [h \in Handler |-> {}]

\* The program stops configuring and serves with the instance it has built.
Serve(i) ==
  /\ config = NotYet
  /\ calls = 0 /\ \A j \in Instance : Accepted(j) <=> j = i           \* bound
  /\ built[i].cache[1] \in {"memory", "null"}                         \* bound
  /\ stored = << >>
  /\ config' = built[i]
  /\ \E t \in Traffic :
       /\ t.served = built[i] /\ traffic' = t.does
       /\ arrays' = NewContext(<< >>, t.given) /\ template' = Context(1, Len(t.given))
       /\ pending' = t.added /\ extended' = (t.added # << >>)
  /\ UNCHANGED <<vars, loading, managers, context, bound, adds, call, pc, idx, seen,
                 reports>>

\* It adds to the context that requests will copy, before the first does.
ExtendTemplate ==
  /\ pending # << >> /\ pending' = Tail(pending)
  /\ arrays' = ArraysWith(arrays, template, Head(pending))
  /\ template' = ContextWith(arrays, template)
  /\ UNCHANGED <<config, loading, managers, traffic, extended, context, bound, adds,
                 call, pc, idx, seen, reports>>

-----------------------------------------------------------------------------
(* The outside.                                                            *)

Publish ==
  /\ server < MaxVersion /\ server' = server + 1
  /\ UNCHANGED <<config, managers, making, call, entry, heap, root, pc, idx, seen,
                 reports>>

EntryExpires ==
  /\ config.ttl > 0 /\ entry # NoEntry /\ entry' = NoEntry
  /\ UNCHANGED <<config, managers, making, call, server, heap, root, pc, idx, seen,
                 reports>>

-----------------------------------------------------------------------------
(* The managers of a request.                                              *)

Goto(h, p) == pc' = [pc EXCEPT ![h] = p]

\* Those its handler has: without a user, FlagManagerFromContext gives it the root.
Managers(h) == DOMAIN clone[h] \union IF traffic[h].user THEN {} ELSE {Shared}
Rules(h, m) == IF m = Shared THEN root ELSE clone[h][m]

SetRules(h, m, o) ==
  IF m = Shared THEN root' = o /\ UNCHANGED clone
                ELSE clone' = [clone EXCEPT ![h][m] = o] /\ UNCHANGED root

CloneRules_Nil(h, m) == Unloaded                   \* mutant: a clone starts cold
CloneRules(h, m)     == Rules(h, m)

\* A manager is of the line of the one it was derived from, if that had rules;
\* it begins a new line if not, and again when it is refreshed.
LineOf(h, m) == IF m = Shared THEN 0 ELSE line[h][m]
Derive(h, m, c) ==
  /\ clone' = [clone EXCEPT ![h] = Append(@, CloneRules(h, m))]
  /\ bound' = [bound EXCEPT ![h] = Append(@, c)]
  /\ lines' = [lines EXCEPT ![h] = @ + 1]
  /\ line'  = [line EXCEPT ![h] = Append(@,
       IF m # Shared /\ Rules(h, m) # Unloaded THEN line[h][m] ELSE lines'[h])]

\* What SingleContext makes of a user's ID.  It has no attributes, and nobody
\* gets at it to add one: any array will do.
UserContext == Context(1, 0)

\* InjectFlags of the three middlewares: without a user, the root as it is.
InjectFlags(h) ==
  /\ pc[h] = "idle" /\ pending = << >> /\ Goto(h, "handling")
  /\ IF traffic[h].user THEN Derive(h, Shared, UserContext)
                        ELSE UNCHANGED <<managers, bound>>
  /\ UNCHANGED <<config, loading, scenario, arrays, context, adds, call, idx, seen,
                 reports>>

\* A handler that will derive a manager copies the program's context.
CopyContext(h) ==
  /\ pc[h] = "handling" /\ context[h] = NoContext
  /\ Len(clone[h]) < traffic[h].managers
  /\ context' = [context EXCEPT ![h] = template]
  /\ UNCHANGED <<config, loading, managers, scenario, arrays, bound, adds, call, pc,
                 idx, seen, reports>>

\* It adds an attribute of its own to the copy, before a call or in between.
AddAttribute(h) ==
  /\ pc[h] = "handling" /\ context[h] # NoContext /\ adds[h] < traffic[h].adds
  /\ adds' = [adds EXCEPT ![h] = @ + 1]
  /\ arrays' = ArraysWith(arrays, context[h], h)
  /\ context' = [context EXCEPT ![h] = ContextWith(arrays, @)]
  /\ UNCHANGED <<config, loading, managers, scenario, bound, call, pc, idx, seen,
                 reports>>

\* It derives a manager from any it has, the injected one or a later one.
WithContext(h, m) ==
  /\ pc[h] = "handling" /\ context[h] # NoContext
  /\ Len(clone[h]) < traffic[h].managers
  /\ Derive(h, m, context[h])
  /\ UNCHANGED <<config, loading, scenario, arrays, context, adds, call, pc, idx, seen,
                 reports>>

-----------------------------------------------------------------------------
(* A call.                                                                 *)

Call(h, m, o) ==
  /\ pc[h] = "handling" /\ called[h] < traffic[h].calls
  /\ called' = [called EXCEPT ![h] = @ + 1]
  /\ op' = [op EXCEPT ![h] = o] /\ using' = [using EXCEPT ![h] = m]

Single(h, m) ==
  /\ Call(h, m, "single") /\ Goto(h, "read")
  /\ UNCHANGED <<config, loading, managers, making, idx, seen, reports>>

\* RefreshRules: m.rules = nil, and then the Delete.
RefreshRules(h, m) ==
  /\ traffic[h].refreshes
  /\ Call(h, m, "refresh") /\ Goto(h, "delete")
  /\ SetRules(h, m, Unloaded)
  /\ IF m = Shared THEN UNCHANGED <<line, lines>>
     ELSE /\ lines' = [lines EXCEPT ![h] = @ + 1]
          /\ line'  = [line EXCEPT ![h][m] = lines'[h]]
  /\ UNCHANGED <<config, making, server, entry, heap, idx, seen, reports>>

DeleteEntry(h) ==
  /\ pc[h] = "delete" /\ Goto(h, "read")
  /\ entry' = NoEntry
  /\ UNCHANGED <<config, managers, making, call, server, heap, root, idx, seen, reports>>

\* loadRules: the rules the manager has.
Read(h) ==
  /\ pc[h] = "read"
  /\ \/ /\ Rules(h, using[h]) # Unloaded /\ Goto(h, "loaded")
        /\ idx' = [idx EXCEPT ![h] = Rules(h, using[h])]
     \/ /\ Rules(h, using[h]) = Unloaded /\ Goto(h, "lookup")
        /\ UNCHANGED idx
  /\ UNCHANGED <<config, loading, managers, making, call, seen, reports>>

\* Those the cache has, decoded anew.
Lookup(h) ==
  /\ pc[h] = "lookup"
  /\ \/ /\ entry # NoEntry /\ Goto(h, "install")
        /\ heap' = Append(heap, entry)
        /\ idx' = [idx EXCEPT ![h] = Len(heap')]
     \/ /\ entry = NoEntry /\ Goto(h, "fetch")
        /\ UNCHANGED <<heap, idx>>
  /\ UNCHANGED <<config, managers, making, call, server, entry, root, seen, reports>>

Fetched_Visible(h, o) ==                        \* mutant: installed at once
  Goto(h, "store") /\ SetRules(h, using[h], o)
Fetched(h, o) == Goto(h, "store") /\ UNCHANGED <<root, clone>>

Fetch(h) ==
  /\ pc[h] = "fetch"
  /\ heap' = Append(heap, [version |-> server, edits |-> {}])
  /\ idx' = [idx EXCEPT ![h] = Len(heap')]
  /\ Fetched(h, Len(heap'))
  /\ UNCHANGED <<config, line, lines, making, call, server, entry, seen, reports>>

\* Single falls back to an empty index, which is not kept; a refresh errs.
FetchFails(h) ==
  /\ pc[h] = "fetch" /\ Goto(h, "loaded")
  /\ idx' = [idx EXCEPT ![h] = Unloaded]
  /\ UNCHANGED <<config, loading, managers, making, call, seen, reports>>

\* Marshal what was fetched, as it is by now, and Set.
Store(h) ==
  /\ pc[h] = "store" /\ Goto(h, "install")
  /\ entry' = IF config.cache = <<"null">> THEN NoEntry ELSE heap[idx[h]]
  /\ UNCHANGED <<config, managers, making, call, server, heap, root, idx, seen, reports>>

Install(h) ==
  /\ pc[h] = "install" /\ Goto(h, "loaded")
  /\ SetRules(h, using[h], idx[h])
  /\ UNCHANGED <<config, line, lines, making, call, server, entry, heap, idx, seen,
                 reports>>

\* A report tells the context of a manager, getContext's copy of it.  The root has
\* none, and what it reports is left out.
Report(h, m) ==
  [context |-> bound[h][m], told |-> Attributes(arrays, bound[h][m])]
Reporting(h, m) == config.reporting /\ m \in DOMAIN bound[h]
Reported(h, m)  == reports' = [reports EXCEPT ![h] = @ \union {Report(h, m)}]

\* A refresh returns; Single evaluates and starts a report.
Answer(h) ==
  /\ pc[h] = "loaded" /\ Goto(h, "handling")
  /\ idx' = [idx EXCEPT ![h] = Unloaded]
  /\ \/ op[h] = "refresh" /\ UNCHANGED <<seen, reports>>
     \/ /\ op[h] = "single"
        /\ seen' = [seen EXCEPT ![h] = Append(@,
             [at    |-> idx[h],
              edits |-> IF idx[h] = Unloaded THEN {} ELSE heap[idx[h]].edits,
              line  |-> LineOf(h, using[h])])]
        /\ IF Reporting(h, using[h]) THEN Reported(h, using[h]) ELSE UNCHANGED reports
  /\ UNCHANGED <<config, loading, managers, making, call>>

-----------------------------------------------------------------------------
(* What a handler does besides, and its goroutines.                        *)

\* It edits a map GetJSON or AsJSON gave it.
Edit(h) ==
  /\ pc[h] = "handling" /\ traffic[h].edits
  /\ \E k \in DOMAIN seen[h] :
       /\ seen[h][k].at # Unloaded
       /\ heap' = [heap EXCEPT ![seen[h][k].at].edits = @ \union {h}]
  /\ UNCHANGED <<config, managers, making, call, server, entry, root, pc, idx, seen,
                 reports>>

\* It reports by itself, from a goroutine it starts.
ReportUsage(h, m) ==
  /\ pc[h] = "handling" /\ Reporting(h, m) /\ Reported(h, m)
  /\ UNCHANGED <<config, loading, managers, making, call, pc, idx, seen>>

\* The goroutine of a report serializes its context and sends it.
Send(h) ==
  /\ \E r \in reports[h] : reports' = [reports EXCEPT ![h] = @ \ {r}]
  /\ UNCHANGED <<config, loading, managers, making, call, pc, idx, seen>>

Step(h) ==
  \/ InjectFlags(h) \/ CopyContext(h) \/ AddAttribute(h)
  \/ \E m \in Managers(h) :
       WithContext(h, m) \/ Single(h, m) \/ RefreshRules(h, m) \/ ReportUsage(h, m)
  \/ DeleteEntry(h) \/ Read(h) \/ Lookup(h) \/ Fetch(h) \/ FetchFails(h) \/ Store(h)
  \/ Install(h) \/ Answer(h) \/ Edit(h) \/ Send(h)

WebNext ==
  \/ config = NotYet /\ Next /\ UNCHANGED web
  \/ \E i \in Instance : Serve(i)
  \/ /\ config # NotYet /\ UNCHANGED vars
     /\ ExtendTemplate \/ Publish \/ EntryExpires \/ \E h \in Handler : Step(h)
WebSpec == WebInit /\ [][WebNext]_<<vars, web>>

-----------------------------------------------------------------------------
SameLine(a, b) == a.line # 0 /\ b.line = a.line

\* The managers a handler derives from one of its own that has rules, at whatever
\* remove, answer like that one: once any of the line was given rules, every later
\* answer of each is from the very same, whatever others refresh, load or publish,
\* or fails, meanwhile, until the manager is itself refreshed
\* (flag_manager.go:72-94, 106, 251).  Managers derived from one without rules each
\* load their own, and those derived from the root take what it has by then: they
\* may differ within a request.
RequestIsConsistent ==
  \A h \in Handler : \A j, k \in DOMAIN seen[h] :
    j < k /\ SameLine(seen[h][j], seen[h][k]) /\ seen[h][j].at # Unloaded =>
      seen[h][k].at = seen[h][j].at

\* What handlers do to the values they are given never gets into the cache: rules
\* are serialized before anybody else can have them (flag_manager.go:277, :286),
\* so what other managers load is what was published.
EditsStayInMemory ==
  /\ entry.edits = {}
  /\ \A h \in Handler : pc[h] \in {"store", "install"} => heap[idx[h]].edits = {}

\* The attributes a handler's context should have.
Expected(h, n) == [k \in 1..n |-> IF k <= template.len THEN "base" ELSE h]

\* Handlers that copy one context and add to their copies do not see each
\* other's attributes, and a report serialized after Single has returned tells
\* what was evaluated: if NewContext made that context.  One that was itself
\* added to may have room behind it, which the copies share (context.go:95);
\* what they were copied with is theirs even then.
NoCrossTalk ==
  config # NotYet => \A h \in Handler :
    /\ context[h] # NoContext =>
         LET own == Attributes(arrays, context[h]) IN
         IF extended
         THEN SubSeq(own, 1, template.len) = Expected(h, template.len)
         ELSE own = Expected(h, template.len + adds[h])
    /\ extended \/ \A r \in reports[h] : Attributes(arrays, r.context) = r.told

\* flag_manager.go:16: "Both fields are immutable after construction, so a
\* *flagIndex can be shared across FlagManager clones": an answer never shows
\* what another request has edited.
IndexIsImmutable ==
  \A h \in Handler : \A k \in DOMAIN seen[h] : seen[h][k].edits \subseteq {h}
=============================================================================
