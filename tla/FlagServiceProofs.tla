--------------------------- MODULE FlagServiceProofs ---------------------------
(* FlagManager implements FlagService, for every set of managers,          *)
(* goroutines and calls, every payload and every backend.                  *)
EXTENDS FlagManagerProofs

USE DEF Version, Foreign, Document, Nil, NoEntry, Corrupt, Service!Foreign,
        Service!Nil, Service!NoEntry

Phases  == [g \in Goroutine |-> PhaseAt(pc[g])]
Ops     == [g \in Goroutine |-> call[g].op]
Answers == [g \in Goroutine |-> SeenAs(ret[g])]

\* What a call on the way leaves alone of the service.
Unasked == <<on, Ops, idx, Answers>>

LEMMA PhaseNames ==
  /\ PhaseAt("idle") = "idle" /\ PhaseAt("delete") = "forgetting"
  /\ PhaseAt("read") = "taking" /\ PhaseAt("lookup") = "looking"
  /\ PhaseAt("fetch") = "asking" /\ PhaseAt("store") = "storing"
  /\ PhaseAt("adopt") = "leaving" /\ PhaseAt("install") = "leaving"
  /\ PhaseAt("loaded") = "answering" /\ PhaseAt("flags") = "answering"
BY DEF PhaseAt

\* A goroutine that goes from one place to another changes its phase alone.
LEMMA PhaseStep ==
  ASSUME TypeInv, NEW g \in Goroutine, NEW a, NEW b, Goto(g, a, b)
  PROVE  /\ Phases[g] = PhaseAt(a)
         /\ Phases' = [Phases EXCEPT ![g] = PhaseAt(b)]
BY DEF Goto, Phases, TypeInv, TypeOK

LEMMA SeenKinds ==
  ASSUME NEW v, NEW d
  PROVE  /\ SeenAs([kind |-> "none", version |-> v, default |-> d]) = [kind |-> "none", version |-> v]
         /\ SeenAs([kind |-> "default", version |-> v, default |-> d]) = [kind |-> "default", version |-> v]
         /\ \A k \in {"flag", "list", "refreshed"} :
              SeenAs([kind |-> k, version |-> v, default |-> d]) = [kind |-> "served", version |-> v]
         /\ \A k \in {"notFound", "loadError", "evalError"} :
              SeenAs([kind |-> k, version |-> v, default |-> d]) = [kind |-> "error", version |-> v]
BY DEF SeenAs

LEMMA InitService == Init => Service!Init
<1> SUFFICES ASSUME Init PROVE Service!Init
  OBVIOUS
<1>1. (CHOOSE c \in Call : TRUE) \in Call
  BY CallAssumption
<1>2. Ops \in [Goroutine -> Service!Ops]
  BY <1>1, CallAssumption DEF Init, Ops, Service!Ops
<1>3. Phases = [g \in Goroutine |-> "idle"]
  BY PhaseNames DEF Init, Phases
<1>4. Answers = [g \in Goroutine |-> Service!NoAnswer]
  <2>1. SeenAs(None) = Service!NoAnswer
    BY SeenKinds DEF None, Service!NoAnswer
  <2> QED
    BY <2>1 DEF Init, Answers
<1>5. StoredVersion = Service!NoEntry
  BY DEF Init, StoredVersion
<1>6. Ops = [g \in Goroutine |-> call[g].op] /\ Answers = [g \in Goroutine |-> SeenAs(ret[g])]
  BY DEF Ops, Answers
<1>7. Phases = [g \in Goroutine |-> PhaseAt(pc[g])]
  BY DEF Phases
<1>8. /\ published = 1 /\ live = {Root} /\ rules = [m \in Manager |-> Service!Nil]
      /\ on = [g \in Goroutine |-> Root] /\ idx = [g \in Goroutine |-> Service!Nil]
  BY DEF Init
<1> QED
  BY <1>2, <1>3, <1>4, <1>5, <1>6, <1>7, <1>8 DEF Service!Init

\* Only All walks an index.
WalksForAll == \A g \in Goroutine : pc[g] = "flags" => call[g].op = "all"

LEMMA StepWalks == ASSUME TypeInv, WalksForAll, [Next]_vars PROVE WalksForAll'
<1> USE DEF TypeInv, TypeOK, WalksForAll, Goto, family
<1>1. CASE Environment
  BY <1>1 DEF Environment, Publish, Expire, OthersStore, Restart, WithContext, WithDefaults, Clone
<1>2. ASSUME NEW g \in Goroutine, Begin(g) PROVE WalksForAll'
  <2>1. PICK m \in live, c \in Call : BeginRead(g, m, c) \/ BeginRefresh(g, m, c)
    BY <1>2 DEF Begin
  <2>2. \/ pc' = [pc EXCEPT ![g] = "read"]
        \/ pc' = [pc EXCEPT ![g] = "delete"]
    BY <2>1 DEF BeginRead, BeginRefresh
  <2>3. call' = [call EXCEPT ![g] = c]
    BY <2>1 DEF BeginRead, BeginRefresh, Start
  <2> QED
    BY <2>2, <2>3
<1>3. ASSUME NEW g \in Goroutine, Load(g) PROVE WalksForAll'
  BY <1>3 DEF Load, DeleteEntry, DeleteFails, ReadRules, NoRules, CacheHit, CacheMiss,
              FetchOk, FetchFails, AfterFailure, Store, StoreFails, Install
<1>4. ASSUME NEW g \in Goroutine, Answering(g) PROVE WalksForAll'
  <2>1. ASSUME NEW a, NEW answer, NEW r, Return(g, a, answer, r) PROVE WalksForAll'
    BY <2>1 DEF Return
  <2>2. CASE AllBegins(g)
    BY <2>2 DEF AllBegins
  <2>3. CASE AllNext(g)
    BY <2>1, <2>3 DEF AllNext
  <2> QED
    BY <1>4, <2>1, <2>2, <2>3
       DEF Answering, RefreshReturns, SingleEvaluates, SingleFallsBack, AllFails, AllReturns
<1>5. CASE UNCHANGED vars
  BY <1>5 DEF vars
<1> QED
  BY <1>1, <1>2, <1>3, <1>4, <1>5 DEF Next

-----------------------------------------------------------------------------
\* A step of the environment is one of the service, or none.
LEMMA EnvironmentServes ==
  ASSUME TypeInv, Environment PROVE Service!Next \/ UNCHANGED Service!vars
<1> USE DEF Service!call, Service!vars, family, log
<1>1. CASE Publish
  <2>1. UNCHANGED <<live, rules, cache, on, call, pc, idx, ret>>
    BY <1>1 DEF Publish
  <2>2. Service!Publish
    BY <1>1, <2>1 DEF Publish, Service!Publish, StoredVersion
  <2> QED
    BY <2>2 DEF Service!Next
<1>2. CASE Expire
  <2>1. UNCHANGED <<published, live, rules, on, call, pc, idx, ret>> /\ StoredVersion' = NoEntry
    BY <1>2 DEF Expire, StoredVersion
  <2>2. Service!Lose
    BY <2>1 DEF Service!Lose
  <2> QED
    BY <2>2 DEF Service!Next
<1>3. CASE Restart
  <2>1. (CHOOSE c \in Call : TRUE) \in Call
    BY CallAssumption
  <2>2. Ops' \in [Goroutine -> Service!Ops]
    BY <1>3, <2>1, CallAssumption DEF Restart, Ops, Service!Ops
  <2>3. Phases' = [g \in Goroutine |-> "idle"]
    BY <1>3, PhaseNames DEF Restart, Phases
  <2>4. SeenAs(None) = Service!NoAnswer
    BY SeenKinds DEF None, Service!NoAnswer
  <2>5. Answers' = [g \in Goroutine |-> Service!NoAnswer]
    BY <1>3, <2>4 DEF Restart, Answers
  <2>6. StoredVersion' \in {NoEntry, StoredVersion}
    BY <1>3 DEF Restart, StoredVersion, TypeInv, TypeOK
  <2>7. Service!Restart
    BY <1>3, <2>2, <2>3, <2>5, <2>6 DEF Restart, Service!Restart, Ops, Phases, Answers
  <2> QED
    BY <2>7 DEF Service!Next
<1>4. ASSUME NEW m \in live, NEW n \in Manager \ live, NEW d, Clone(m, n, d)
      PROVE  Service!Next
  <2>1. UNCHANGED <<published, cache, on, call, pc, idx, ret>>
    BY <1>4 DEF Clone
  <2>2. Service!Derive(m, n)
    BY <1>4, <2>1 DEF Clone, CloneRules, Service!Derive, StoredVersion
  <2> QED
    BY <2>2 DEF Service!Next
<1>5. CASE OthersStore
  <2>1. UNCHANGED <<published, live, rules, on, call, pc, idx, ret>> /\ Fallible
    BY <1>5 DEF OthersStore, Fallible
  <2>2. cache' \in {Corrupt} \union Foreign..published
    BY <1>5 DEF OthersStore
  <2>3. StoredVersion' \in {NoEntry} \union Foreign..published
    BY <2>2, VersionAssumption DEF StoredVersion, TypeInv, TypeOK
  <2>4. Service!Replace
    BY <2>1, <2>3 DEF Service!Replace, Ops, Phases, Answers
  <2> QED
    BY <2>4 DEF Service!Next
<1> QED
  BY <1>1, <1>2, <1>3, <1>4, <1>5 DEF Environment, WithContext, WithDefaults

\* The beginning of a call is Service!Invoke.
LEMMA BeginServes ==
  ASSUME TypeInv, NEW g \in Goroutine, Begin(g) PROVE Service!Next
<1>1. PICK m \in live, c \in Call : BeginRead(g, m, c) \/ BeginRefresh(g, m, c)
  BY DEF Begin
<1> DEFINE p == IF c.op = "refresh" THEN "delete" ELSE "read"
<1>2. Start(g, m, c) /\ pc[g] = "idle" /\ c.op \in Service!Ops
  BY <1>1, CallAssumption DEF BeginRead, BeginRefresh, Start, Service!Ops
<1>3. /\ pc' = [pc EXCEPT ![g] = p]
      /\ rules' = IF c.op = "refresh" THEN [rules EXCEPT ![m] = Nil] ELSE rules
  BY <1>1 DEF BeginRead, BeginRefresh
<1>4. /\ Phases[g] = "idle"
      /\ Phases' = [Phases EXCEPT ![g] = IF c.op = "refresh" THEN "forgetting" ELSE "taking"]
  BY <1>2, <1>3, PhaseNames DEF Phases, TypeInv, TypeOK
<1>5. Ops' = [Ops EXCEPT ![g] = c.op]
  BY <1>2 DEF Start, Ops, TypeInv, TypeOK
<1>6. Answers' = [Answers EXCEPT ![g] = Service!NoAnswer]
  <2>1. SeenAs(None) = Service!NoAnswer
    BY SeenKinds DEF None, Service!NoAnswer
  <2> QED
    BY <1>2, <2>1 DEF Start, Answers, TypeInv, TypeOK
<1>7. UNCHANGED <<published, live, cache>>
  BY <1>2 DEF Start, family
<1>8. Service!Invoke(g, m, c.op)
  BY <1>2, <1>3, <1>4, <1>5, <1>6, <1>7
     DEF Start, Service!Invoke, Service!Becomes, StoredVersion, Phases, Ops, Answers
<1> QED
  BY <1>2, <1>8 DEF Service!Next, Service!Step

\* Every step of a load is one of the service, or none.
LEMMA LoadServes ==
  ASSUME TypeInv, NEW g \in Goroutine, Load(g)
  PROVE  Service!Next \/ UNCHANGED Service!vars
<1> USE DEF family, log
<1>1. UNCHANGED <<published, live, on, call, ret>> /\ Ops' = Ops /\ Answers' = Answers
  BY DEF Load, DeleteEntry, DeleteFails, ReadRules, NoRules, CacheHit, CacheMiss,
         FetchOk, FetchFails, Store, StoreFails, Install, Ops, Answers
<1>2. ASSUME NEW a, NEW b, Goto(g, a, b)
      PROVE  Service!Becomes(g, PhaseAt(a), PhaseAt(b))
  BY <1>2, PhaseStep DEF Service!Becomes, Phases
<1>3. CASE DeleteEntry(g) \/ DeleteFails(g)
  <2>1. Service!Becomes(g, "forgetting", "taking")
    BY <1>2, <1>3, PhaseNames DEF DeleteEntry, DeleteFails
  <2>2. UNCHANGED <<rules, idx>>
    BY <1>3 DEF DeleteEntry, DeleteFails
  <2>3. StoredVersion' = NoEntry \/ (Fallible /\ StoredVersion' = StoredVersion)
    BY <1>3 DEF DeleteEntry, DeleteFails, CacheAfterDelete, StoredVersion
  <2> QED
    BY <1>1, <2>1, <2>2, <2>3
       DEF Service!Forget, Service!Step, Service!Next, Ops, Answers
<1>4. CASE ReadRules(g)
  <2>1. Service!Becomes(g, "taking", "answering")
    BY <1>2, <1>4, PhaseNames DEF ReadRules
  <2>2. Service!TakeHeld(g)
    BY <1>1, <1>4, <2>1 DEF ReadRules, InMemory, Service!TakeHeld, StoredVersion, Ops, Answers
  <2> QED
    BY <2>2 DEF Service!Step, Service!Next
<1>5. CASE NoRules(g)
  <2>1. Service!Becomes(g, "taking", "looking")
    BY <1>2, <1>5, PhaseNames DEF NoRules
  <2>2. Service!MissHeld(g)
    BY <1>1, <1>5, <2>1 DEF NoRules, InMemory, Service!MissHeld, StoredVersion, Ops, Answers
  <2> QED
    BY <2>2 DEF Service!Step, Service!Next
<1>6. CASE CacheMiss(g)
  <2>1. Service!Becomes(g, "looking", "asking")
    BY <1>2, <1>6, PhaseNames DEF CacheMiss
  <2>2. StoredVersion = NoEntry \/ Fallible
    BY <1>6 DEF CacheMiss, Decodes, StoredVersion
  <2>3. Service!MissStored(g)
    BY <1>1, <1>6, <2>1, <2>2 DEF CacheMiss, Service!MissStored, StoredVersion, Ops, Answers
  <2> QED
    BY <2>3 DEF Service!Step, Service!Next
<1>7. CASE CacheHit(g)
  <2>1. Service!Becomes(g, "looking", "leaving")
    BY <1>2, <1>7, PhaseNames DEF CacheHit
  <2>2. Service!TakeStored(g)
    BY <1>1, <1>7, <2>1, VersionAssumption
       DEF CacheHit, Decodes, Service!TakeStored, StoredVersion, Ops, Answers
  <2> QED
    BY <2>2 DEF Service!Step, Service!Next
<1>8. CASE FetchOk(g)
  <2>1. Service!Becomes(g, "asking", "storing")
    BY <1>2, <1>8, PhaseNames DEF FetchOk
  <2>2. Service!TakePublished(g)
    BY <1>1, <1>8, <2>1 DEF FetchOk, Service!TakePublished, StoredVersion, Ops, Answers
  <2> QED
    BY <2>2 DEF Service!Step, Service!Next
<1>9. CASE FetchFails(g)
  <2>1. Service!Becomes(g, "asking", "answering")
    BY <1>2, <1>9, PhaseNames DEF FetchFails, AfterFailure
  <2>2. Service!TakeNothing(g)
    BY <1>1, <1>9, <2>1 DEF FetchFails, Service!TakeNothing, StoredVersion, Ops, Answers
  <2> QED
    BY <2>2 DEF Service!Step, Service!Next
<1>10. CASE Store(g) \/ StoreFails(g)
  <2>1. Service!Becomes(g, "storing", "leaving")
    BY <1>2, <1>10, PhaseNames DEF Store, StoreFails
  <2>2. UNCHANGED <<rules, idx>>
    BY <1>10 DEF Store, StoreFails
  <2>3. idx[g] \in Nil..MaxVersion
    BY VersionAssumption DEF TypeInv, TypeOK
  <2>4. StoredVersion' \in {idx[g], NoEntry} \union IF Fallible THEN {StoredVersion} ELSE {}
    BY <1>10, <2>3 DEF Store, StoreFails, Kept, StoredVersion
  <2> QED
    BY <1>1, <2>1, <2>2, <2>4
       DEF Service!Store, Service!Step, Service!Next, Ops, Answers
<1>11. CASE Install(g)
  <2>1. Service!Becomes(g, "leaving", "answering")
    BY <1>2, <1>11, PhaseNames DEF Install
  <2>2. Service!Leave(g)
    BY <1>1, <1>11, <2>1 DEF Install, Service!Leave, StoredVersion, Ops, Answers
  <2> QED
    BY <2>2 DEF Service!Step, Service!Next
<1> QED
  BY <1>3, <1>4, <1>5, <1>7, <1>8, <1>9, <1>10, <1>11, <1>6 DEF Load

\* A return gives one of the answers of the service.
LEMMA ReturnServes ==
  ASSUME TypeInv, NEW g \in Goroutine, NEW a \in {"loaded", "flags"},
         NEW answer, NEW report, Return(g, a, answer, report),
         SeenAs(answer) \in Service!Answers(call[g].op, idx[g])
  PROVE  Service!Next
<1>1. Phases[g] = "answering" /\ Phases' = [Phases EXCEPT ![g] = "idle"]
  <2>1. Goto(g, a, "idle") /\ PhaseAt(a) = "answering"
    BY PhaseNames DEF Return
  <2> QED
    BY <2>1, PhaseStep, PhaseNames
<1>2. UNCHANGED <<published, live, rules, cache, on, call, idx>>
  BY DEF Return, family
<1>3. Answers' = [Answers EXCEPT ![g] = SeenAs(answer)]
  BY DEF Return, Answers, TypeInv, TypeOK
<1>4. Ops[g] = call[g].op
  BY DEF Ops
<1>5. Service!Answer(g)
  BY <1>1, <1>2, <1>3, <1>4
     DEF Service!Answer, Service!Becomes, StoredVersion, Phases, Ops, Answers
<1> QED
  BY <1>5 DEF Service!Step, Service!Next

LEMMA AnsweringServes ==
  ASSUME TypeInv, WalksForAll, NEW g \in Goroutine, Answering(g)
  PROVE  Service!Next \/ UNCHANGED Service!vars
<1> DEFINE v == idx[g]
<1> USE DEF Service!Answers, Service!Says
<1>1. CASE RefreshReturns(g)
  <2> DEFINE a == Error(IF v = Nil THEN "loadError" ELSE "refreshed", v)
  <2>1. SeenAs(a) \in Service!Answers("refresh", v)
    BY SeenKinds DEF Error
  <2>2. call[g].op = "refresh" /\ Return(g, "loaded", a, "unsent")
    BY <1>1 DEF RefreshReturns
  <2> QED
    <3> HIDE DEF a
    <3> QED BY <2>1, <2>2, ReturnServes
<1>2. CASE SingleEvaluates(g)
  <2> DEFINE served == [kind |-> "flag", version |-> v, default |-> "nil"]
  <2>1. v # Nil /\ call[g].op = "single"
    BY <1>2 DEF SingleEvaluates, Indexed
  <2>2. \/ Return(g, "loaded", Error("evalError", v), "unsent")
        \/ \E r : Return(g, "loaded", served, r)
    BY <1>2 DEF SingleEvaluates
  <2>3. SeenAs(Error("evalError", v)) \in Service!Answers("single", v)
    BY SeenKinds DEF Error
  <2>4. SeenAs(served) \in Service!Answers("single", v)
    BY <2>1, SeenKinds
  <2> QED
    <3> HIDE DEF served
    <3> QED BY <2>1, <2>2, <2>3, <2>4, ReturnServes
<1>3. CASE SingleFallsBack(g)
  <2>1. call[g].op = "single"
    BY <1>3 DEF SingleFallsBack
  <2> DEFINE served == [kind |-> "default", version |-> v,
                        default |-> ServedDefault(on[g], call[g])]
  <2>2. \/ Return(g, "loaded", Error("notFound", v), "unsent")
        \/ \E r : Return(g, "loaded", served, r)
    BY <1>3 DEF SingleFallsBack
  <2>3. SeenAs(Error("notFound", v)) \in Service!Answers("single", v)
    BY SeenKinds DEF Error
  <2>4. SeenAs(served) \in Service!Answers("single", v)
    BY SeenKinds
  <2> QED
    <3> HIDE DEF served
    <3> QED BY <2>1, <2>2, <2>3, <2>4, ReturnServes
<1>4. CASE AllFails(g)
  <2>1. SeenAs(Error("loadError", Nil)) \in Service!Answers("all", v)
    BY <1>4, SeenKinds DEF Error, AllFails
  <2>2. call[g].op = "all" /\ Return(g, "loaded", Error("loadError", Nil), "unsent")
    BY <1>4 DEF AllFails
  <2> QED
    BY <2>1, <2>2, ReturnServes
<1>5. CASE AllBegins(g)
  <2>1. Phases' = Phases
    <3>1. Phases[g] = "answering" /\ Phases' = [Phases EXCEPT ![g] = "answering"]
      BY <1>5, PhaseStep, PhaseNames DEF AllBegins
    <3> QED
      BY <3>1 DEF Phases
  <2> QED
    BY <1>5, <2>1 DEF AllBegins, Service!vars, StoredVersion, Phases, family
<1>6. CASE AllNext(g)
  <2>1. CASE UNCHANGED <<published, live, rules, cache, pc, on, call, idx, ret>>
    BY <2>1 DEF Service!vars, StoredVersion
  <2>2. CASE Return(g, "flags", Error("evalError", v), "unsent")
    <3>1. call[g].op = "all"
      BY <1>6 DEF AllNext, WalksForAll
    <3>2. SeenAs(Error("evalError", v)) \in Service!Answers("all", v)
      BY SeenKinds DEF Error
    <3> QED
      BY <2>2, <3>1, <3>2, ReturnServes
  <2> QED
    BY <1>6, <2>1, <2>2 DEF AllNext, family
<1>7. CASE AllReturns(g)
  <2>1. v # Nil /\ call[g].op = "all"
    BY <1>7 DEF AllReturns, WalksForAll, TypeInv, WalksAnIndex
  <2>2. SeenAs(Error("list", v)) \in Service!Answers("all", v)
    BY <2>1, SeenKinds DEF Error
  <2> QED
    BY <1>7, <2>1, <2>2, ReturnServes DEF AllReturns
<1> QED
  BY <1>1, <1>2, <1>3, <1>4, <1>5, <1>6, <1>7 DEF Answering

\* FlagManager implements FlagService: a call answers from one version of the
\* rules, taken once, from the manager, else the cache, else the server, and what it leaves goes to
\* its own manager only (flag_manager.go:67-171, 234-289).
THEOREM FlagManagerServes == Spec => ImplementsService
<1> DEFINE Inv == TypeInv /\ WalksForAll
<1>1. Init => Service!Init
  BY InitService
<1>2. Init => Inv
  BY InitType DEF Init, WalksForAll
<1>3. Inv /\ [Next]_vars => Inv'
  BY StepType, StepWalks
<1>4. Inv /\ [Next]_vars => [Service!Next]_(Service!vars)
  <2>1. ASSUME Inv, UNCHANGED vars PROVE UNCHANGED Service!vars
    BY <2>1 DEF vars, family, Service!vars, StoredVersion
  <2> QED
    BY <2>1, EnvironmentServes, BeginServes, LoadServes, AnsweringServes DEF Next
<1> QED
  <2> HIDE DEF Inv
  <2> QED
    BY <1>1, <1>2, <1>3, <1>4, PTL DEF Spec, ImplementsService, Service!Spec
=============================================================================
