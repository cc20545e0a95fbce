-------------------------- MODULE FlagManagerProofs --------------------------
(* Theorems about FlagManager, for every set of managers, goroutines and   *)
(* calls, every payload and every backend.                                 *)
EXTENDS FlagManager, WellFoundedInduction, TLAPS

\* All walks an index it has.
WalksAnIndex == \A g \in Goroutine : pc[g] = "flags" => idx[g] # Nil

TypeInv == TypeOK /\ WalksAnIndex

USE DEF Version, Foreign, Document, Nil, NoEntry, Corrupt

-----------------------------------------------------------------------------
LEMMA InitType == Init => TypeInv
<1> SUFFICES ASSUME Init PROVE TypeInv
  OBVIOUS
<1>1. (CHOOSE c \in Call : TRUE) \in Call
  BY CallAssumption
<1>2. << >> \in Seq(Key \X Document)
  OBVIOUS
<1>3. None \in Answer
  BY VersionAssumption DEF None, Answer, Default
<1> QED
  BY <1>1, <1>2, <1>3, RootAssumption, VersionAssumption
     DEF Init, TypeInv, TypeOK, WalksAnIndex, PC, Default

\* A step of the environment keeps every type.
LEMMA EnvironmentType ==
  ASSUME TypeInv, Environment PROVE TypeInv'
<1> USE VersionAssumption DEF TypeInv, TypeOK, WalksAnIndex, family, log
<1>1. CASE Publish
  BY <1>1 DEF Publish
<1>2. CASE Expire \/ OthersStore
  BY <1>2 DEF Expire, OthersStore
<1>3. CASE Restart
  <2>1. (CHOOSE c \in Call : TRUE) \in Call
    BY CallAssumption
  <2>2. << >> \in Seq(Key \X Document)
    OBVIOUS
  <2>3. None \in Answer
    BY DEF None, Answer, Default
  <2>4. cache' \in {NoEntry, Corrupt} \union Foreign..published'
    BY <1>3 DEF Restart
  <2> QED
    BY <1>3, <2>1, <2>2, <2>3, <2>4, RootAssumption DEF Restart, PC, Default
<1>4. ASSUME NEW m \in live, NEW n \in Manager \ live, NEW d \in SUBSET Key,
             Clone(m, n, d)
      PROVE  TypeInv'
  BY <1>4 DEF Clone, CloneRules, CloneTable
<1> QED
  BY <1>1, <1>2, <1>3, <1>4, CollectionAssumption
     DEF Environment, WithContext, WithDefaults

\* So does the beginning of a call.
LEMMA BeginType ==
  ASSUME TypeInv, NEW g \in Goroutine, Begin(g) PROVE TypeInv'
<1> USE VersionAssumption DEF TypeInv, TypeOK, WalksAnIndex, family, log
<1>1. PICK m \in live, c \in Call : BeginRead(g, m, c) \/ BeginRefresh(g, m, c)
  BY DEF Begin
<1>2. None \in Answer
  BY DEF None, Answer, Default
<1>3. << >> \in Seq(Key \X Document)
  OBVIOUS
<1>4. Start(g, m, c)
  BY <1>1 DEF BeginRead, BeginRefresh
<1>5. rules' \in [Manager -> Nil..published']
  <2>1. rules' = rules \/ rules' = [rules EXCEPT ![m] = Nil]
    BY <1>1 DEF BeginRead, BeginRefresh
  <2>2. published' = published /\ published \in Nat
    BY <1>4 DEF Start
  <2>3. rules \in [Manager -> Nil..published] /\ Nil \in Nil..published
    BY <2>2
  <2>4. rules' \in [Manager -> Nil..published]
    BY <2>1, <2>3
  <2> QED
    BY <2>2, <2>4
<1>6. pc' = [pc EXCEPT ![g] = "read"] \/ pc' = [pc EXCEPT ![g] = "delete"]
  BY <1>1 DEF BeginRead, BeginRefresh
<1>7. clean' \in [Goroutine -> BOOLEAN]
  BY <1>4 DEF Start, Overlap, Busy
<1>8. /\ pc' \in [Goroutine -> PC]
      /\ \A h \in Goroutine : pc'[h] = "flags" => h # g /\ pc[h] = "flags"
  BY <1>6 DEF PC
<1>9. /\ on' \in [Goroutine -> live'] /\ call' \in [Goroutine -> Call]
      /\ idx' \in [Goroutine -> Nil..published'] /\ at' \in [Goroutine -> Nat \ {0}]
      /\ WalksAnIndex'
  BY <1>4, <1>8 DEF Start
<1>10. /\ out' \in [Goroutine -> Seq(Key \X Document)] /\ ret' \in [Goroutine -> Answer]
       /\ usage' \in [Goroutine -> Default] /\ since' \in [Goroutine -> 1..published']
  BY <1>2, <1>3, <1>4 DEF Start, Default
<1> QED
  BY <1>4, <1>5, <1>7, <1>8, <1>9, <1>10 DEF Start

\* So does every step of a load.
LEMMA LoadType ==
  ASSUME TypeInv, NEW g \in Goroutine, Load(g) PROVE TypeInv'
<1> USE VersionAssumption DEF TypeInv, TypeOK, WalksAnIndex, family, log, Goto, PC
<1>1. CASE DeleteEntry(g)
  BY <1>1 DEF DeleteEntry, CacheAfterDelete
<1>2. CASE DeleteFails(g)
  BY <1>2 DEF DeleteFails
<1>3. CASE ReadRules(g)
  BY <1>3 DEF ReadRules
<1>4. CASE NoRules(g)
  BY <1>4 DEF NoRules
<1>5. CASE CacheHit(g)
  <2>1. cache \in Foreign..published
    BY <1>5 DEF CacheHit, Decodes
  <2>2. idx' = [idx EXCEPT ![g] = cache] /\ pc' = [pc EXCEPT ![g] = "adopt"]
    BY <1>5 DEF CacheHit
  <2>3. idx' \in [Goroutine -> Nil..published]
    BY <2>1, <2>2
  <2> QED
    BY <1>5, <2>2, <2>3 DEF CacheHit
<1>6. CASE CacheMiss(g)
  BY <1>6 DEF CacheMiss
<1>7. CASE FetchOk(g)
  <2>1. idx' = [idx EXCEPT ![g] = published] /\ published' = published
    BY <1>7 DEF FetchOk
  <2>2. published \in Nil..published
    OBVIOUS
  <2>3. idx' \in [Goroutine -> Nil..published']
    BY <2>1, <2>2
  <2>4. pc' = [pc EXCEPT ![g] = "store"] /\ pc' \in [Goroutine -> PC]
    BY <1>7 DEF FetchOk
  <2>5. WalksAnIndex'
    BY <2>1, <2>4
  <2> QED
    BY <1>7, <2>1, <2>3, <2>4, <2>5 DEF FetchOk
<1>8. CASE FetchFails(g)
  BY <1>8 DEF FetchFails, AfterFailure
<1>9. CASE Store(g)
  BY <1>9 DEF Store, Kept
<1>10. CASE StoreFails(g)
  BY <1>10 DEF StoreFails
<1>11. CASE Install(g)
  BY <1>11 DEF Install
<1> QED
  BY <1>1, <1>2, <1>3, <1>4, <1>5, <1>6, <1>7, <1>8, <1>9, <1>10, <1>11 DEF Load

\* And so does the rest of a call.
LEMMA ReturnType ==
  ASSUME TypeInv, NEW g \in Goroutine, NEW a, NEW answer \in Answer,
         NEW report \in Default, Return(g, a, answer, report)
  PROVE  /\ published' = published /\ family' = family /\ rules' = rules
         /\ cache' = cache /\ on' = on /\ call' = call /\ idx' = idx /\ at' = at
         /\ since' = since /\ clean' = clean
         /\ pc' = [pc EXCEPT ![g] = "idle"]
         /\ ret' \in [Goroutine -> Answer] /\ usage' \in [Goroutine -> Default]
BY DEF Return, Goto, TypeInv, TypeOK

LEMMA AnswerType ==
  ASSUME NEW v \in Nil..MaxVersion,
         NEW d \in Default,
         NEW k \in {"none", "flag", "default", "notFound", "loadError", "evalError",
                    "list", "refreshed"}
  PROVE  [kind |-> k, version |-> v, default |-> d] \in Answer
BY DEF Answer

\* The flags All walks are flags of the payload.
LEMMA FlagType ==
  ASSUME TypeInv, NEW g \in Goroutine, pc[g] = "flags", at[g] <= Len(Payload[Walked(g)])
  PROVE  /\ Payload[Walked(g)][at[g]] \in Flag
         /\ Payload[Walked(g)][at[g]].key \in Key
         /\ Walked(g) \in Foreign..published /\ Walked(g) = idx[g]
<1>1. idx[g] \in Foreign..published /\ published \in 1..MaxVersion
  BY VersionAssumption DEF TypeInv, TypeOK, WalksAnIndex
<1>2. Payload[idx[g]] \in Seq(Flag) /\ at[g] \in Nat \ {0}
  BY <1>1, PayloadAssumption, VersionAssumption DEF TypeInv, TypeOK
<1>3. Payload[idx[g]][at[g]] \in Flag
  BY <1>2 DEF Walked
<1>4. \A f \in Flag : f.key \in Key
  BY DEF Flag
<1> QED
  BY <1>1, <1>3, <1>4 DEF Walked

LEMMA AnsweringType ==
  ASSUME TypeInv, NEW g \in Goroutine, Answering(g) PROVE TypeInv'
<1>1. idx[g] \in Nil..MaxVersion /\ published \in 1..MaxVersion
  BY VersionAssumption DEF TypeInv, TypeOK
<1>2. "unsent" \in Default /\ "nil" \in Default
  BY DEF Default
<1>3. \A c, d : d \in Default => Report(c, d) \in Default
  BY DEF Report, Default
<1>4. \A m, c : EffectiveDefault(m, c) \in Default /\ ServedDefault(m, c) \in Default
  BY DEF EffectiveDefault, ServedDefault, Default
\* A return that leaves log and out alone.
<1>5. ASSUME NEW a, NEW answer \in Answer, NEW report \in Default,
             Return(g, a, answer, report),
             warned' \in [Manager -> SUBSET UnknownType],
             warnings' \in [UnknownType -> Nat],
             out' \in [Goroutine -> Seq(Key \X Document)]
      PROVE  TypeInv'
  BY <1>5, ReturnType DEF TypeInv, TypeOK, WalksAnIndex, PC, family
<1>6. /\ warned \in [Manager -> SUBSET UnknownType]
      /\ warnings \in [UnknownType -> Nat]
      /\ out \in [Goroutine -> Seq(Key \X Document)]
      /\ warnRef[on[g]] \in Manager
  BY DEF TypeInv, TypeOK
<1>7. ASSUME NEW t \in UnknownType, Warn(on[g], t)
      PROVE  warned' \in [Manager -> SUBSET UnknownType] /\ warnings' \in [UnknownType -> Nat]
  <2>1. warned' = [warned EXCEPT ![warnRef[on[g]]] = @ \union {t}]
    BY <1>7 DEF Warn
  <2>2. warnings' = warnings \/ warnings' = [warnings EXCEPT ![t] = @ + 1]
    BY <1>7 DEF Warn
  <2>3. warned' \in [Manager -> SUBSET UnknownType]
    BY <1>6, <2>1
  <2>4. warnings[t] + 1 \in Nat
    BY <1>6
  <2>5. warnings' \in [UnknownType -> Nat]
    BY <1>6, <2>2, <2>4
  <2> QED
    BY <2>3, <2>5
<1>8. CASE RefreshReturns(g)
  <2>1. Error(IF idx[g] = Nil THEN "loadError" ELSE "refreshed", idx[g]) \in Answer
    BY <1>1, <1>2, AnswerType DEF Error
  <2> QED
    BY <1>2, <1>5, <1>6, <1>8, <2>1 DEF RefreshReturns, log
<1>9. CASE SingleEvaluates(g)
  <2>1. /\ Error("evalError", idx[g]) \in Answer
        /\ [kind |-> "flag", version |-> idx[g], default |-> "nil"] \in Answer
    BY <1>1, <1>2, AnswerType DEF Error
  <2>2. Report(call[g], EffectiveDefault(on[g], call[g])) \in Default
    BY <1>3, <1>4
  <2>3. \/ Return(g, "loaded", Error("evalError", idx[g]), "unsent")
        \/ Return(g, "loaded", [kind |-> "flag", version |-> idx[g], default |-> "nil"],
                  Report(call[g], EffectiveDefault(on[g], call[g])))
    BY <1>9 DEF SingleEvaluates
  <2>4. UNCHANGED <<warned, warnings, out>>
    BY <1>9 DEF SingleEvaluates, log
  <2> QED
    BY <1>2, <1>5, <1>6, <2>1, <2>2, <2>3, <2>4
<1>10. CASE SingleFallsBack(g)
  <2> DEFINE d == ServedDefault(on[g], call[g])
  <2>1. /\ Error("notFound", idx[g]) \in Answer
        /\ [kind |-> "default", version |-> idx[g], default |-> d] \in Answer
    BY <1>1, <1>2, <1>4, AnswerType DEF Error
  <2>2. Report(call[g], d) \in Default
    BY <1>3, <1>4
  <2>3. \/ Return(g, "loaded", Error("notFound", idx[g]), "unsent")
        \/ Return(g, "loaded", [kind |-> "default", version |-> idx[g], default |-> d],
                  Report(call[g], d))
    BY <1>10 DEF SingleFallsBack
  <2>4. out' = out /\ (UNCHANGED log \/ \E t \in UnknownType : Warn(on[g], t))
    BY <1>10 DEF SingleFallsBack, Known
  <2>5. warned' \in [Manager -> SUBSET UnknownType] /\ warnings' \in [UnknownType -> Nat]
    BY <1>6, <1>7, <2>4 DEF log
  <2> QED
    BY <1>2, <1>5, <1>6, <2>1, <2>2, <2>3, <2>4, <2>5
<1>11. CASE AllFails(g)
  <2>1. Error("loadError", idx[g]) \in Answer
    BY <1>1, <1>2, AnswerType DEF Error
  <2> QED
    BY <1>2, <1>5, <1>6, <1>11, <2>1 DEF AllFails, log
<1>12. CASE AllBegins(g)
  BY <1>12 DEF AllBegins, Goto, TypeInv, TypeOK, WalksAnIndex, PC, family, log
<1>13. CASE AllNext(g)
  <2> DEFINE f == Payload[Walked(g)][at[g]]
  <2>1. /\ pc[g] = "flags" /\ f \in Flag /\ Walked(g) \in Foreign..published
        /\ at[g] <= Len(Payload[Walked(g)])
    BY <1>13, FlagType DEF AllNext
  <2>2. CASE /\ ~Known(f) /\ Warn(on[g], f.type)
             /\ at' = [at EXCEPT ![g] = @ + 1]
             /\ UNCHANGED <<published, family, rules, cache, pc, on, call, idx,
                            out, ret, usage, since, clean>>
    <3>1. f.type \in UnknownType
      BY <2>2 DEF Known
    <3>2. warned' \in [Manager -> SUBSET UnknownType] /\ warnings' \in [UnknownType -> Nat]
      BY <1>7, <2>2, <3>1
    <3> QED
      BY <2>2, <3>2 DEF TypeInv, TypeOK, WalksAnIndex, family
  <2>3. CASE /\ Known(f) /\ ~f.broken
             /\ out' = [out EXCEPT ![g] = Append(@, <<f.key, Walked(g)>>)]
             /\ at' = [at EXCEPT ![g] = @ + 1]
             /\ UNCHANGED <<published, family, log, rules, cache, pc, on, call,
                            idx, ret, usage, since, clean>>
    <3>1. f.key \in Key /\ Walked(g) \in Document
      BY <1>1, <2>1, FlagType
    <3>2. out[g] \in Seq(Key \X Document)
      BY <1>6
    <3>3. Append(out[g], <<f.key, Walked(g)>>) \in Seq(Key \X Document)
      <4> HIDE DEF f, Document
      <4>1. <<f.key, Walked(g)>> \in Key \X Document
        BY <3>1
      <4> QED
        BY <3>2, <4>1
    <3>4. out' \in [Goroutine -> Seq(Key \X Document)]
      BY <1>6, <2>3, <3>3
    <3>5. at' \in [Goroutine -> Nat \ {0}]
      BY <2>3 DEF TypeInv, TypeOK
    <3> QED
      <4> HIDE DEF f
      <4> QED
        BY <2>3, <3>4, <3>5 DEF TypeInv, TypeOK, WalksAnIndex, family, log
  <2>4. CASE /\ Known(f) /\ f.broken
             /\ Return(g, "flags", Error("evalError", idx[g]), "unsent")
             /\ out' = [out EXCEPT ![g] = << >>]
             /\ UNCHANGED log
    <3>1. Error("evalError", idx[g]) \in Answer
      BY <1>1, <1>2, AnswerType DEF Error
    <3>2. << >> \in Seq(Key \X Document)
      OBVIOUS
    <3>3. out' \in [Goroutine -> Seq(Key \X Document)]
      BY <1>6, <2>4, <3>2
    <3> QED
      BY <1>2, <1>5, <1>6, <2>4, <3>1, <3>3 DEF log
  <2> QED
    BY <1>13, <2>2, <2>3, <2>4 DEF AllNext
<1>14. CASE AllReturns(g)
  <2>1. Error("list", idx[g]) \in Answer
    BY <1>1, <1>2, AnswerType DEF Error
  <2> QED
    BY <1>2, <1>5, <1>6, <1>14, <2>1 DEF AllReturns, log
<1> QED
  BY <1>8, <1>9, <1>10, <1>11, <1>12, <1>13, <1>14 DEF Answering

\* Every step keeps the types.
LEMMA StepType == TypeInv /\ [Next]_vars => TypeInv'
<1>1. ASSUME TypeInv, UNCHANGED vars PROVE TypeInv'
  BY <1>1 DEF vars, family, log, TypeInv, TypeOK, WalksAnIndex
<1> QED
  BY <1>1, EnvironmentType, BeginType, LoadType, AnsweringType DEF Next

\* In every behaviour the variables keep their domains: no index, no cache
\* entry and no answer is of a version the server has not published.
THEOREM TypeCorrect == Spec => []TypeOK
<1>1. TypeInv => TypeOK
  BY DEF TypeInv
<1> QED
  BY <1>1, InitType, StepType, PTL DEF Spec

-----------------------------------------------------------------------------
(* RefreshIsFresh and LoadsOnlyWithoutRules.  Neither is inductive: they   *)
(* hold because an undisturbed load is alone, so that nobody refills the   *)
(* index and the cache entry it found, or made, empty.                     *)

\* An undisturbed load is the only one.
Alone == \A g \in Goroutine : clean[g] /\ Busy(g) =>
           \A h \in Goroutine \ {g} : ~Busy(h)

\* What an undisturbed load knows of the index and, for a refresh, of the cache.
Knows(g) ==
  /\ Busy(g) /\ pc[g] # "read" => rules[on[g]] = Nil
  /\ pc[g] \in {"delete", "read", "lookup", "fetch"} => idx[g] = Nil
  /\ call[g].op = "refresh" =>
       /\ pc[g] = "read" => rules[on[g]] = Nil
       /\ pc[g] \in {"read", "lookup"} => cache \notin Document
       /\ pc[g] # "adopt"
       /\ pc[g] \in {"store", "install"} => idx[g] >= since[g]
       /\ pc[g] = "loaded" => idx[g] = Nil \/ idx[g] >= since[g]

\* What is left of it when the call has returned.
Answered(g) ==
  /\ pc[g] # "idle" => ret[g] = None
  /\ ret[g].kind = "refreshed" /\ clean[g] => ret[g].version >= since[g]

RefreshInv == /\ TypeInv /\ Alone
              /\ \A g \in Goroutine : (clean[g] => Knows(g)) /\ Answered(g)

\* The other goroutines' variables that a step of g leaves alone.
Others(g) ==
  \A h \in Goroutine \ {g} :
    /\ pc'[h] = pc[h] /\ on'[h] = on[h] /\ call'[h] = call[h] /\ idx'[h] = idx[h]
    /\ ret'[h] = ret[h] /\ since'[h] = since[h]

\* If a step of g leaves the variables of another goroutine h alone, and h is
\* not loading or its index and the cache stay as they are, h knows what it knew.
LEMMA OthersKnow ==
  ASSUME RefreshInv, NEW g \in Goroutine, Others(g),
         NEW h \in Goroutine, h # g, clean'[h] => clean[h],
         ~(clean'[h] /\ Busy(h)) \/ (rules' = rules /\ cache' = cache)
  PROVE  (clean'[h] => Knows(h)') /\ Answered(h)'
<1>1. pc'[h] = pc[h] /\ on'[h] = on[h] /\ call'[h] = call[h] /\ idx'[h] = idx[h]
      /\ ret'[h] = ret[h] /\ since'[h] = since[h]
  BY DEF Others
<1>2. Answered(h)'
  BY <1>1 DEF RefreshInv, Answered
<1>3. CASE ~(clean'[h] /\ Busy(h))
  BY <1>1, <1>2, <1>3 DEF RefreshInv, Knows, Busy, Loading
<1>4. CASE rules' = rules /\ cache' = cache
  BY <1>1, <1>2, <1>4 DEF RefreshInv, Knows, Busy
<1> QED
  BY <1>3, <1>4

LEMMA InitRefresh == Init => RefreshInv
  BY InitType DEF Init, RefreshInv, Alone, Knows, Answered, Busy, Loading, None

LEMMA EnvironmentRefresh ==
  ASSUME RefreshInv, Environment PROVE RefreshInv'
<1> TypeInv /\ TypeInv'
  BY EnvironmentType DEF RefreshInv
<1>1. CASE Publish
  BY <1>1 DEF Publish, RefreshInv, Alone, Knows, Answered, Busy
<1>2. CASE Expire
  BY <1>2 DEF Expire, RefreshInv, Alone, Knows, Answered, Busy
<1>3. CASE Restart
  BY <1>3 DEF Restart, RefreshInv, Alone, Knows, Answered, Busy, Loading, None
<1>4. ASSUME NEW m \in live, NEW n \in Manager \ live, NEW d \in SUBSET Key,
             Clone(m, n, d)
      PROVE  RefreshInv'
  <2>1. \A g \in Goroutine : rules'[on[g]] = rules[on[g]]
    BY <1>4 DEF Clone, TypeInv, TypeOK
  <2> QED
    BY <1>4, <2>1 DEF Clone, RefreshInv, Alone, Knows, Answered, Busy
<1>5. CASE OthersStore
  <2>1. \A g \in Goroutine : clean'[g] => clean[g] /\ ~Busy(g)
    BY <1>5 DEF OthersStore
  <2>2. UNCHANGED <<rules, pc, on, call, idx, ret, since>>
    BY <1>5 DEF OthersStore
  <2>3. Alone'
    BY <2>1, <2>2 DEF Alone, Busy
  <2>4. ASSUME NEW g \in Goroutine, clean'[g] PROVE Knows(g)'
    BY <2>1, <2>2, <2>4 DEF RefreshInv, Knows, Busy, Loading
  <2>5. \A g \in Goroutine : Answered(g)'
    BY <2>1, <2>2 DEF RefreshInv, Answered
  <2> QED
    BY <2>3, <2>4, <2>5 DEF RefreshInv
<1> QED
  BY <1>1, <1>2, <1>3, <1>4, <1>5, CollectionAssumption
     DEF Environment, WithContext, WithDefaults, TypeInv, TypeOK

LEMMA BeginRefreshes ==
  ASSUME RefreshInv, NEW g \in Goroutine, Begin(g) PROVE RefreshInv'
<1> TypeInv /\ TypeInv'
  BY BeginType DEF RefreshInv
<1>1. PICK m \in live, c \in Call : BeginRead(g, m, c) \/ BeginRefresh(g, m, c)
  BY DEF Begin
<1>2. Start(g, m, c)
  BY <1>1 DEF BeginRead, BeginRefresh
<1>3. Others(g)
  <2>1. pc' = [pc EXCEPT ![g] = "read"] \/ pc' = [pc EXCEPT ![g] = "delete"]
    BY <1>1 DEF BeginRead, BeginRefresh
  <2>2. ASSUME NEW h \in Goroutine \ {g}
        PROVE  /\ pc'[h] = pc[h] /\ on'[h] = on[h] /\ call'[h] = call[h]
               /\ idx'[h] = idx[h] /\ ret'[h] = ret[h] /\ since'[h] = since[h]
    <3>1. pc'[h] = pc[h]
      BY <2>1 DEF TypeInv, TypeOK
    <3>2. on'[h] = on[h] /\ call'[h] = call[h] /\ idx'[h] = idx[h]
      BY <1>2 DEF Start, TypeInv, TypeOK
    <3>3. ret'[h] = ret[h] /\ since'[h] = since[h]
      BY <1>2 DEF Start, TypeInv, TypeOK
    <3> QED
      BY <3>1, <3>2, <3>3
  <2> QED
    BY <2>2 DEF Others
<1>4. \A h \in Goroutine \ {g} : clean'[h] = (clean[h] /\ ~Busy(h))
  BY <1>2 DEF Start, Overlap
<1>5. clean'[g] = \A k \in Goroutine \ {g} : ~Busy(k)
  BY <1>2 DEF Start, Overlap
<1>6. \A h \in Goroutine \ {g} : Busy(h)' = Busy(h)
  BY <1>3 DEF Others, Busy
<1>7. Alone'
  BY <1>4, <1>5, <1>6 DEF Alone
<1>8. ASSUME NEW h \in Goroutine, h # g
      PROVE  (clean'[h] => Knows(h)') /\ Answered(h)'
  BY <1>3, <1>4, <1>8, OthersKnow
<1>9. ret'[g] = None /\ call'[g] = c /\ on'[g] = m
  BY <1>2 DEF Start, TypeInv, TypeOK
<1>10. Answered(g)'
  BY <1>9 DEF Answered, None
<1>11. idx'[g] = Nil
  BY <1>2 DEF Start, TypeInv, TypeOK
<1>12. Knows(g)'
  <2>1. CASE BeginRead(g, m, c)
    <3>1. pc'[g] = "read" /\ call'[g].op # "refresh"
      BY <1>9, <2>1 DEF BeginRead, TypeInv, TypeOK
    <3> QED
      BY <1>11, <3>1 DEF Knows
  <2>2. CASE BeginRefresh(g, m, c)
    <3>1. pc'[g] = "delete" /\ rules'[on'[g]] = Nil
      BY <1>9, <2>2 DEF BeginRefresh, TypeInv, TypeOK
    <3> QED
      BY <1>11, <3>1 DEF Knows
  <2> QED
    BY <1>1, <2>1, <2>2
<1> QED
  BY <1>7, <1>8, <1>10, <1>12 DEF RefreshInv

\* Every step of a load is a step of a loading goroutine.
LEMMA LoadFrame ==
  ASSUME TypeInv, NEW g \in Goroutine, Load(g)
  PROVE  /\ Busy(g) /\ Others(g)
         /\ on' = on /\ call' = call /\ since' = since /\ ret' = ret
         /\ clean' = clean \/ (~clean'[g] /\ \A h \in Goroutine \ {g} : clean'[h] = clean[h])
<1> USE DEF TypeInv, TypeOK, Others, Goto, Busy, Loading
<1>1. CASE DeleteEntry(g)
  BY <1>1 DEF DeleteEntry
<1>2. CASE DeleteFails(g)
  BY <1>2 DEF DeleteFails
<1>3. CASE ReadRules(g)
  BY <1>3 DEF ReadRules
<1>4. CASE NoRules(g)
  BY <1>4 DEF NoRules
<1>5. CASE CacheHit(g)
  BY <1>5 DEF CacheHit
<1>6. CASE CacheMiss(g)
  BY <1>6 DEF CacheMiss
<1>7. CASE FetchOk(g)
  BY <1>7 DEF FetchOk
<1>8. CASE FetchFails(g)
  BY <1>8 DEF FetchFails
<1>9. CASE Store(g)
  BY <1>9 DEF Store
<1>10. CASE StoreFails(g)
  BY <1>10 DEF StoreFails
<1>11. CASE Install(g)
  BY <1>11 DEF Install
<1> QED
  BY <1>1, <1>2, <1>3, <1>4, <1>5, <1>6, <1>7, <1>8, <1>9, <1>10, <1>11 DEF Load

\* A load that is undisturbed carries on what it knows: it deletes the entry,
\* finds neither index nor entry, and fetches what the server has.
LEMMA LoadKnows ==
  ASSUME RefreshInv, NEW g \in Goroutine, Load(g), clean'[g]
  PROVE  Knows(g)'
<1> TypeInv /\ TypeInv'
  BY LoadType DEF RefreshInv
<1>1. clean[g] /\ on' = on /\ call' = call /\ since' = since
  BY LoadFrame
<1>2. Knows(g)
  BY <1>1 DEF RefreshInv
<1> USE DEF Knows, Busy, Loading, Goto
<1>3. CASE DeleteEntry(g)
  BY <1>1, <1>2, <1>3, VersionAssumption DEF DeleteEntry, CacheAfterDelete, TypeInv, TypeOK
<1>4. CASE DeleteFails(g)
  BY <1>1, <1>4 DEF DeleteFails, TypeInv, TypeOK
<1>5. CASE ReadRules(g)
  BY <1>1, <1>2, <1>5 DEF ReadRules, InMemory, TypeInv, TypeOK
<1>6. CASE NoRules(g)
  BY <1>1, <1>2, <1>6 DEF NoRules, InMemory, TypeInv, TypeOK
<1>7. CASE CacheHit(g)
  BY <1>1, <1>2, <1>7 DEF CacheHit, Decodes, TypeInv, TypeOK
<1>8. CASE CacheMiss(g)
  BY <1>1, <1>2, <1>8 DEF CacheMiss, TypeInv, TypeOK
<1>9. CASE FetchOk(g)
  <2>1. published >= since[g]
    BY DEF TypeInv, TypeOK
  <2> QED
    BY <1>1, <1>2, <1>9, <2>1 DEF FetchOk, TypeInv, TypeOK
<1>10. CASE FetchFails(g)
  BY <1>1, <1>2, <1>10 DEF FetchFails, AfterFailure, TypeInv, TypeOK
<1>11. CASE Store(g)
  BY <1>1, <1>2, <1>11 DEF Store, Kept, TypeInv, TypeOK
<1>12. CASE StoreFails(g)
  BY <1>1, <1>2, <1>12 DEF StoreFails, TypeInv, TypeOK
<1>13. CASE Install(g)
  BY <1>1, <1>2, <1>13 DEF Install, TypeInv, TypeOK
<1> QED
  BY <1>3, <1>4, <1>5, <1>6, <1>7, <1>8, <1>9, <1>10, <1>11, <1>12, <1>13 DEF Load

LEMMA LoadRefreshes ==
  ASSUME RefreshInv, NEW g \in Goroutine, Load(g) PROVE RefreshInv'
<1> TypeInv /\ TypeInv'
  BY LoadType DEF RefreshInv
<1>1. /\ Busy(g) /\ Others(g)
      /\ on' = on /\ call' = call /\ since' = since /\ ret' = ret
      /\ \A h \in Goroutine : clean'[h] => clean[h]
  BY LoadFrame
<1>2. \A h \in Goroutine \ {g} : Busy(h)' = Busy(h)
  BY <1>1 DEF Others, Busy
<1>3. Alone'
  BY <1>1, <1>2 DEF RefreshInv, Alone
<1>4. ASSUME NEW h \in Goroutine, h # g
      PROVE  (clean'[h] => Knows(h)') /\ Answered(h)'
  <2>1. ~(clean'[h] /\ Busy(h))
    BY <1>1, <1>4 DEF RefreshInv, Alone
  <2> QED
    BY <1>1, <1>4, <2>1, OthersKnow
<1>5. Answered(g)'
  <2>1. ret[g] = None
    BY <1>1 DEF RefreshInv, Answered, Busy, Loading
  <2> QED
    BY <1>1, <2>1 DEF Answered, None
<1> QED
  BY <1>3, <1>4, <1>5, LoadKnows DEF RefreshInv

\* The rest of a call touches neither index nor cache.
LEMMA AnsweringFrame ==
  ASSUME TypeInv, NEW g \in Goroutine, Answering(g)
  PROVE  /\ Others(g) /\ rules' = rules /\ cache' = cache
         /\ call' = call /\ since' = since /\ clean' = clean
         /\ pc[g] \in {"loaded", "flags"} /\ pc'[g] \in {"flags", "idle"}
         /\ pc'[g] = "idle" \/ ret'[g] = ret[g]
         /\ ret'[g] = ret[g] \/ ret'[g].kind # "refreshed" \/
              /\ pc[g] = "loaded" /\ call[g].op = "refresh"
              /\ idx[g] # Nil /\ ret'[g].version = idx[g]
<1> USE DEF TypeInv, TypeOK, Others, Goto, Return, Error
<1>1. CASE RefreshReturns(g)
  BY <1>1 DEF RefreshReturns
<1>2. CASE SingleEvaluates(g)
  BY <1>2 DEF SingleEvaluates
<1>3. CASE SingleFallsBack(g)
  BY <1>3 DEF SingleFallsBack
<1>4. CASE AllFails(g)
  BY <1>4 DEF AllFails
<1>5. CASE AllBegins(g)
  BY <1>5 DEF AllBegins
<1>6. CASE AllNext(g)
  BY <1>6 DEF AllNext
<1>7. CASE AllReturns(g)
  BY <1>7 DEF AllReturns
<1> QED
  BY <1>1, <1>2, <1>3, <1>4, <1>5, <1>6, <1>7 DEF Answering

LEMMA AnsweringRefreshes ==
  ASSUME RefreshInv, NEW g \in Goroutine, Answering(g) PROVE RefreshInv'
<1> TypeInv /\ TypeInv'
  BY AnsweringType DEF RefreshInv
<1>1. /\ Others(g) /\ rules' = rules /\ cache' = cache /\ call' = call
      /\ since' = since /\ clean' = clean
      /\ pc[g] \in {"loaded", "flags"} /\ pc'[g] \in {"flags", "idle"}
  BY AnsweringFrame
<1>2. Alone'
  BY <1>1 DEF RefreshInv, Alone, Others, Busy, Loading
<1>3. ASSUME NEW h \in Goroutine, h # g
      PROVE  (clean'[h] => Knows(h)') /\ Answered(h)'
  BY <1>1, <1>3, OthersKnow
<1>4. Knows(g)'
  BY <1>1 DEF Knows, Busy, Loading
<1>5. Answered(g)'
  <2>1. ret[g] = None /\ ret[g].kind # "refreshed"
    BY <1>1 DEF RefreshInv, Answered, None
  <2>2. pc'[g] # "idle" => ret'[g] = None
    BY <2>1, AnsweringFrame
  <2>3. ASSUME ret'[g].kind = "refreshed", clean'[g] PROVE ret'[g].version >= since'[g]
    <3>1. /\ pc[g] = "loaded" /\ call[g].op = "refresh"
          /\ idx[g] # Nil /\ ret'[g].version = idx[g]
      BY <2>1, <2>3, AnsweringFrame
    <3>2. Knows(g)
      BY <1>1, <2>3 DEF RefreshInv
    <3> QED
      BY <1>1, <3>1, <3>2 DEF Knows
  <2> QED
    BY <2>2, <2>3 DEF Answered
<1> QED
  BY <1>2, <1>3, <1>4, <1>5 DEF RefreshInv

LEMMA RefreshInvariant == Spec => []RefreshInv
<1>1. Init => RefreshInv
  BY InitRefresh
<1>2. RefreshInv /\ [Next]_vars => RefreshInv'
  <2>1. ASSUME RefreshInv, UNCHANGED vars PROVE RefreshInv'
    BY <2>1 DEF vars, RefreshInv, TypeInv, TypeOK, WalksAnIndex, Alone, Knows, Answered, Busy
  <2> QED
    BY <2>1, EnvironmentRefresh, BeginRefreshes, LoadRefreshes, AnsweringRefreshes DEF Next
<1> QED
  BY <1>1, <1>2, PTL DEF Spec

\* A refresh that succeeds, undisturbed, serves rules at least as new as those
\* the server had when it was called: for any number of goroutines, managers
\* and versions, and with a cache that may fail, forget and be torn.
THEOREM RefreshServesFreshRules == Spec => []RefreshIsFresh
<1>1. RefreshInv => RefreshIsFresh
  BY DEF RefreshInv, Answered, RefreshIsFresh
<1> QED
  BY <1>1, RefreshInvariant, PTL

\* An undisturbed load of a manager that has rules stays in memory.
THEOREM LoadsOnlyIfEmpty == Spec => []LoadsOnlyWithoutRules
<1>1. RefreshInv => LoadsOnlyWithoutRules
  BY DEF RefreshInv, Knows, LoadsOnlyWithoutRules
<1> QED
  BY <1>1, RefreshInvariant, PTL

-----------------------------------------------------------------------------
(* WarnOnce: all living managers share the root's table, and the table and *)
(* the log agree.                                                          *)

WarnInv ==
  /\ TypeInv
  /\ \A m \in live : warnRef[m] = Root
  /\ \A t \in UnknownType : warnings[t] = IF t \in warned[Root] THEN 1 ELSE 0

\* A step warns of one type through the table of a living manager, or of none.
LEMMA WarnFrame ==
  ASSUME TypeInv, NEW g \in Goroutine, Begin(g) \/ Load(g) \/ Answering(g)
  PROVE  /\ live' = live /\ warnRef' = warnRef
         /\ UNCHANGED log \/ \E t \in UnknownType : Warn(on[g], t)
<1>1. CASE Begin(g)
  BY <1>1 DEF Begin, BeginRead, BeginRefresh, Start, family
<1>2. CASE Load(g)
  BY <1>2 DEF Load, DeleteEntry, DeleteFails, ReadRules, NoRules, CacheHit, CacheMiss,
              FetchOk, FetchFails, Store, StoreFails, Install, family
<1>3. CASE Answering(g)
  <2>1. live' = live /\ warnRef' = warnRef
    BY <1>3 DEF Answering, RefreshReturns, SingleEvaluates, SingleFallsBack, AllFails,
                AllBegins, AllNext, AllReturns, Return, family
  <2>2. UNCHANGED log \/ \E t \in UnknownType : Warn(on[g], t)
    BY <1>3 DEF Answering, RefreshReturns, SingleEvaluates, SingleFallsBack, AllFails,
                AllBegins, AllNext, AllReturns, Known
  <2> QED
    BY <2>1, <2>2
<1> QED
  BY <1>1, <1>2, <1>3

LEMMA WarnStep ==
  ASSUME WarnInv, NEW g \in Goroutine, Begin(g) \/ Load(g) \/ Answering(g)
  PROVE  WarnInv'
<1>1. TypeInv /\ TypeInv'
  BY BeginType, LoadType, AnsweringType DEF WarnInv
<1>2. /\ live' = live /\ warnRef' = warnRef
      /\ UNCHANGED log \/ \E t \in UnknownType : Warn(on[g], t)
  BY <1>1, WarnFrame
<1>3. CASE UNCHANGED log
  BY <1>1, <1>2, <1>3 DEF WarnInv, log
<1>4. ASSUME NEW t \in UnknownType, Warn(on[g], t)
      PROVE  \A u \in UnknownType : warnings'[u] = IF u \in warned'[Root] THEN 1 ELSE 0
  <2>1. warnRef[on[g]] = Root /\ Root \in Manager
    BY <1>1, RootAssumption DEF WarnInv, TypeInv, TypeOK
  <2>2. warned' = [warned EXCEPT ![Root] = @ \union {t}]
    BY <1>4, <2>1 DEF Warn
  <2>3. warned'[Root] = warned[Root] \union {t}
    BY <1>1, <2>1, <2>2 DEF TypeInv, TypeOK
  <2>4. CASE t \in warned[Root]
    BY <1>4, <2>1, <2>3, <2>4 DEF Warn, AlreadyWarned, WarnInv
  <2>5. CASE t \notin warned[Root]
    <3>1. warnings' = [warnings EXCEPT ![t] = @ + 1] /\ warnings[t] = 0
      BY <1>4, <2>1, <2>5 DEF Warn, AlreadyWarned, WarnInv
    <3>2. warnings \in [UnknownType -> Nat]
      BY <1>1 DEF TypeInv, TypeOK
    <3>3. warnings'[t] = 1 /\ t \in warned'[Root]
      BY <2>3, <3>1, <3>2
    <3>4. ASSUME NEW u \in UnknownType, u # t
          PROVE  warnings'[u] = warnings[u] /\ (u \in warned'[Root] <=> u \in warned[Root])
      BY <2>3, <3>1, <3>2, <3>4
    <3>5. \A u \in UnknownType : warnings[u] = IF u \in warned[Root] THEN 1 ELSE 0
      BY DEF WarnInv
    <3> QED
      BY <3>3, <3>4, <3>5
  <2> QED
    BY <2>4, <2>5
<1> QED
  BY <1>1, <1>2, <1>3, <1>4 DEF WarnInv

\* A type this release does not know is logged at most once for a root and all
\* its clones, for any number of managers, goroutines and payloads.
THEOREM WarnsOnce == Spec => []WarnOnce
<1>1. Init => WarnInv
  BY InitType, RootAssumption DEF Init, WarnInv
<1>2. WarnInv /\ [Next]_vars => WarnInv'
  <2>1. ASSUME WarnInv, UNCHANGED vars PROVE WarnInv'
    BY <2>1 DEF vars, family, log, WarnInv, TypeInv, TypeOK, WalksAnIndex
  <2>2. ASSUME WarnInv, Environment PROVE WarnInv'
    <3>1. TypeInv'
      BY <2>2, EnvironmentType DEF WarnInv
    <3>2. CASE Publish \/ Expire \/ OthersStore
      BY <2>2, <3>1, <3>2 DEF Publish, Expire, OthersStore, WarnInv, family, log
    <3>3. CASE Restart
      BY <3>1, <3>3, RootAssumption DEF Restart, WarnInv
    <3>4. ASSUME NEW m \in live, NEW n \in Manager \ live, NEW d, Clone(m, n, d)
          PROVE  WarnInv'
      BY <2>2, <3>1, <3>4 DEF Clone, CloneTable, WarnInv, TypeInv, TypeOK, log
    <3> QED
      BY <2>2, <3>2, <3>3, <3>4 DEF Environment, WithContext, WithDefaults
  <2> QED
    BY <2>1, <2>2, WarnStep DEF Next
<1>3. WarnInv => WarnOnce
  BY DEF WarnInv, WarnOnce
<1> QED
  BY <1>1, <1>2, <1>3, PTL DEF Spec

-----------------------------------------------------------------------------
(* What Single answers, and what it reports: both are of the call and the  *)
(* index it was answered with, which stay as they are until the next.      *)

LEMMA LeastExists ==
  ASSUME NEW S \in SUBSET Nat, S # {}
  PROVE  Min(S) \in S /\ \A j \in S : Min(S) <= j
<1> DEFINE R == OpToRel(<, Nat)
<1>1. PICK k \in S : \A j \in S : ~(<<j, k>> \in R)
  <2>1. IsWellFoundedOn(R, Nat)
    BY NatLessThanWellFounded
  <2> HIDE DEF R
  <2> QED
    BY <2>1, WFMin
<1>2. \A j \in S : k <= j
  <2> SUFFICES ASSUME NEW j \in S, j < k PROVE FALSE
    OBVIOUS
  <2>1. <<j, k>> \in Nat \X Nat /\ <<j, k>>[1] < <<j, k>>[2]
    OBVIOUS
  <2>2. <<j, k>> \in R
    BY <2>1 DEF OpToRel
  <2> QED
    BY <1>1, <2>2
<1> QED
  BY <1>2 DEF Min

\* newFlagIndex finds a flag that can be evaluated exactly if there is one.
LEMMA IndexedIsEvaluable ==
  ASSUME NEW v \in Nil..MaxVersion, NEW k
  PROVE  Evaluable(v, k) <=> Indexed(v, k) /\ Known(ByKey(v, k))
<1>1. CASE v = Nil
  BY <1>1 DEF Evaluable, Indexed
<1>2. CASE v # Nil
  <2>1. Payload[v] \in Seq(Flag)
    BY <1>2, PayloadAssumption, VersionAssumption
  <2>2. /\ Len(Payload[v]) \in Nat /\ DOMAIN Payload[v] = 1..Len(Payload[v])
        /\ Places(v, k) \in SUBSET Nat
    BY <2>1 DEF Places
  <2>3. CASE Places(v, k) = {}
    BY <1>2, <2>3 DEF Evaluable, Indexed, Places
  <2>4. CASE Places(v, k) # {}
    <3> DEFINE i == Min(Places(v, k))
    <3>1. i \in Places(v, k) /\ \A j \in Places(v, k) : i <= j
      BY <2>2, <2>4, LeastExists
    <3> HIDE DEF i
    <3>2. /\ i \in DOMAIN Payload[v] /\ Payload[v][i].key = k
          /\ \A j \in 1..(i - 1) : Payload[v][j].key # k
      BY <2>2, <3>1 DEF Places
    <3>3. ASSUME NEW n \in DOMAIN Payload[v], Payload[v][n].key = k,
                 \A j \in 1..(n - 1) : Payload[v][j].key # k
          PROVE  n = i
      BY <2>2, <3>2, <3>3
    <3>4. ByKey(v, k) = Payload[v][i] /\ Indexed(v, k)
      BY <1>2, <2>4 DEF i, ByKey, Indexed
    <3> QED
      BY <1>2, <3>2, <3>3, <3>4 DEF Evaluable
  <2> QED
    BY <2>3, <2>4
<1> QED
  BY <1>1, <1>2

Wanted(g) ==
  IF call[g].inline THEN "inline"
  ELSE IF call[g].key \in defaults[on[g]] THEN "collection" ELSE "nil"

Reports(g) ==
  usage[g] = IF ret[g].kind \in {"flag", "default"} /\ call[g].key # EmptyKey
             THEN Wanted(g) ELSE "unsent"

Degrades(g) ==
  LET a == ret[g]  k == call[g].key IN
  call[g].op = "single" /\ a.kind # "none" =>
    /\ a.version \in Nil..MaxVersion
    /\ a.kind = "flag" => Evaluable(a.version, k)
    /\ a.kind = "evalError" => Evaluable(a.version, k) /\ ByKey(a.version, k).broken
    /\ a.kind = "default" => ~Evaluable(a.version, k) /\ HasDefault(on[g], call[g])
    /\ a.kind = "notFound" => ~Evaluable(a.version, k) /\ ~HasDefault(on[g], call[g])
    /\ a.kind \in {"flag", "evalError", "default", "notFound"}

AnswerInv ==
  /\ TypeInv
  /\ \A g \in Goroutine : /\ pc[g] = "flags" => call[g].op = "all"
                          /\ Reports(g) /\ Degrades(g)

\* A goroutine whose call, answer and report stay keeps what holds of them.
LEMMA AnswerStays ==
  ASSUME AnswerInv, NEW g \in Goroutine,
         call'[g] = call[g], ret'[g] = ret[g], usage'[g] = usage[g],
         on'[g] = on[g], defaults'[on[g]] = defaults[on[g]]
  PROVE  Reports(g)' /\ Degrades(g)'
BY DEF AnswerInv, Reports, Degrades, Wanted, HasDefault, Evaluable

LEMMA AnswersInline ==
  ASSUME TypeInv, NEW g \in Goroutine
  PROVE  /\ call[g].inline \in BOOLEAN
         /\ idx[g] \in Nil..MaxVersion
BY CallAssumption, VersionAssumption DEF TypeInv, TypeOK

LEMMA EvaluatesAnswer ==
  ASSUME AnswerInv, NEW g \in Goroutine, SingleEvaluates(g)
  PROVE  Reports(g)' /\ Degrades(g)'
<1> DEFINE c == call[g]
           f == ByKey(idx[g], c.key)
<1>1. /\ UNCHANGED <<call, on, defaults>>
      /\ c.op = "single" /\ Indexed(idx[g], c.key) /\ Known(f)
      /\ ret'[g] = IF f.broken THEN Error("evalError", idx[g])
                   ELSE [kind |-> "flag", version |-> idx[g], default |-> "nil"]
      /\ usage'[g] = IF f.broken THEN "unsent"
                     ELSE Report(c, EffectiveDefault(on[g], c))
  BY DEF SingleEvaluates, Return, family, AnswerInv, TypeInv, TypeOK
<1>2. idx[g] \in Nil..MaxVersion /\ Evaluable(idx[g], c.key)
  BY <1>1, AnswersInline, IndexedIsEvaluable DEF AnswerInv
<1> HIDE DEF c, f
<1>3. CASE f.broken
  BY <1>1, <1>2, <1>3 DEF Reports, Degrades, Error, Evaluable, c, f, ByKey, Places
<1>4. CASE ~f.broken
  BY <1>1, <1>2, <1>4
  DEF Reports, Degrades, Report, EffectiveDefault, Wanted, Evaluable, c
<1> QED
  BY <1>3, <1>4

LEMMA FallsBackAnswer ==
  ASSUME AnswerInv, NEW g \in Goroutine, SingleFallsBack(g)
  PROVE  Reports(g)' /\ Degrades(g)'
<1> DEFINE c == call[g]
           d == ServedDefault(on[g], c)
<1>1. /\ UNCHANGED <<call, on, defaults>> /\ c.op = "single"
      /\ Indexed(idx[g], c.key) => ~Known(ByKey(idx[g], c.key))
      /\ ret'[g] = IF d = "nil" THEN Error("notFound", idx[g])
                   ELSE [kind |-> "default", version |-> idx[g], default |-> d]
      /\ usage'[g] = IF d = "nil" THEN "unsent" ELSE Report(c, d)
  BY DEF SingleFallsBack, Return, family, AnswerInv, TypeInv, TypeOK
<1>2. idx[g] \in Nil..MaxVersion /\ ~Evaluable(idx[g], c.key)
  BY <1>1, AnswersInline, IndexedIsEvaluable DEF AnswerInv
<1>3. d = Wanted(g) /\ (d = "nil" <=> ~HasDefault(on[g], c))
  BY DEF ServedDefault, Wanted, HasDefault
<1> HIDE DEF c, d
<1>4. CASE d = "nil"
  BY <1>1, <1>2, <1>3, <1>4 DEF Reports, Degrades, Error, Evaluable, HasDefault, c
<1>5. CASE d # "nil"
  BY <1>1, <1>2, <1>3, <1>5
  DEF Reports, Degrades, Report, Wanted, Evaluable, HasDefault, c
<1> QED
  BY <1>4, <1>5

\* A call of All or RefreshRules reports nothing, and Single has no part in it.
LEMMA OtherAnswers ==
  ASSUME AnswerInv, NEW g \in Goroutine, call[g].op # "single",
         UNCHANGED <<call, on, defaults>>,
         \/ ret'[g] = ret[g] /\ usage'[g] = usage[g]
         \/ ret'[g].kind \notin {"flag", "default"} /\ usage'[g] = "unsent"
  PROVE  Reports(g)' /\ Degrades(g)'
BY DEF AnswerInv, Reports, Degrades, Wanted

LEMMA AnsweringAnswer ==
  ASSUME AnswerInv, NEW g \in Goroutine, Answering(g)
  PROVE  AnswerInv'
<1>1. TypeInv'
  BY AnsweringType DEF AnswerInv
<1>2. UNCHANGED <<call, on, defaults>> /\ (pc'[g] = "flags" => call[g].op = "all")
  BY DEF Answering, RefreshReturns, SingleEvaluates, SingleFallsBack, AllFails, AllBegins,
         AllNext, AllReturns, Return, Goto, family, AnswerInv, TypeInv, TypeOK
<1>3. \A h \in Goroutine \ {g} :
        pc'[h] = pc[h] /\ ret'[h] = ret[h] /\ usage'[h] = usage[h]
  BY DEF Answering, RefreshReturns, SingleEvaluates, SingleFallsBack, AllFails, AllBegins,
         AllNext, AllReturns, Return, Goto, AnswerInv, TypeInv, TypeOK
<1>4. Reports(g)' /\ Degrades(g)'
  <2>1. CASE SingleEvaluates(g)
    BY <2>1, EvaluatesAnswer
  <2>2. CASE SingleFallsBack(g)
    BY <2>2, FallsBackAnswer
  <2>3. CASE RefreshReturns(g) \/ AllFails(g) \/ AllBegins(g) \/ AllNext(g) \/ AllReturns(g)
    <3>1. call[g].op # "single"
      BY <2>3
      DEF RefreshReturns, AllFails, AllBegins, AllNext, AllReturns, Return, Goto, AnswerInv
    <3>2. \/ ret'[g] = ret[g] /\ usage'[g] = usage[g]
          \/ ret'[g].kind \notin {"flag", "default"} /\ usage'[g] = "unsent"
      BY <2>3
      DEF RefreshReturns, AllFails, AllBegins, AllNext, AllReturns, Return, Error,
          AnswerInv, TypeInv, TypeOK
    <3> QED
      BY <1>2, <3>1, <3>2, OtherAnswers
  <2> QED
    BY <2>1, <2>2, <2>3 DEF Answering
<1>5. ASSUME NEW h \in Goroutine \ {g} PROVE Reports(h)' /\ Degrades(h)'
  BY <1>2, <1>3, AnswerStays
<1> QED
  BY <1>1, <1>2, <1>3, <1>4, <1>5 DEF AnswerInv

LEMMA LoadAnswer ==
  ASSUME AnswerInv, NEW g \in Goroutine, Load(g)
  PROVE  AnswerInv'
<1>1. TypeInv'
  BY LoadType DEF AnswerInv
<1>2. UNCHANGED <<call, on, defaults, ret, usage>>
  BY DEF Load, DeleteEntry, DeleteFails, ReadRules, NoRules, CacheHit, CacheMiss, FetchOk,
         FetchFails, Store, StoreFails, Install, family
<1>3. \A h \in Goroutine : pc'[h] = "flags" => pc[h] = "flags"
  BY DEF Load, DeleteEntry, DeleteFails, ReadRules, NoRules, CacheHit, CacheMiss, FetchOk,
         FetchFails, AfterFailure, Store, StoreFails, Install, Goto, AnswerInv, TypeInv,
         TypeOK
<1> QED
  BY <1>1, <1>2, <1>3, AnswerStays DEF AnswerInv

LEMMA BeginAnswer ==
  ASSUME AnswerInv, NEW g \in Goroutine, Begin(g)
  PROVE  AnswerInv'
<1>1. TypeInv'
  BY BeginType DEF AnswerInv
<1>2. PICK m \in live, c \in Call : BeginRead(g, m, c) \/ BeginRefresh(g, m, c)
  BY DEF Begin
<1>3. Start(g, m, c)
  BY <1>2 DEF BeginRead, BeginRefresh
<1>4. pc'[g] # "flags" /\ \A h \in Goroutine \ {g} : pc'[h] = pc[h]
  BY <1>2 DEF BeginRead, BeginRefresh, AnswerInv, TypeInv, TypeOK
<1>5. /\ ret'[g] = None /\ usage'[g] = "unsent" /\ defaults' = defaults
      /\ \A h \in Goroutine \ {g} : /\ call'[h] = call[h] /\ ret'[h] = ret[h]
                                    /\ usage'[h] = usage[h] /\ on'[h] = on[h]
  BY <1>3 DEF Start, family, AnswerInv, TypeInv, TypeOK
<1>6. Reports(g)' /\ Degrades(g)'
  BY <1>5 DEF Reports, Degrades, None
<1>7. ASSUME NEW h \in Goroutine \ {g}
      PROVE  Reports(h)' /\ Degrades(h)' /\ call'[h] = call[h]
  BY <1>5, AnswerStays
<1> QED
  BY <1>1, <1>4, <1>6, <1>7 DEF AnswerInv

LEMMA EnvironmentAnswer ==
  ASSUME AnswerInv, Environment
  PROVE  AnswerInv'
<1>1. TypeInv'
  BY EnvironmentType DEF AnswerInv
<1>2. CASE Publish \/ Expire \/ OthersStore
  <2>1. UNCHANGED <<pc, call, ret, usage, on, defaults>>
    BY <1>2 DEF Publish, Expire, OthersStore, family
  <2> QED
    BY <1>1, <2>1, AnswerStays DEF AnswerInv
<1>3. CASE Restart
  <2>1. \A g \in Goroutine : pc'[g] = "idle" /\ ret'[g] = None /\ usage'[g] = "unsent"
    BY <1>3 DEF Restart
  <2> QED
    BY <1>1, <2>1 DEF AnswerInv, Reports, Degrades, None
<1>4. ASSUME NEW m \in live, NEW n \in Manager \ live, NEW d, Clone(m, n, d)
      PROVE  AnswerInv'
  <2>1. UNCHANGED <<pc, call, ret, usage, on>> /\ defaults' = [defaults EXCEPT ![n] = d]
    BY <1>4 DEF Clone
  <2>2. \A g \in Goroutine : defaults'[on[g]] = defaults[on[g]]
    BY <2>1 DEF AnswerInv, TypeInv, TypeOK
  <2> QED
    BY <1>1, <2>1, <2>2, AnswerStays DEF AnswerInv
<1> QED
  BY <1>2, <1>3, <1>4 DEF Environment, WithContext, WithDefaults

LEMMA AnswerInvariant == Spec => []AnswerInv
<1>1. Init => AnswerInv
  BY InitType DEF Init, AnswerInv, Reports, Degrades, None
<1>2. AnswerInv /\ [Next]_vars => AnswerInv'
  <2>1. ASSUME AnswerInv, UNCHANGED vars PROVE AnswerInv'
    <3>1. TypeInv'
      BY <2>1 DEF vars, family, log, AnswerInv, TypeInv, TypeOK, WalksAnIndex
    <3>2. UNCHANGED <<pc, call, ret, usage, on, defaults>>
      BY <2>1 DEF vars, family
    <3> QED
      BY <2>1, <3>1, <3>2, AnswerStays DEF AnswerInv
  <2> QED
    BY <2>1, EnvironmentAnswer, BeginAnswer, LoadAnswer, AnsweringAnswer DEF Next
<1> QED
  BY <1>1, <1>2, PTL DEF Spec

\* A usage report carries the default the caller was served, or would have been
\* (flag_manager.go:137-171, 305).
THEOREM ReportsMatch == Spec => []UsageMatchesAnswer
<1>1. AnswerInv => UsageMatchesAnswer
  BY DEF AnswerInv, Reports, Wanted, UsageMatchesAnswer
<1> QED
  BY <1>1, AnswerInvariant, PTL

\* Single degrades (flag_manager.go:137): for any payload, with keys that repeat,
\* types that are unknown and rules that are broken.
THEOREM SinglesDegrade == Spec => []SingleDegrades
<1>1. ASSUME AnswerInv, NEW g \in Goroutine,
             call[g].op = "single", ret[g].kind = "evalError"
      PROVE  \E i \in DOMAIN Payload[ret[g].version] :
               /\ Payload[ret[g].version][i].key = call[g].key
               /\ Payload[ret[g].version][i].broken
  <2> DEFINE v == ret[g].version  k == call[g].key
  <2>1. v \in Nil..MaxVersion /\ Evaluable(v, k) /\ ByKey(v, k).broken
    BY <1>1 DEF AnswerInv, Degrades
  <2>2. Payload[v] \in Seq(Flag)
    BY <2>1, PayloadAssumption, VersionAssumption DEF Evaluable
  <2>3. Places(v, k) # {} /\ Places(v, k) \in SUBSET Nat
    BY <2>1, <2>2, IndexedIsEvaluable DEF Indexed, Places
  <2>4. Min(Places(v, k)) \in Places(v, k)
    BY <2>3, LeastExists
  <2> QED
    BY <2>1, <2>4 DEF ByKey, Places
<1>2. AnswerInv => SingleDegrades
  BY <1>1 DEF AnswerInv, Degrades, SingleDegrades
<1> QED
  BY <1>2, AnswerInvariant, PTL
-----------------------------------------------------------------------------
(* What All lists, flag by flag.                                           *)

\* An empty answer lists none of the flags.
LEMMA ListsNothing ==
  ASSUME NEW v \in Document PROVE Lists(<< >>, v, 0)
<1>1. Payload[v] \in Seq(Flag)
  BY PayloadAssumption
<1>2. KnownUpTo(v, 0) = {}
  BY <1>1 DEF KnownUpTo
<1> DEFINE f == [i \in {} |-> 0]
<1>3. DOMAIN << >> = {} /\ f \in [{} -> KnownUpTo(v, 0)]
  OBVIOUS
<1> QED
  BY <1>2, <1>3 DEF Lists

\* A flag of an unknown type is left out.
LEMMA ListsSkip ==
  ASSUME NEW v \in Document, NEW n \in Nat, NEW o, Lists(o, v, n),
         n + 1 \in DOMAIN Payload[v] => ~Known(Payload[v][n + 1])
  PROVE  Lists(o, v, n + 1)
<1>1. Payload[v] \in Seq(Flag)
  BY PayloadAssumption
<1>2. KnownUpTo(v, n + 1) = KnownUpTo(v, n)
  BY <1>1 DEF KnownUpTo
<1> QED
  BY <1>2 DEF Lists

\* A flag of a known type comes last.
LEMMA ListsAppend ==
  ASSUME NEW v \in Document, NEW n \in Nat, NEW o \in Seq(Key \X Document),
         Lists(o, v, n), n + 1 \in DOMAIN Payload[v], Known(Payload[v][n + 1])
  PROVE  Lists(Append(o, <<Payload[v][n + 1].key, v>>), v, n + 1)
<1> DEFINE e == <<Payload[v][n + 1].key, v>>
           p == Append(o, e)
           l == Len(o)
<1>1. Payload[v] \in Seq(Flag)
  BY PayloadAssumption
<1>2. KnownUpTo(v, n + 1) = KnownUpTo(v, n) \union {n + 1}
  BY <1>1 DEF KnownUpTo
<1>3. KnownUpTo(v, n) \subseteq 1..n
  BY <1>1 DEF KnownUpTo
<1>4. /\ l \in Nat /\ DOMAIN o = 1..l /\ DOMAIN p = 1..(l + 1)
      /\ p[l + 1] = e /\ \A i \in 1..l : p[i] = o[i]
  OBVIOUS
<1>5. PICK f \in [DOMAIN o -> KnownUpTo(v, n)] :
        /\ \A k \in KnownUpTo(v, n) : \E i \in DOMAIN o : f[i] = k
        /\ \A i, j \in DOMAIN o : i < j => f[i] < f[j]
        /\ \A i \in DOMAIN o : o[i] = <<Payload[v][f[i]].key, v>>
  BY DEF Lists
<1> DEFINE h == [i \in 1..(l + 1) |-> IF i = l + 1 THEN n + 1 ELSE f[i]]
<1>6. /\ h[l + 1] = n + 1
      /\ \A i \in 1..l : h[i] = f[i] /\ f[i] \in KnownUpTo(v, n) /\ f[i] \in 1..n
  <2> HIDE DEF l, e, p
  <2>1. \A i \in 1..l : i \in 1..(l + 1) /\ i # l + 1
    BY <1>4
  <2>2. \A i \in 1..l : f[i] \in KnownUpTo(v, n)
    BY <1>4, <1>5
  <2>3. l + 1 \in 1..(l + 1)
    BY <1>4
  <2> QED
    BY <1>3, <2>1, <2>2, <2>3
<1> HIDE DEF e, p
<1>7. h \in [DOMAIN p -> KnownUpTo(v, n + 1)]
  BY <1>2, <1>4, <1>5
<1> HIDE DEF h, l
<1>8. \A k \in KnownUpTo(v, n + 1) : \E i \in DOMAIN p : h[i] = k
  <2>1. l + 1 \in DOMAIN p /\ \A i \in DOMAIN o : i \in DOMAIN p /\ i \in 1..l
    BY <1>4
  <2> QED
    BY <1>2, <1>5, <1>6, <2>1
<1>9. ASSUME NEW i \in DOMAIN p, NEW j \in DOMAIN p, i < j PROVE h[i] < h[j]
  <2>1. i \in 1..l /\ (j \in 1..l \/ j = l + 1)
    BY <1>4, <1>9
  <2>2. CASE j \in 1..l
    BY <1>4, <1>5, <1>6, <1>9, <2>1, <2>2
  <2>3. CASE j = l + 1
    <3>1. h[i] \in 1..n /\ h[j] = n + 1
      BY <1>6, <2>1, <2>3
    <3> QED
      BY <3>1
  <2> QED
    BY <2>1, <2>2, <2>3
<1>10. ASSUME NEW i \in DOMAIN p PROVE p[i] = <<Payload[v][h[i]].key, v>>
  <2>1. i \in 1..l \/ i = l + 1
    BY <1>4
  <2> QED
    BY <1>4, <1>5, <1>6, <2>1 DEF e
<1>11. Lists(p, v, n + 1)
  BY <1>7, <1>8, <1>9, <1>10 DEF Lists
<1> QED
  BY <1>11 DEF p, e

\* The loop behind the last flag has listed them all.
LEMMA ListsAll ==
  ASSUME NEW v \in Document, NEW n \in Nat, n >= Len(Payload[v]),
         NEW o, Lists(o, v, n)
  PROVE  Lists(o, v, Len(Payload[v]))
<1>1. Payload[v] \in Seq(Flag)
  BY PayloadAssumption
<1>2. KnownUpTo(v, Len(Payload[v])) = KnownUpTo(v, n)
  BY <1>1 DEF KnownUpTo
<1> QED
  BY <1>2 DEF Lists

Listing(g) ==
  /\ pc[g] = "flags" => Lists(out[g], idx[g], at[g] - 1)
  /\ pc[g] \notin {"idle", "flags"} => out[g] = << >> /\ at[g] = 1
  /\ ret[g].kind = "list" =>
       pc[g] = "idle" /\ Lists(out[g], ret[g].version, Len(Payload[ret[g].version]))

ListInv == TypeInv /\ \A g \in Goroutine : Listing(g)

\* A goroutine that leaves these variables alone keeps what it has listed.
LEMMA ListingStays ==
  ASSUME NEW g \in Goroutine, Listing(g), pc'[g] = pc[g], idx'[g] = idx[g],
         at'[g] = at[g], out'[g] = out[g], ret'[g] = ret[g]
  PROVE  Listing(g)'
BY DEF Listing, Lists, KnownUpTo

\* So does one in a load.
LEMMA ListingLoads ==
  ASSUME NEW g \in Goroutine, Listing(g), pc[g] \notin {"idle", "flags"},
         pc'[g] # "flags", at'[g] = at[g], out'[g] = out[g], ret'[g] = ret[g]
  PROVE  Listing(g)'
BY DEF Listing

\* What a goroutine in the loop, and one that has returned a list, has listed.
LEMMA ListingWalks ==
  ASSUME NEW g \in Goroutine, pc'[g] = "flags", ret'[g].kind # "list",
         Lists(out'[g], idx'[g], at'[g] - 1)
  PROVE  Listing(g)'
BY DEF Listing, Lists, KnownUpTo

LEMMA ListingReturns ==
  ASSUME NEW g \in Goroutine, pc'[g] = "idle",
         ret'[g].kind = "list" =>
           Lists(out'[g], ret'[g].version, Len(Payload[ret'[g].version]))
  PROVE  Listing(g)'
BY DEF Listing, Lists, KnownUpTo

LEMMA LoadLists ==
  ASSUME ListInv, NEW g \in Goroutine, Load(g) PROVE ListInv'
<1>1. TypeInv /\ TypeInv'
  BY LoadType DEF ListInv
<1>2. UNCHANGED <<at, out, ret>>
  BY DEF Load, DeleteEntry, DeleteFails, ReadRules, NoRules, CacheHit, CacheMiss, FetchOk,
         FetchFails, Store, StoreFails, Install
<1>3. pc[g] \notin {"idle", "flags"} /\ pc'[g] # "flags"
  BY <1>1 DEF Load, DeleteEntry, DeleteFails, ReadRules, NoRules, CacheHit, CacheMiss,
              FetchOk, FetchFails, AfterFailure, Store, StoreFails, Install, Goto, TypeInv,
              TypeOK
<1>4. \A h \in Goroutine \ {g} : pc'[h] = pc[h] /\ idx'[h] = idx[h]
  BY <1>1 DEF Load, DeleteEntry, DeleteFails, ReadRules, NoRules, CacheHit, CacheMiss,
              FetchOk, FetchFails, Store, StoreFails, Install, Goto, TypeInv, TypeOK
<1>5. Listing(g)'
  BY <1>2, <1>3, ListingLoads DEF ListInv
<1>6. ASSUME NEW h \in Goroutine \ {g} PROVE Listing(h)'
  BY <1>2, <1>4, ListingStays DEF ListInv
<1> QED
  BY <1>1, <1>5, <1>6 DEF ListInv

LEMMA BeginLists ==
  ASSUME ListInv, NEW g \in Goroutine, Begin(g) PROVE ListInv'
<1>1. TypeInv /\ TypeInv'
  BY BeginType DEF ListInv
<1>2. PICK m \in live, c \in Call : BeginRead(g, m, c) \/ BeginRefresh(g, m, c)
  BY DEF Begin
<1>3. Start(g, m, c)
  BY <1>2 DEF BeginRead, BeginRefresh
<1>4. pc'[g] # "flags" /\ \A h \in Goroutine \ {g} : pc'[h] = pc[h]
  BY <1>1, <1>2 DEF BeginRead, BeginRefresh, TypeInv, TypeOK
<1>5. /\ at'[g] = 1 /\ out'[g] = << >> /\ ret'[g] = None
      /\ \A h \in Goroutine \ {g} : /\ idx'[h] = idx[h] /\ at'[h] = at[h]
                                    /\ out'[h] = out[h] /\ ret'[h] = ret[h]
  BY <1>1, <1>3 DEF Start, TypeInv, TypeOK
<1>6. Listing(g)'
  BY <1>4, <1>5 DEF Listing, None
<1>7. ASSUME NEW h \in Goroutine \ {g} PROVE Listing(h)'
  BY <1>4, <1>5, ListingStays DEF ListInv
<1> QED
  BY <1>1, <1>6, <1>7 DEF ListInv

LEMMA EnvironmentLists ==
  ASSUME ListInv, Environment PROVE ListInv'
<1>1. TypeInv'
  BY EnvironmentType DEF ListInv
<1>2. CASE Restart
  <2>1. \A g \in Goroutine : pc'[g] = "idle" /\ ret'[g] = None
    BY <1>2 DEF Restart
  <2> QED
    BY <1>1, <2>1 DEF ListInv, Listing, None
<1>3. CASE ~Restart
  <2>1. UNCHANGED <<pc, idx, at, out, ret>>
    BY <1>3 DEF Environment, Publish, Expire, OthersStore, WithContext, WithDefaults, Clone
  <2> QED
    BY <1>1, <2>1, ListingStays DEF ListInv
<1> QED
  BY <1>2, <1>3

\* One round of the loop.
LEMMA NextLists ==
  ASSUME ListInv, NEW g \in Goroutine, AllNext(g) PROVE Listing(g)'
<1> DEFINE v == idx[g]
           n == at[g] - 1
           f == Payload[v][n + 1]
<1>1. /\ pc[g] = "flags" /\ v \in Document /\ n \in Nat /\ at[g] = n + 1
      /\ out[g] \in Seq(Key \X Document) /\ Lists(out[g], v, n)
      /\ ret[g].kind # "list" /\ n + 1 \in DOMAIN Payload[v]
  <2>1. pc[g] = "flags" /\ at[g] <= Len(Payload[v])
    BY DEF AllNext, Walked
  <2>2. /\ v \in Document /\ n \in Nat /\ at[g] = n + 1
        /\ out[g] \in Seq(Key \X Document)
    BY <2>1, VersionAssumption DEF ListInv, TypeInv, TypeOK, WalksAnIndex
  <2>3. Payload[v] \in Seq(Flag)
    BY <2>2, PayloadAssumption
  <2>4. n + 1 \in DOMAIN Payload[v]
    BY <2>1, <2>2, <2>3
  <2> QED
    BY <2>1, <2>2, <2>4 DEF ListInv, Listing
<1> HIDE DEF v, n
<1>2. CASE /\ ~Known(f) /\ at' = [at EXCEPT ![g] = @ + 1]
           /\ UNCHANGED <<pc, idx, out, ret>>
  <2>1. at'[g] - 1 = n + 1
    BY <1>1, <1>2 DEF ListInv, TypeInv, TypeOK
  <2>2. Lists(out[g], v, n + 1)
    BY <1>1, <1>2, ListsSkip
  <2> QED
    BY <1>1, <1>2, <2>1, <2>2, ListingWalks DEF v
<1>3. CASE /\ Known(f) /\ out' = [out EXCEPT ![g] = Append(@, <<f.key, v>>)]
           /\ at' = [at EXCEPT ![g] = @ + 1] /\ UNCHANGED <<pc, idx, ret>>
  <2>1. at'[g] - 1 = n + 1 /\ out'[g] = Append(out[g], <<f.key, v>>)
    BY <1>1, <1>3 DEF ListInv, TypeInv, TypeOK
  <2>2. Lists(out'[g], v, n + 1)
    BY <1>1, <1>3, <2>1, ListsAppend
  <2> QED
    BY <1>1, <1>3, <2>1, <2>2, ListingWalks DEF v
<1>4. CASE Return(g, "flags", Error("evalError", idx[g]), "unsent")
  BY <1>4 DEF Return, Goto, Error, Listing, ListInv, TypeInv, TypeOK
<1> QED
  BY <1>1, <1>2, <1>3, <1>4 DEF AllNext, Walked, v

LEMMA AnsweringLists ==
  ASSUME ListInv, NEW g \in Goroutine, Answering(g) PROVE ListInv'
<1>1. TypeInv /\ TypeInv'
  BY AnsweringType DEF ListInv
<1>2. idx' = idx /\ \A h \in Goroutine \ {g} :
        pc'[h] = pc[h] /\ at'[h] = at[h] /\ out'[h] = out[h] /\ ret'[h] = ret[h]
  BY <1>1
  DEF Answering, RefreshReturns, SingleEvaluates, SingleFallsBack, AllFails, AllBegins,
      AllNext, AllReturns, Return, Goto, TypeInv, TypeOK
<1>3. Listing(g)'
  <2>1. CASE RefreshReturns(g) \/ SingleEvaluates(g) \/ SingleFallsBack(g) \/ AllFails(g)
    <3>1. ASSUME NEW a, NEW answer, NEW report, Return(g, a, answer, report),
                 answer.kind # "list"
          PROVE  pc'[g] = "idle" /\ ret'[g].kind # "list"
      BY <1>1, <3>1 DEF Return, Goto, TypeInv, TypeOK
    <3>2. \A k, v : Error(k, v).kind = k
      BY DEF Error
    <3>3. CASE RefreshReturns(g)
      BY <3>1, <3>2, <3>3, ListingReturns DEF RefreshReturns
    <3>4. CASE SingleEvaluates(g)
      BY <3>1, <3>2, <3>4, ListingReturns DEF SingleEvaluates
    <3>5. CASE SingleFallsBack(g)
      BY <3>1, <3>2, <3>5, ListingReturns DEF SingleFallsBack
    <3>6. CASE AllFails(g)
      BY <3>1, <3>2, <3>6, ListingReturns DEF AllFails
    <3> QED
      BY <2>1, <3>3, <3>4, <3>5, <3>6
  <2>2. CASE AllBegins(g)
    <3>1. /\ pc[g] = "loaded" /\ pc'[g] = "flags" /\ idx[g] \in Document
          /\ UNCHANGED <<idx, at, out, ret>>
      BY <1>1, <2>2, VersionAssumption DEF AllBegins, Goto, TypeInv, TypeOK
    <3>2. out[g] = << >> /\ at[g] - 1 = 0 /\ ret[g].kind # "list"
      BY <3>1 DEF ListInv, Listing
    <3>3. Lists(out[g], idx[g], at[g] - 1)
      BY <3>1, <3>2, ListsNothing
    <3> QED
      BY <3>1, <3>2, <3>3, ListingWalks
  <2>3. CASE AllNext(g)
    BY <2>3, NextLists
  <2>4. CASE AllReturns(g)
    <3>1. /\ pc[g] = "flags" /\ at[g] > Len(Payload[idx[g]]) /\ out' = out
          /\ pc'[g] = "idle" /\ ret'[g] = Error("list", idx[g])
      BY <1>1, <2>4 DEF AllReturns, Walked, Return, Goto, TypeInv, TypeOK
    <3>2. idx[g] \in Document /\ at[g] \in Nat /\ at[g] - 1 \in Nat
      <4>1. idx[g] \in Nil..published /\ published \in 1..MaxVersion /\ idx[g] # Nil
        BY <1>1, <3>1 DEF TypeInv, TypeOK, WalksAnIndex
      <4>2. at[g] \in Nat \ {0}
        BY <1>1 DEF TypeInv, TypeOK
      <4> QED
        BY <4>1, <4>2, VersionAssumption
    <3>3. Payload[idx[g]] \in Seq(Flag)
      BY <3>2, PayloadAssumption
    <3>4. at[g] - 1 >= Len(Payload[idx[g]])
      <4>1. Len(Payload[idx[g]]) \in Nat /\ at[g] \in Nat
        BY <3>2, <3>3
      <4> QED
        BY <3>1, <4>1
    <3>5. Lists(out[g], idx[g], Len(Payload[idx[g]]))
      BY <3>1, <3>2, <3>4, ListsAll DEF ListInv, Listing
    <3> QED
      BY <3>1, <3>5, ListingReturns DEF Error
  <2> QED
    BY <2>1, <2>2, <2>3, <2>4 DEF Answering
<1>4. ASSUME NEW h \in Goroutine \ {g} PROVE Listing(h)'
  BY <1>2, ListingStays DEF ListInv
<1> QED
  BY <1>1, <1>3, <1>4 DEF ListInv

\* All lists one version (flag_manager.go:115): every flag of a known type once and
\* in order, for any payload and whatever happens around the loop.
THEOREM ListsOneSnapshot == Spec => []AllIsOneSnapshot
<1>1. Init => ListInv
  BY InitType DEF Init, ListInv, Listing, None
<1>2. ListInv /\ [Next]_vars => ListInv'
  <2>1. ASSUME ListInv, UNCHANGED vars PROVE ListInv'
    <3>1. TypeInv'
      BY <2>1, StepType DEF ListInv
    <3>2. UNCHANGED <<pc, idx, at, out, ret>>
      BY <2>1 DEF vars
    <3> QED
      BY <2>1, <3>1, <3>2, ListingStays DEF ListInv
  <2> QED
    BY <2>1, EnvironmentLists, BeginLists, LoadLists, AnsweringLists DEF Next
<1>3. ListInv => AllIsOneSnapshot
  BY DEF ListInv, Listing, AllIsOneSnapshot
<1> QED
  BY <1>1, <1>2, <1>3, PTL DEF Spec

-----------------------------------------------------------------------------
(* Every step of a call brings its end nearer.                             *)

LEMMA LoadNearer ==
  ASSUME TypeInv, NEW g \in Goroutine, Load(g) PROVE Nearer(g)
<1>1. \/ pc[g] = "delete" /\ pc'[g] = "read"
      \/ pc[g] = "read" /\ pc'[g] \in {"lookup", "loaded"}
      \/ pc[g] = "lookup" /\ pc'[g] \in {"adopt", "fetch"}
      \/ pc[g] = "fetch" /\ pc'[g] \in {"store", "loaded"}
      \/ pc[g] = "store" /\ pc'[g] = "install"
      \/ pc[g] \in {"adopt", "install"} /\ pc'[g] = "loaded"
  <2> USE DEF TypeInv, TypeOK, Goto
  <2>1. CASE DeleteEntry(g) \/ DeleteFails(g)
    BY <2>1 DEF DeleteEntry, DeleteFails
  <2>2. CASE ReadRules(g) \/ NoRules(g)
    BY <2>2 DEF ReadRules, NoRules
  <2>3. CASE CacheHit(g) \/ CacheMiss(g)
    BY <2>3 DEF CacheHit, CacheMiss
  <2>4. CASE FetchOk(g) \/ FetchFails(g)
    BY <2>4 DEF FetchOk, FetchFails, AfterFailure
  <2>5. CASE Store(g) \/ StoreFails(g)
    BY <2>5 DEF Store, StoreFails
  <2>6. CASE Install(g)
    BY <2>6 DEF Install
  <2> QED
    BY <2>1, <2>2, <2>3, <2>4, <2>5, <2>6 DEF Load
<1>2. CASE pc[g] = "delete" \/ pc[g] = "read"
  BY <1>1, <1>2 DEF Distance, Nearer
<1>3. CASE pc[g] = "lookup" \/ pc[g] = "fetch"
  BY <1>1, <1>3 DEF Distance, Nearer
<1>4. CASE pc[g] = "store" \/ pc[g] \in {"adopt", "install"}
  BY <1>1, <1>4 DEF Distance, Nearer
<1> QED
  BY <1>1, <1>2, <1>3, <1>4

\* The loop of All is over when it has seen every flag of its index.
LEMMA LoopNearer ==
  ASSUME TypeInv, NEW g \in Goroutine, AllNext(g)
  PROVE  pc'[g] = "idle" \/ Nearer(g)
<1> DEFINE n == Len(Payload[idx[g]])
<1>1. pc[g] = "flags" /\ at[g] <= n
  BY DEF AllNext, Walked
<1>2. CASE Return(g, "flags", Error("evalError", idx[g]), "unsent")
  BY <1>2 DEF Return, Goto, TypeInv, TypeOK
<1>3. CASE at' = [at EXCEPT ![g] = @ + 1] /\ pc' = pc /\ idx' = idx
  <2>1. idx[g] \in Foreign..published /\ published \in 1..MaxVersion
    BY <1>1, VersionAssumption DEF TypeInv, TypeOK, WalksAnIndex
  <2>2. n \in Nat /\ at[g] \in Nat
    BY <2>1, PayloadAssumption, VersionAssumption DEF TypeInv, TypeOK
  <2>3. at'[g] = at[g] + 1
    BY <1>3 DEF TypeInv, TypeOK
  <2> QED
    BY <1>1, <1>3, <2>2, <2>3 DEF Nearer
<1> QED
  BY <1>2, <1>3 DEF AllNext

LEMMA AnsweringNearer ==
  ASSUME TypeInv, NEW g \in Goroutine, Answering(g) PROVE Nearer(g)
<1>1. pc[g] \in {"loaded", "flags"} /\ pc'[g] \in {"flags", "idle"}
  BY AnsweringFrame
<1>2. CASE pc'[g] = "idle" \/ pc[g] = "loaded"
  BY <1>1, <1>2 DEF Distance, Nearer
<1>3. CASE pc'[g] = "flags" /\ pc[g] = "flags"
  <2>1. AllNext(g)
    BY <1>3
    DEF Answering, RefreshReturns, SingleEvaluates, SingleFallsBack, AllFails, AllBegins,
        AllReturns, Return, Goto, TypeInv, TypeOK
  <2> QED
    BY <1>3, <2>1, LoopNearer
<1> QED
  BY <1>1, <1>2, <1>3

\* A call never turns back (flag_manager.go:105-171, 250-289), and nobody can put
\* it off, for any number of goroutines and any length of the list of flags: what
\* a goroutine that is scheduled fairly needs to return.
THEOREM CallsNeverTurnBack == Spec => CallsAdvance
<1> DEFINE Advance(g) ==
      IF Load(g) \/ Answering(g) \/ Restart THEN Nearer(g)
      ELSE pc'[g] = pc[g] /\ idx'[g] = idx[g] /\ at'[g] = at[g]
<1>1. TypeInv /\ Next => \A g \in Goroutine : pc[g] # "idle" => Advance(g)
  <2> SUFFICES ASSUME TypeInv, Next, NEW g \in Goroutine, pc[g] # "idle"
               PROVE  Advance(g)
    OBVIOUS
  <2>1. CASE Load(g)
    BY <2>1, LoadNearer
  <2>2. CASE Answering(g)
    BY <2>2, AnsweringNearer
  <2>3. CASE Restart
    <3>1. pc'[g] = "idle" /\ pc[g] \in PC
      BY <2>3 DEF Restart, TypeInv, TypeOK
    <3> QED
      BY <2>3, <3>1 DEF Nearer, Distance, PC
  <2>4. CASE ~(Load(g) \/ Answering(g) \/ Restart)
    <3> SUFFICES pc'[g] = pc[g] /\ idx'[g] = idx[g] /\ at'[g] = at[g]
      BY <2>4
    <3>1. CASE Environment
      BY <2>4, <3>1
      DEF Environment, Publish, Expire, OthersStore, WithContext, WithDefaults, Clone
    <3>2. ASSUME NEW h \in Goroutine, Begin(h)
          PROVE  pc'[g] = pc[g] /\ idx'[g] = idx[g] /\ at'[g] = at[g]
      BY <3>2 DEF Begin, BeginRead, BeginRefresh, Start, TypeInv, TypeOK
    <3>3. ASSUME NEW h \in Goroutine, Load(h) \/ Answering(h)
          PROVE  pc'[g] = pc[g] /\ idx'[g] = idx[g] /\ at'[g] = at[g]
      <4>1. h # g
        BY <2>4, <3>3
      <4>2. Others(h)
        BY <3>3, LoadFrame, AnsweringFrame
      <4>3. at'[g] = at[g]
        <5>1. CASE Load(h)
          BY <5>1
          DEF Load, DeleteEntry, DeleteFails, ReadRules, NoRules, CacheHit, CacheMiss, FetchOk,
              FetchFails, Store, StoreFails, Install
        <5>2. CASE AllNext(h)
          BY <4>1, <5>2 DEF AllNext, Return, TypeInv, TypeOK
        <5>3. CASE Answering(h) /\ ~AllNext(h)
          BY <5>3
          DEF Answering, RefreshReturns, SingleEvaluates, SingleFallsBack, AllFails,
              AllBegins, AllReturns, Return
        <5> QED
          BY <3>3, <5>1, <5>2, <5>3
      <4> QED
        BY <4>1, <4>2, <4>3 DEF Others
    <3> QED
      BY <3>1, <3>2, <3>3 DEF Next
  <2> QED
    BY <2>1, <2>2, <2>3, <2>4
<1>2. TypeInv /\ [Next]_vars => [\A g \in Goroutine : pc[g] # "idle" => Advance(g)]_vars
  BY <1>1
<1>3. Spec => []TypeInv
  BY InitType, StepType, PTL DEF Spec
<1> QED
  BY <1>2, <1>3, PTL DEF Spec, CallsAdvance, Advance
=============================================================================
