----------------------------- MODULE FlagService -----------------------------
(***************************************************************************)
(* What the flag managers promise, without how: the abstract specification *)
(* of flag_manager.go.                                                     *)
(*                                                                         *)
(* Every manager holds one version of the rules, or none; one store, which *)
(* forgets, is behind all of them, and a server behind the store.  A call  *)
(* takes one version, once: the one its manager holds; if that holds none  *)
(* when the call looks, the one in the store; if there is none, or the     *)
(* store on disk cannot be read, the one the server has at that moment.    *)
(* It answers from this version and no other, and whatever it takes from   *)
(* outside it leaves with its own manager.  A refresh first has the        *)
(* manager and the store forget.  A call that finds nothing says so, or    *)
(* serves a default.                                                       *)
(***************************************************************************)
EXTENDS Integers

CONSTANTS Manager, Root, Goroutine, MaxVersion,
          OnDisk   \* the store's operations may fail, and others write to it

Foreign == 0     \* a document the server never had
Nil     == -1
NoEntry == -1
Ops     == {"single", "all", "refresh"}

VARIABLES published, \* the version the server has
          live,      \* the managers that exist
          held,      \* the version each manager holds, or Nil
          store,     \* the version in the store, or NoEntry
          on, op,    \* the manager and the operation of a goroutine's call
          phase,     \* how far the call is
          taken,     \* the version it has taken
          answer     \* what it answered

vars == <<published, live, held, store, on, op, phase, taken, answer>>

NoAnswer     == [kind |-> "none", version |-> Nil]
Says(k, v)   == [kind |-> k, version |-> v]
call         == <<on, op, phase, taken, answer>>

Init ==
  /\ published = 1 /\ live = {Root}
  /\ held   = [m \in Manager |-> Nil]
  /\ store  = NoEntry
  /\ on     = [g \in Goroutine |-> Root]
  /\ op     \in [Goroutine -> Ops]
  /\ phase  = [g \in Goroutine |-> "idle"]
  /\ taken  = [g \in Goroutine |-> Nil]
  /\ answer = [g \in Goroutine |-> NoAnswer]

Becomes(g, a, b) == phase[g] = a /\ phase' = [phase EXCEPT ![g] = b]

-----------------------------------------------------------------------------
Publish ==
  /\ published < MaxVersion
  /\ published' = published + 1
  /\ UNCHANGED <<live, held, store, call>>

\* A manager derived from another starts with what that one holds.
Derive(m, n) ==
  /\ m \in live /\ n \in Manager \ live
  /\ live' = live \union {n}
  /\ held' = [held EXCEPT ![n] = held[m]]
  /\ UNCHANGED <<published, store, call>>

\* The store may forget at any time.
Lose ==
  /\ store' = NoEntry
  /\ UNCHANGED <<published, live, held, call>>

\* Another process stores a version, or a document of its own.
Replace ==
  /\ OnDisk
  /\ store' \in {NoEntry} \union Foreign..published
  /\ UNCHANGED <<published, live, held, call>>

\* The program starts again; at most the store is still there.
Restart ==
  /\ store' \in {NoEntry, store}
  /\ live' = {Root}
  /\ held'   = [m \in Manager |-> Nil]
  /\ on'     = [g \in Goroutine |-> Root]
  /\ op'     \in [Goroutine -> Ops]
  /\ phase'  = [g \in Goroutine |-> "idle"]
  /\ taken'  = [g \in Goroutine |-> Nil]
  /\ answer' = [g \in Goroutine |-> NoAnswer]
  /\ UNCHANGED published

-----------------------------------------------------------------------------
Invoke(g, m, o) ==
  /\ m \in live
  /\ Becomes(g, "idle", IF o = "refresh" THEN "forgetting" ELSE "taking")
  /\ held'   = IF o = "refresh" THEN [held EXCEPT ![m] = Nil] ELSE held
  /\ on'     = [on EXCEPT ![g] = m]
  /\ op'     = [op EXCEPT ![g] = o]
  /\ taken'  = [taken EXCEPT ![g] = Nil]
  /\ answer' = [answer EXCEPT ![g] = NoAnswer]
  /\ UNCHANGED <<published, live, store>>

Forget(g) ==
  /\ Becomes(g, "forgetting", "taking")
  /\ store' \in {NoEntry} \union IF OnDisk THEN {store} ELSE {}
  /\ UNCHANGED <<published, live, held, on, op, taken, answer>>

TakeHeld(g) ==
  /\ held[on[g]] # Nil
  /\ Becomes(g, "taking", "answering")
  /\ taken' = [taken EXCEPT ![g] = held[on[g]]]
  /\ UNCHANGED <<published, live, held, store, on, op, answer>>

MissHeld(g) ==
  /\ held[on[g]] = Nil
  /\ Becomes(g, "taking", "looking")
  /\ UNCHANGED <<published, live, held, store, on, op, taken, answer>>

TakeStored(g) ==
  /\ store # NoEntry
  /\ Becomes(g, "looking", "leaving")
  /\ taken' = [taken EXCEPT ![g] = store]
  /\ UNCHANGED <<published, live, held, store, on, op, answer>>

MissStored(g) ==
  /\ store = NoEntry \/ OnDisk
  /\ Becomes(g, "looking", "asking")
  /\ UNCHANGED <<published, live, held, store, on, op, taken, answer>>

TakePublished(g) ==
  /\ Becomes(g, "asking", "storing")
  /\ taken' = [taken EXCEPT ![g] = published]
  /\ UNCHANGED <<published, live, held, store, on, op, answer>>

TakeNothing(g) ==
  /\ Becomes(g, "asking", "answering")
  /\ UNCHANGED <<published, live, held, store, on, op, taken, answer>>

\* What the server gave goes to the store, unless that fails or keeps nothing.
Store(g) ==
  /\ Becomes(g, "storing", "leaving")
  /\ store' \in {taken[g], NoEntry} \union IF OnDisk THEN {store} ELSE {}
  /\ UNCHANGED <<published, live, held, on, op, taken, answer>>

Leave(g) ==
  /\ Becomes(g, "leaving", "answering")
  /\ held' = [held EXCEPT ![on[g]] = taken[g]]
  /\ UNCHANGED <<published, live, store, on, op, taken, answer>>

\* A refresh succeeds with a version and fails without; All answers from a
\* version or errs; Single may always fall back to a default, or err.
Answers(o, v) ==
  CASE o = "refresh" -> {Says(IF v = Nil THEN "error" ELSE "served", v)}
    [] o = "all"     -> {Says("error", v)} \union IF v = Nil THEN {} ELSE {Says("served", v)}
    [] o = "single"  -> {Says("error", v), Says("default", v)}
                        \union IF v = Nil THEN {} ELSE {Says("served", v)}

Answer(g) ==
  /\ Becomes(g, "answering", "idle")
  /\ \E a \in Answers(op[g], taken[g]) : answer' = [answer EXCEPT ![g] = a]
  /\ UNCHANGED <<published, live, held, store, on, op, taken>>

-----------------------------------------------------------------------------
Step(g) ==
  \/ \E m \in live, o \in Ops : Invoke(g, m, o)
  \/ Forget(g)
  \/ TakeHeld(g) \/ MissHeld(g) \/ TakeStored(g) \/ MissStored(g)
  \/ TakePublished(g) \/ TakeNothing(g)
  \/ Store(g) \/ Leave(g) \/ Answer(g)

Next ==
  \/ Publish \/ Lose \/ Replace \/ Restart
  \/ \E m \in live, n \in Manager \ live : Derive(m, n)
  \/ \E g \in Goroutine : Step(g)

Spec == Init /\ [][Next]_vars
=============================================================================
