----------------------------- MODULE MemoryCache -----------------------------
(***************************************************************************)
(* InMemoryCache (cache_memory.go) for one key.  Every locked section is a *)
(* step; between the sections of a Get, and between reading an entry and   *)
(* comparing its expiry with the clock, anything can happen.               *)
(***************************************************************************)
EXTENDS Integers, FiniteSets

CONSTANTS Client, Value, NoEntry, Torn,
          TTL,     \* the time-to-live values Set is called with
          MaxTime  \* bound on the clock

ASSUME CacheAssumption ==
  TTL \subseteq Int /\ MaxTime \in Nat \ {0} /\ NoEntry \notin Value

VARIABLES now,    \* the clock; it starts at 1, so that 0 is Go's zero time
          stored, \* c.entries[key]: [value, expires], or Absent
          pc,     \* where a client is in its operation
          arg,    \* the entry its Set stores, Absent outside one
          seen,   \* Get: its copy of the entry
          candidate, answer,  \* history for CacheContract
          overwritten         \* history: a Set wrote since this Get looked

vars == <<now, stored, pc, arg, seen, candidate, answer, overwritten>>

Absent == [value |-> NoEntry, expires |-> 0]

\* !entry.expiresAt.IsZero() && time.Now().After(entry.expiresAt)
Expired_NoZero(e) == now > e.expires     \* mutant: zero is not "never"
Expired(e) == e.expires # 0 /\ now > e.expires

\* Set: no expiry, that is the zero time, unless the ttl is positive.
ExpiresAt(ttl) == IF ttl > 0 THEN now + ttl ELSE 0

Op(c) == CASE pc[c] \in {"look", "check", "evict", "hit", "miss"} -> "get"
           [] pc[c] \in {"set", "written"}    -> "set"
           [] pc[c] \in {"delete", "deleted"} -> "delete"
           [] pc[c] \in {"clear", "cleared"}  -> "clear"
           [] OTHER                           -> "idle"

\* The entry callers can count on: present, and its time has not passed.
Visible == IF stored # Absent /\ (stored.expires = 0 \/ stored.expires >= now)
           THEN stored.value ELSE NoEntry

Init ==
  /\ now       = 1
  /\ stored    = Absent
  /\ pc        = [c \in Client |-> "idle"]
  /\ arg       = [c \in Client |-> Absent]
  /\ seen      = [c \in Client |-> Absent]
  /\ candidate = [c \in Client |-> {}]
  /\ answer    = [c \in Client |-> NoEntry]
  /\ overwritten = [c \in Client |-> FALSE]

Goto(c, a, b) == pc[c] = a /\ pc' = [pc EXCEPT ![c] = b]

Call(c, o) == Goto(c, "idle", o) /\ answer' = [answer EXCEPT ![c] = NoEntry]

-----------------------------------------------------------------------------
Tick ==
  /\ now < MaxTime
  /\ now' = now + 1
  /\ UNCHANGED <<stored, pc, arg, seen, candidate, answer, overwritten>>

CallGet(c) ==
  /\ Call(c, "look")
  /\ candidate' = [candidate EXCEPT ![c] = ({Visible} \ {NoEntry}) \union
                     {arg[d].value : d \in {e \in Client : Op(e) = "set"}}]
  /\ UNCHANGED <<now, stored, arg, seen, overwritten>>

\* The read-locked section.
Look(c) ==
  /\ Goto(c, "look", IF stored = Absent THEN "miss" ELSE "check")
  /\ seen' = [seen EXCEPT ![c] = stored]
  /\ overwritten' = [overwritten EXCEPT ![c] = FALSE]
  /\ UNCHANGED <<now, stored, arg, candidate, answer>>

\* The clock is read when the lock is gone.
Verdict_Hit(c) == "hit"                   \* mutant: the expiry is not looked at
Verdict(c) == IF Expired(seen[c]) THEN "evict" ELSE "hit"

Check(c) ==
  /\ Goto(c, "check", Verdict(c))
  /\ UNCHANGED <<now, stored, arg, seen, candidate, answer, overwritten>>

\* The write-locked section deletes whatever is there by now.
Evict(c) ==
  /\ Goto(c, "evict", "miss")
  /\ stored' = Absent
  /\ UNCHANGED <<now, arg, seen, candidate, answer, overwritten>>

ReturnGet(c) ==
  /\ Goto(c, "hit", "idle") \/ Goto(c, "miss", "idle")
  /\ answer' = [answer EXCEPT ![c] = IF pc[c] = "hit" THEN seen[c].value ELSE NoEntry]
  /\ seen' = [seen EXCEPT ![c] = Absent]
  /\ candidate' = [candidate EXCEPT ![c] = {}]
  /\ overwritten' = [overwritten EXCEPT ![c] = FALSE]
  /\ UNCHANGED <<now, stored, arg>>

\* The expiry is computed before the lock is taken.
CallSet(c, v, ttl) ==
  /\ Call(c, "set")
  /\ arg' = [arg EXCEPT ![c] = [value |-> v, expires |-> ExpiresAt(ttl)]]
  /\ candidate' = [d \in Client |-> IF Op(d) = "get" THEN candidate[d] \union {v}
                                    ELSE candidate[d]]
  /\ UNCHANGED <<now, stored, seen, overwritten>>

Write(c) ==
  /\ Goto(c, "set", "written")
  /\ stored' = arg[c]
  /\ overwritten' = [d \in Client |-> Op(d) = "get"]
  /\ UNCHANGED <<now, arg, seen, candidate, answer>>

CallEmpty(c, o) ==
  /\ o \in {"delete", "clear"} /\ Call(c, o)
  /\ UNCHANGED <<now, stored, arg, seen, candidate, overwritten>>

\* Delete removes the key, Clear replaces the map.
Empty(c) ==
  /\ Goto(c, "delete", "deleted") \/ Goto(c, "clear", "cleared")
  /\ stored' = Absent
  /\ UNCHANGED <<now, arg, seen, candidate, answer, overwritten>>

\* Set, Delete and Clear report no error.
Return(c) ==
  /\ \E a \in {"written", "deleted", "cleared"} : Goto(c, a, "idle")
  /\ answer' = [answer EXCEPT ![c] = "ok"]
  /\ arg' = [arg EXCEPT ![c] = Absent]
  /\ UNCHANGED <<now, stored, seen, candidate, overwritten>>

Next ==
  \/ Tick
  \/ \E c \in Client :
       \/ CallGet(c) \/ Look(c) \/ Check(c) \/ Evict(c) \/ ReturnGet(c)
       \/ (\E v \in Value, t \in TTL : CallSet(c, v, t)) \/ Write(c)
       \/ (\E o \in {"delete", "clear"} : CallEmpty(c, o)) \/ Empty(c)
       \/ Return(c)

Spec == Init /\ [][Next]_vars

-----------------------------------------------------------------------------
\* The in-memory cache keeps the contract of every cache: a Get answers an
\* entry that was there, unexpired, or being stored during the call, whichever
\* Set, Delete, Clear or eviction runs in between (cache_memory.go:24-67).
C == INSTANCE CacheContract WITH
       entry   <- Visible,
       op      <- [c \in Client |-> Op(c)],
       arg     <- [c \in Client |-> arg[c].value],
       emptied <- [c \in Client |-> pc[c] \in {"deleted", "cleared"}]
KeepsContract == C!Contract

\* A Get takes an unexpired entry away only if a Set stored it after that Get
\* had read an expired one (cache_memory.go:26-36): outside that race an entry
\* lives for its whole TTL, for ever if it has none.
EvictsOnlyInRace ==
  [][\A c \in Client : Evict(c) /\ Visible # NoEntry => overwritten[c]]_vars

\* "Get retrieves a cache entry if present and unexpired." (cache_memory.go:24):
\* an entry that is present and unexpired is retrieved, not removed, by a Get.
GetKeepsFresh == [][\A c \in Client : Evict(c) => Visible = NoEntry]_vars
=============================================================================
