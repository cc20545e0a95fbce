---------------------------- MODULE CacheContract ----------------------------
(***************************************************************************)
(* What loadRules and RefreshRules need from a Cache (cache.go), for the   *)
(* one key they use, whatever the backend.  The cache may forget its entry *)
(* at any time (TTL, eviction, another process), and an operation may be   *)
(* cut off by a crash; but a Get answers only what the entry was, or what  *)
(* a Set was writing, between its call and its return, and a Delete or a   *)
(* Clear that reports success emptied the cache while it ran.              *)
(* Expire of FlagManager is Forget, its Corrupt the Torn entry.            *)
(***************************************************************************)
EXTENDS Integers, FiniteSets

CONSTANTS Client,  \* the goroutines that call the cache
          Value,   \* what they store
          NoEntry, \* the cache has no entry
          Torn     \* the entry is being written, or its writing was cut off

VARIABLES entry,      \* a value, NoEntry or Torn
          op,         \* the operation of each client
          arg,        \* the value its Set stores, NoEntry outside one
          candidate,  \* the values its Get may answer
          emptied,    \* its Delete or Clear has emptied the cache
          answer      \* what its last operation answered: a value or NoEntry
                      \* for a Get, Ok or Failed for the others

cvars == <<entry, op, arg, candidate, emptied, answer>>

Op == {"idle", "get", "set", "delete", "clear"}

Ok     == "ok"
Failed == "failed"

\* The error a Get may return is told apart from a miss.
Missed == {NoEntry, Failed}

CInit ==
  /\ entry     = NoEntry
  /\ op        = [c \in Client |-> "idle"]
  /\ arg       = [c \in Client |-> NoEntry]
  /\ candidate = [c \in Client |-> {}]
  /\ emptied   = [c \in Client |-> FALSE]
  /\ answer    = [c \in Client |-> NoEntry]

\* The values Sets in progress are writing, and the entry there is.
Possible == ({entry} \cap Value) \union {arg[c] : c \in {d \in Client : op[d] = "set"}}

Call(c, o) ==
  /\ op[c] = "idle" /\ op' = [op EXCEPT ![c] = o]
  /\ answer' = [answer EXCEPT ![c] = NoEntry]

Return(c) == op' = [op EXCEPT ![c] = "idle"]

CallGet(c) ==
  /\ Call(c, "get")
  /\ candidate' = [candidate EXCEPT ![c] = Possible]
  /\ UNCHANGED <<entry, arg, emptied>>

\* A hit on a candidate, a miss or an error.
ReturnGet(c) ==
  /\ op[c] = "get" /\ Return(c)
  /\ \E v \in candidate[c] \union Missed : answer' = [answer EXCEPT ![c] = v]
  /\ candidate' = [candidate EXCEPT ![c] = {}]
  /\ UNCHANGED <<entry, arg, emptied>>

CallSet(c, v) ==
  /\ Call(c, "set")
  /\ arg' = [arg EXCEPT ![c] = v]
  /\ candidate' = [d \in Client |-> IF op[d] = "get" THEN candidate[d] \union {v}
                                    ELSE candidate[d]]
  /\ UNCHANGED <<entry, emptied>>

\* A Set in progress writes its value, or part of it.
Write(c) ==
  /\ op[c] = "set"
  /\ entry' \in {arg[c], Torn}
  /\ UNCHANGED <<op, arg, candidate, emptied, answer>>

ReturnSet(c) ==
  /\ op[c] = "set" /\ Return(c)
  /\ \E r \in {Ok, Failed} : answer' = [answer EXCEPT ![c] = r]
  /\ arg' = [arg EXCEPT ![c] = NoEntry]
  /\ UNCHANGED <<entry, candidate, emptied>>

CallEmpty(c, o) ==
  /\ o \in {"delete", "clear"} /\ Call(c, o)
  /\ emptied' = [emptied EXCEPT ![c] = FALSE]
  /\ UNCHANGED <<entry, arg, candidate>>

Empty(c) ==
  /\ op[c] \in {"delete", "clear"}
  /\ entry' = NoEntry
  /\ emptied' = [emptied EXCEPT ![c] = TRUE]
  /\ UNCHANGED <<op, arg, candidate, answer>>

\* Success only if the cache was emptied; a failure says nothing.
ReturnEmpty(c) ==
  /\ op[c] \in {"delete", "clear"} /\ Return(c)
  /\ \E r \in {Ok, Failed} : /\ r = Ok => emptied[c]
                            /\ answer' = [answer EXCEPT ![c] = r]
  /\ emptied' = [emptied EXCEPT ![c] = FALSE]
  /\ UNCHANGED <<entry, arg, candidate>>

Forget ==
  /\ entry' = NoEntry
  /\ UNCHANGED <<op, arg, candidate, emptied, answer>>

\* A process dies: its operations end where they are.
Abort(C) ==
  /\ op'        = [c \in Client |-> IF c \in C THEN "idle" ELSE op[c]]
  /\ candidate' = [c \in Client |-> IF c \in C THEN {} ELSE candidate[c]]
  /\ emptied'   = [c \in Client |-> IF c \in C THEN FALSE ELSE emptied[c]]
  /\ answer'    = [c \in Client |-> IF c \in C THEN NoEntry ELSE answer[c]]
  /\ arg'       = [c \in Client |-> IF c \in C THEN NoEntry ELSE arg[c]]
  /\ UNCHANGED entry

CNext ==
  \/ Forget
  \/ \E C \in SUBSET Client : Abort(C)
  \/ \E c \in Client :
       \/ CallGet(c) \/ ReturnGet(c)
       \/ (\E v \in Value : CallSet(c, v)) \/ Write(c) \/ ReturnSet(c)
       \/ (\E o \in {"delete", "clear"} : CallEmpty(c, o)) \/ Empty(c) \/ ReturnEmpty(c)

Contract == CInit /\ [][CNext]_cvars
=============================================================================
