-------------------------- MODULE MemoryCacheProofs --------------------------
(* InMemoryCache keeps the contract of a cache, and loses a live entry in  *)
(* one race only, for every set of clients, values and TTLs.               *)
EXTENDS MemoryCache, TLAPS

Stops == {"idle", "look", "check", "evict", "hit", "miss", "set", "written",
          "delete", "deleted", "clear", "cleared"}
Entry == [value : Value, expires : Nat]

MemoryTypes ==
  /\ now \in Nat \ {0}
  /\ stored \in Entry \union {Absent}
  /\ pc \in [Client -> Stops]
  /\ arg \in [Client -> Entry \union {Absent}]
  /\ seen \in [Client -> Entry \union {Absent}]
  /\ candidate \in [Client -> SUBSET Value]
  /\ DOMAIN answer = Client
  /\ overwritten \in [Client -> BOOLEAN]

\* Only a Set has an entry to write.
ArgOfSet == \A c \in Client : /\ Op(c) = "set" => arg[c] \in Entry
                              /\ Op(c) # "set" => arg[c] = Absent

\* What a Get may answer: all that is being stored, what it finds as long as that
\* lives, and what it has seen alive.
Candidates ==
  \A c \in Client :
    /\ Op(c) = "get" => \A d \in Client : Op(d) = "set" => arg[d].value \in candidate[c]
    /\ pc[c] = "look" => Visible \in candidate[c] \union {NoEntry}
    /\ pc[c] = "check" => seen[c] \in Entry /\ (Expired(seen[c]) \/ seen[c].value \in candidate[c])
    /\ pc[c] = "hit" => seen[c].value \in candidate[c]

\* A Get that goes to evict saw an expired entry, which is what is there unless a
\* Set wrote since.
Races ==
  \A c \in Client :
    /\ pc[c] = "evict" => Expired(seen[c])
    /\ pc[c] \in {"check", "evict"} => overwritten[c] \/ stored \in {seen[c], Absent}

MemoryInv == MemoryTypes /\ ArgOfSet /\ Candidates /\ Races

-----------------------------------------------------------------------------
\* An entry is live or expired.
LEMMA LiveOrExpired ==
  ASSUME MemoryTypes
  PROVE  /\ stored = Absent => Visible = NoEntry
         /\ stored # Absent => stored \in Entry
         /\ stored # Absent /\ Expired(stored) => Visible = NoEntry
         /\ stored # Absent /\ ~Expired(stored) => Visible = stored.value
         /\ Visible \in Value \union {NoEntry}
BY DEF MemoryTypes, Visible, Expired, Entry

LEMMA OpIs ==
  ASSUME NEW c
  PROVE  /\ pc[c] \in {"look", "check", "evict", "hit", "miss"} <=> Op(c) = "get"
         /\ pc[c] \in {"set", "written"}    <=> Op(c) = "set"
         /\ pc[c] \in {"delete", "deleted"} <=> Op(c) = "delete"
         /\ pc[c] \in {"clear", "cleared"}  <=> Op(c) = "clear"
         /\ pc[c] \notin Stops \ {"idle"}   <=> Op(c) = "idle"
BY DEF Op, Stops

LEMMA InitInv == Init => MemoryInv
<1> SUFFICES ASSUME Init PROVE MemoryInv
  OBVIOUS
<1>1. \A c \in Client : pc[c] = "idle" /\ Op(c) = "idle"
  BY OpIs DEF Init, Stops
<1> QED
  BY <1>1 DEF Init, MemoryInv, MemoryTypes, ArgOfSet, Candidates, Races, Stops

\* One operation goes on, and the others stay where they are.
LEMMA OthersStay ==
  ASSUME MemoryTypes, NEW c \in Client, NEW a, NEW b, Goto(c, a, b)
  PROVE  /\ pc'[c] = b /\ pc[c] = a
         /\ \A d \in Client \ {c} : pc'[d] = pc[d] /\ Op(d)' = Op(d)
BY DEF Goto, MemoryTypes, Op

\* Time passes: what has expired stays so, and what lives may expire.
LEMMA TickInv == ASSUME MemoryInv, Tick PROVE MemoryInv'
<1> USE DEF Tick, MemoryInv
<1>1. MemoryTypes' /\ ArgOfSet'
  BY DEF MemoryTypes, ArgOfSet, Op
<1>2. \A c \in Client : Expired(seen[c]) => Expired(seen[c])'
  BY DEF MemoryTypes, Expired, Entry, Absent
<1>3. Visible' \in {Visible, NoEntry}
  BY DEF MemoryTypes, Visible, Entry, Absent
<1>4. Candidates'
  BY <1>2, <1>3 DEF Candidates, Op
<1>5. Races'
  BY <1>2 DEF Races
<1> QED
  BY <1>1, <1>4, <1>5

LEMMA CallGetInv == ASSUME MemoryInv, NEW c \in Client, CallGet(c) PROVE MemoryInv'
<1> USE DEF CallGet, Call, MemoryInv
<1>1. pc[c] = "idle" /\ pc'[c] = "look" /\ Op(c) = "idle" /\ Op(c)' = "get"
  BY OthersStay DEF Op
<1>2. \A d \in Client \ {c} : pc'[d] = pc[d] /\ Op(d)' = Op(d)
  BY OthersStay
<1>3. Visible' = Visible
  BY DEF Visible
<1>4. candidate'[c] = ({Visible} \ {NoEntry}) \union
                        {arg[d].value : d \in {e \in Client : Op(e) = "set"}}
  BY DEF MemoryTypes
<1>5. candidate'[c] \in SUBSET Value
  BY <1>4, LiveOrExpired DEF ArgOfSet, Entry
<1>6. MemoryTypes'
  BY <1>5, LiveOrExpired DEF MemoryTypes, Goto, Stops
<1>7. ArgOfSet'
  BY <1>1, <1>2 DEF ArgOfSet
<1>8. Candidates'
  <2>1. \A d \in Client \ {c} : candidate'[d] = candidate[d]
    BY DEF MemoryTypes
  <2>2. \A d \in Client : Op(d)' = "set" => arg'[d].value \in candidate'[c]
    BY <1>1, <1>2, <1>4
  <2>3. Visible' \in candidate'[c] \union {NoEntry}
    BY <1>3, <1>4
  <2>4. \A d \in Client \ {c} : \A e \in Client :
          Op(d)' = "get" /\ Op(e)' = "set" => arg'[e].value \in candidate'[d]
    BY <1>1, <1>2, <2>1 DEF Candidates
  <2>5. \A d \in Client : Expired(seen[d])' <=> Expired(seen[d])
    BY DEF Expired
  <2> QED
    BY <1>1, <1>2, <1>3, <2>1, <2>2, <2>3, <2>4, <2>5 DEF Candidates
<1>9. Races'
  BY <1>1, <1>2 DEF Races, Expired
<1> QED
  BY <1>6, <1>7, <1>8, <1>9

\* A step of a Get that leaves the cache alone.
LEMMA LookInv == ASSUME MemoryInv, NEW c \in Client, Look(c) PROVE MemoryInv'
<1> USE DEF Look, MemoryInv
<1>1. /\ pc[c] = "look" /\ pc'[c] = IF stored = Absent THEN "miss" ELSE "check"
      /\ Op(c) = "get" /\ Op(c)' = "get"
  BY OthersStay DEF Op
<1>2. \A d \in Client \ {c} : pc'[d] = pc[d] /\ Op(d)' = Op(d)
  BY OthersStay
<1>3. Visible' = Visible /\ \A d \in Client : Op(d)' = Op(d)
  BY <1>1, <1>2 DEF Visible
<1>4. seen'[c] = stored /\ \A d \in Client \ {c} : seen'[d] = seen[d]
  BY DEF MemoryTypes
<1>5. MemoryTypes'
  BY DEF MemoryTypes, Goto, Stops
<1>6. ArgOfSet'
  BY <1>3 DEF ArgOfSet
<1>7. Candidates'
  <2>1. pc'[c] = "check" => /\ stored \in Entry
                            /\ Expired(stored) \/ stored.value \in candidate[c]
    <3>1. stored # Absent /\ ~Expired(stored) => stored.value = Visible /\ stored.value # NoEntry
      BY LiveOrExpired, CacheAssumption DEF Entry
    <3> QED
      BY <1>1, <3>1, LiveOrExpired DEF Candidates
  <2>2. Expired(seen[c])' <=> Expired(stored)
    BY <1>4 DEF Expired
  <2>3. \A d \in Client \ {c} : Expired(seen[d])' <=> Expired(seen[d])
    BY <1>4 DEF Expired
  <2> QED
    BY <1>1, <1>2, <1>3, <1>4, <2>1, <2>2, <2>3 DEF Candidates
<1>8. Races'
  <2>1. \A d \in Client \ {c} : Expired(seen[d])' <=> Expired(seen[d])
    BY <1>4 DEF Expired
  <2>2. \A d \in Client \ {c} : overwritten'[d] = overwritten[d]
    BY DEF MemoryTypes
  <2> QED
    BY <1>1, <1>2, <1>4, <2>1, <2>2 DEF Races
<1> QED
  BY <1>5, <1>6, <1>7, <1>8

LEMMA CheckInv == ASSUME MemoryInv, NEW c \in Client, Check(c) PROVE MemoryInv'
<1> USE DEF Check, MemoryInv
<1>1. /\ pc[c] = "check" /\ pc'[c] = Verdict(c) /\ Verdict(c) \in {"evict", "hit"}
      /\ Op(c) = "get" /\ Op(c)' = "get"
  BY OthersStay DEF Op, Verdict
<1>2. \A d \in Client \ {c} : pc'[d] = pc[d] /\ Op(d)' = Op(d)
  BY OthersStay
<1>3. /\ Visible' = Visible
      /\ \A d \in Client : Op(d)' = Op(d) /\ (Expired(seen[d])' <=> Expired(seen[d]))
  BY <1>1, <1>2 DEF Visible, Expired
<1>4. MemoryTypes'
  BY <1>1 DEF MemoryTypes, Goto, Stops
<1>5. ArgOfSet'
  BY <1>3 DEF ArgOfSet
<1>6. pc'[c] = "hit" => seen[c].value \in candidate[c]
  BY <1>1 DEF Candidates, Verdict
<1>7. Candidates'
  BY <1>1, <1>2, <1>3, <1>6 DEF Candidates
<1>8. Races'
  BY <1>1, <1>2, <1>3 DEF Races, Verdict
<1> QED
  BY <1>4, <1>5, <1>7, <1>8

\* A step that removes the entry, of an eviction, a Delete or a Clear.
LEMMA RemovalInv ==
  ASSUME MemoryInv, NEW c \in Client, Evict(c) \/ Empty(c)
  PROVE  MemoryInv'
<1> USE DEF Evict, Empty, MemoryInv
<1>1. /\ Op(c)' = Op(c) /\ Op(c) # "set" /\ pc'[c] \in {"miss", "deleted", "cleared"}
      /\ \A d \in Client \ {c} : pc'[d] = pc[d] /\ Op(d)' = Op(d)
  <2>1. CASE Evict(c)
    BY <2>1, OthersStay DEF Op
  <2>2. CASE Empty(c)
    BY <2>2, OthersStay DEF Op
  <2> QED
    BY <2>1, <2>2
<1>2. Visible' = NoEntry
  BY DEF Visible
<1>3. MemoryTypes'
  BY DEF MemoryTypes, Goto, Stops
<1>4. ArgOfSet'
  BY <1>1 DEF ArgOfSet
<1>5. \A d \in Client : Expired(seen[d])' <=> Expired(seen[d])
  BY DEF Expired
<1>6. Candidates'
  BY <1>1, <1>2, <1>5 DEF Candidates
<1>7. Races'
  BY <1>1, <1>5 DEF Races
<1> QED
  BY <1>3, <1>4, <1>6, <1>7

LEMMA ReturnGetInv == ASSUME MemoryInv, NEW c \in Client, ReturnGet(c) PROVE MemoryInv'
<1> USE DEF ReturnGet, MemoryInv
<1>1. /\ pc[c] \in {"hit", "miss"} /\ pc'[c] = "idle" /\ Op(c) = "get" /\ Op(c)' = "idle"
      /\ \A d \in Client \ {c} : pc'[d] = pc[d] /\ Op(d)' = Op(d)
  BY OthersStay DEF Op
<1>2. \A d \in Client \ {c} : /\ seen'[d] = seen[d] /\ candidate'[d] = candidate[d]
                              /\ overwritten'[d] = overwritten[d]
  BY DEF MemoryTypes
<1>3. MemoryTypes'
  BY DEF MemoryTypes, Goto, Stops
<1>4. ArgOfSet'
  BY <1>1 DEF ArgOfSet
<1>5. /\ Visible' = Visible
      /\ \A d \in Client \ {c} : Expired(seen[d])' <=> Expired(seen[d])
  BY <1>2 DEF Expired, Visible
<1>6. Candidates'
  BY <1>1, <1>2, <1>5 DEF Candidates
<1>7. Races'
  BY <1>1, <1>2, <1>5 DEF Races
<1> QED
  BY <1>3, <1>4, <1>6, <1>7

LEMMA CallSetInv ==
  ASSUME MemoryInv, NEW c \in Client, NEW v \in Value, NEW ttl \in TTL, CallSet(c, v, ttl)
  PROVE  MemoryInv'
<1> USE DEF CallSet, Call, MemoryInv
<1>1. /\ pc[c] = "idle" /\ pc'[c] = "set" /\ Op(c) = "idle" /\ Op(c)' = "set"
      /\ \A d \in Client \ {c} : pc'[d] = pc[d] /\ Op(d)' = Op(d)
  BY OthersStay DEF Op
<1>2. ExpiresAt(ttl) \in Nat
  BY CacheAssumption DEF ExpiresAt, MemoryTypes
<1>3. /\ arg'[c] \in Entry /\ arg'[c].value = v
      /\ \A d \in Client \ {c} : arg'[d] = arg[d]
  BY <1>2 DEF MemoryTypes, Entry
<1>4. \A d \in Client : /\ Op(d) = "get" => candidate'[d] = candidate[d] \union {v}
                        /\ candidate'[d] \in SUBSET Value
                        /\ candidate[d] \subseteq candidate'[d]
  BY DEF MemoryTypes
<1>5. MemoryTypes'
  <2>1. arg' \in [Client -> Entry \union {Absent}]
    BY <1>3 DEF MemoryTypes
  <2>2. candidate' \in [Client -> SUBSET Value]
    BY <1>4
  <2> QED
    BY <2>1, <2>2 DEF MemoryTypes, Goto, Stops
<1>6. ArgOfSet'
  BY <1>1, <1>3 DEF ArgOfSet
<1>7. Visible' = Visible /\ \A d \in Client : Expired(seen[d])' <=> Expired(seen[d])
  BY DEF Expired, Visible
<1>8. Candidates'
  <2>1. ASSUME NEW d \in Client, Op(d)' = "get", NEW e \in Client, Op(e)' = "set"
        PROVE  arg'[e].value \in candidate'[d]
    <3>1. Op(d) = "get"
      BY <1>1, <2>1
    <3>2. CASE e = c
      BY <1>3, <1>4, <3>1, <3>2
    <3>3. CASE e # c
      BY <1>1, <1>3, <1>4, <2>1, <3>1, <3>3 DEF Candidates
    <3> QED
      BY <3>2, <3>3
  <2>2. ASSUME NEW d \in Client
        PROVE  /\ pc'[d] = "look" => Visible' \in candidate'[d] \union {NoEntry}
               /\ pc'[d] = "check" => /\ seen[d] \in Entry
                                      /\ Expired(seen[d])' \/ seen[d].value \in candidate'[d]
               /\ pc'[d] = "hit" => seen[d].value \in candidate'[d]
    BY <1>1, <1>4, <1>7 DEF Candidates
  <2> QED
    BY <2>1, <2>2 DEF Candidates
<1>9. Races'
  BY <1>1, <1>7 DEF Races
<1> QED
  BY <1>5, <1>6, <1>8, <1>9

LEMMA WriteInv == ASSUME MemoryInv, NEW c \in Client, Write(c) PROVE MemoryInv'
<1> USE DEF Write, MemoryInv
<1>1. /\ pc[c] = "set" /\ pc'[c] = "written" /\ Op(c) = "set" /\ Op(c)' = "set"
      /\ \A d \in Client \ {c} : pc'[d] = pc[d] /\ Op(d)' = Op(d)
  BY OthersStay DEF Op
<1>2. arg[c] \in Entry /\ stored' = arg[c]
  BY <1>1 DEF ArgOfSet
<1>3. MemoryTypes'
  BY <1>2 DEF MemoryTypes, Goto, Stops
<1>4. ArgOfSet'
  BY <1>1 DEF ArgOfSet
<1>5. Visible' \in {arg[c].value, NoEntry}
  BY DEF Visible
<1>6. \A d \in Client : Expired(seen[d])' <=> Expired(seen[d])
  BY DEF Expired
<1>7. Candidates'
  <2>1. \A d \in Client : pc'[d] = "look" => Visible' \in candidate[d] \union {NoEntry}
    BY <1>1, <1>5, OpIs DEF Candidates
  <2> QED
    BY <1>1, <1>6, <2>1 DEF Candidates
<1>8. Races'
  <2>1. \A d \in Client : pc'[d] \in {"check", "evict"} => overwritten'[d]
    BY <1>1, OpIs
  <2> QED
    BY <1>1, <1>6, <2>1 DEF Races
<1> QED
  BY <1>3, <1>4, <1>7, <1>8

LEMMA CallEmptyInv ==
  ASSUME MemoryInv, NEW c \in Client, NEW o \in {"delete", "clear"}, CallEmpty(c, o)
  PROVE  MemoryInv'
<1> USE DEF CallEmpty, Call, MemoryInv
<1>1. /\ pc[c] = "idle" /\ pc'[c] = o /\ Op(c) = "idle" /\ Op(c)' = o
      /\ \A d \in Client \ {c} : pc'[d] = pc[d] /\ Op(d)' = Op(d)
  BY OthersStay DEF Op
<1>2. MemoryTypes'
  BY DEF MemoryTypes, Goto, Stops
<1>3. ArgOfSet'
  BY <1>1 DEF ArgOfSet
<1>4. Visible' = Visible /\ \A d \in Client : Expired(seen[d])' <=> Expired(seen[d])
  BY DEF Expired, Visible
<1>5. Candidates'
  BY <1>1, <1>4 DEF Candidates
<1>6. Races'
  BY <1>1, <1>4 DEF Races
<1> QED
  BY <1>2, <1>3, <1>5, <1>6

LEMMA ReturnInv == ASSUME MemoryInv, NEW c \in Client, Return(c) PROVE MemoryInv'
<1> USE DEF Return, MemoryInv
<1>1. /\ pc[c] \in {"written", "deleted", "cleared"} /\ pc'[c] = "idle"
      /\ Op(c) # "get" /\ Op(c)' = "idle"
      /\ \A d \in Client \ {c} : pc'[d] = pc[d] /\ Op(d)' = Op(d)
  BY OthersStay DEF Op
<1>2. arg'[c] = Absent /\ \A d \in Client \ {c} : arg'[d] = arg[d]
  BY DEF MemoryTypes
<1>3. MemoryTypes'
  BY DEF MemoryTypes, Goto, Stops
<1>4. ArgOfSet'
  BY <1>1, <1>2 DEF ArgOfSet
<1>5. Visible' = Visible /\ \A d \in Client : Expired(seen[d])' <=> Expired(seen[d])
  BY DEF Expired, Visible
<1>6. Candidates'
  BY <1>1, <1>2, <1>5 DEF Candidates
<1>7. Races'
  BY <1>1, <1>5 DEF Races
<1> QED
  BY <1>3, <1>4, <1>6, <1>7

LEMMA StepInv == MemoryInv /\ [Next]_vars => MemoryInv'
<1> SUFFICES ASSUME MemoryInv, [Next]_vars PROVE MemoryInv'
  OBVIOUS
<1>1. CASE UNCHANGED vars
  BY <1>1 DEF vars, MemoryInv, MemoryTypes, ArgOfSet, Candidates, Races, Op, Visible, Expired
<1> QED
  BY <1>1, TickInv, CallGetInv, LookInv, CheckInv, RemovalInv, ReturnGetInv, CallSetInv,
     WriteInv, CallEmptyInv, ReturnInv DEF Next

LEMMA Inductive == Spec => []MemoryInv
BY InitInv, StepInv, PTL DEF Spec

\* A live entry goes by a Get only in the race of that Get with a Set that has
\* written since it read an expired one (cache_memory.go:26-36).
THEOREM EvictionsRace == Spec => EvictsOnlyInRace
<1> DEFINE InRace == \A c \in Client : Evict(c) /\ Visible # NoEntry => overwritten[c]
<1>1. MemoryInv => [InRace]_vars
  <2> SUFFICES ASSUME MemoryInv, NEW c \in Client, Evict(c), Visible # NoEntry
               PROVE  overwritten[c]
    OBVIOUS
  <2>1. pc[c] = "evict"
    BY DEF Evict, Goto
  <2>2. Expired(seen[c]) /\ (overwritten[c] \/ stored \in {seen[c], Absent})
    BY <2>1 DEF MemoryInv, Races
  <2> QED
    BY <2>2, LiveOrExpired DEF MemoryInv
<1> QED
  BY <1>1, Inductive, PTL DEF Spec, EvictsOnlyInRace

-----------------------------------------------------------------------------
(* The contract.  The state it sees:                                       *)

Ops     == [c \in Client |-> Op(c)]
Values  == [c \in Client |-> arg[c].value]
Emptied == [c \in Client |-> pc[c] \in {"deleted", "cleared"}]

\* An operation that goes on changes what the contract sees of its client alone.
LEMMA OpStep ==
  ASSUME MemoryTypes, NEW c \in Client, NEW a, NEW b, Goto(c, a, b)
  PROVE  /\ Ops[c] = Op(c)
         /\ Ops' = [Ops EXCEPT ![c] = Op(c)']
<1>1. \A d \in Client \ {c} : Op(d)' = Op(d)
  BY OthersStay
<1> QED
  BY <1>1 DEF Ops

LEMMA EmptiedStep ==
  ASSUME MemoryTypes, NEW c \in Client, NEW a, NEW b, Goto(c, a, b)
  PROVE  /\ Emptied[c] <=> a \in {"deleted", "cleared"}
         /\ a \notin {"deleted", "cleared"} /\ b \notin {"deleted", "cleared"} => Emptied' = Emptied
         /\ b \in {"deleted", "cleared"} => Emptied' = [Emptied EXCEPT ![c] = TRUE]
         /\ b \notin {"deleted", "cleared"} => Emptied' = [Emptied EXCEPT ![c] = FALSE]
<1> DEFINE D == {"deleted", "cleared"}
           S == [d \in Client |-> pc[d] \in D]
           T == [d \in Client |-> pc'[d] \in D]
<1>1. /\ pc'[c] = b /\ pc[c] = a
      /\ \A d \in Client \ {c} : pc'[d] = pc[d]
  BY OthersStay
<1>2. Emptied = S /\ Emptied' = T
  BY DEF Emptied
<1> HIDE DEF D
<1>3. S[c] <=> a \in D
  BY <1>1, Zenon
<1>4. a \notin D /\ b \notin D => T = S
  <2> SUFFICES ASSUME a \notin D, b \notin D PROVE T = S
    OBVIOUS
  <2>1. \A d \in Client : (pc'[d] \in D) = (pc[d] \in D)
    <3> SUFFICES ASSUME NEW d \in Client PROVE (pc'[d] \in D) = (pc[d] \in D)
      OBVIOUS
    <3>1. CASE d # c
      BY <1>1, <3>1, Zenon
    <3>2. CASE d = c
      BY <1>1, <3>2, SMT
    <3> QED
      BY <3>1, <3>2, Zenon
  <2> QED
    BY <2>1, Zenon
<1>5. b \in D => T = [S EXCEPT ![c] = TRUE]
  <2> SUFFICES ASSUME b \in D PROVE T = [S EXCEPT ![c] = TRUE]
    OBVIOUS
  <2>1. \A d \in Client : (pc'[d] \in D) = IF d = c THEN TRUE ELSE S[d]
    BY <1>1, Zenon
  <2> QED
    BY <2>1, Zenon
<1>6. b \notin D => T = [S EXCEPT ![c] = FALSE]
  <2> SUFFICES ASSUME b \notin D PROVE T = [S EXCEPT ![c] = FALSE]
    OBVIOUS
  <2>1. \A d \in Client : (pc'[d] \in D) = IF d = c THEN FALSE ELSE S[d]
    <3>1. \A d \in Client : d # c => (pc'[d] \in D) = S[d]
      BY <1>1, Zenon
    <3>2. (pc'[c] \in D) = FALSE
      BY <1>1, SMT
    <3> QED
      BY <3>1, <3>2, Zenon
  <2> QED
    BY <2>1, Zenon
<1> QED
  BY <1>2, <1>3, <1>4, <1>5, <1>6, Zenon DEF D

LEMMA InitContract == Init => C!CInit
<1> SUFFICES ASSUME Init PROVE C!CInit
  OBVIOUS
<1>1. \A c \in Client : Op(c) = "idle"
  BY DEF Init, Op
<1>2. Visible = NoEntry
  BY DEF Init, Visible
<1>3. [c \in Client |-> Op(c)] = [c \in Client |-> "idle"]
  BY <1>1
<1>4. [c \in Client |-> arg[c].value] = [c \in Client |-> NoEntry]
  BY DEF Init, Absent
<1>5. [c \in Client |-> pc[c] \in {"deleted", "cleared"}] = [c \in Client |-> FALSE]
  <2>1. \A c \in Client : (pc[c] \in {"deleted", "cleared"}) = FALSE
    BY DEF Init
  <2> QED
    BY <2>1, Zenon
<1> QED
  BY <1>2, <1>3, <1>4, <1>5 DEF Init, C!CInit

\* The steps within a Get: the contract sees none, or a cache that forgets.
LEMMA WithinGet ==
  ASSUME MemoryInv, NEW c \in Client, Look(c) \/ Check(c) \/ Evict(c)
  PROVE  C!Forget \/ UNCHANGED C!cvars
<1>1. Ops' = Ops /\ Emptied' = Emptied /\ Values' = Values
  <2>1. /\ pc[c] \in {"look", "check", "evict"}
        /\ pc'[c] \in {"miss", "check", "evict", "hit"}
        /\ \A d \in Client \ {c} : pc'[d] = pc[d] /\ Op(d)' = Op(d)
    BY OthersStay DEF MemoryInv, Look, Check, Evict, Verdict
  <2>2. Op(c) = "get" /\ Op(c)' = "get"
    BY <2>1 DEF Op
  <2> QED
    BY <2>1, <2>2 DEF Ops, Emptied, Values, Look, Check, Evict
<1>2. Visible' \in {Visible, NoEntry} /\ UNCHANGED <<candidate, answer>>
  BY DEF Look, Check, Evict, Visible
<1> QED
  BY <1>1, <1>2 DEF C!Forget, C!cvars, Ops, Emptied, Values

LEMMA TickKeeps == ASSUME MemoryInv, Tick PROVE C!Forget \/ UNCHANGED C!cvars
<1>1. Ops' = Ops /\ Emptied' = Emptied /\ Values' = Values
  BY DEF Tick, Ops, Emptied, Values, Op
<1>2. Visible' \in {Visible, NoEntry}
  BY DEF Tick, MemoryInv, MemoryTypes, Visible, Entry, Absent
<1> QED
  BY <1>1, <1>2 DEF Tick, C!Forget, C!cvars, Ops, Emptied, Values

LEMMA CallGetKeeps == ASSUME MemoryInv, NEW c \in Client, CallGet(c) PROVE C!CallGet(c)
<1> USE DEF CallGet, Call, MemoryInv
<1>1. pc[c] = "idle" /\ Op(c) = "idle" /\ Op(c)' = "get"
  BY OthersStay DEF Op
<1>2. Ops[c] = "idle" /\ Ops' = [Ops EXCEPT ![c] = "get"]
  BY <1>1, OpStep
<1>3. Emptied' = Emptied
  BY <1>1, EmptiedStep
<1>4. Values' = Values /\ Visible' = Visible
  BY DEF Values, Visible
<1>5. C!Possible = ({Visible} \ {NoEntry}) \union
                     {arg[d].value : d \in {e \in Client : Op(e) = "set"}}
  <2>1. {Visible} \intersect Value = {Visible} \ {NoEntry}
    BY LiveOrExpired, CacheAssumption
  <2>2. {Values[d] : d \in {e \in Client : Ops[e] = "set"}}
          = {arg[d].value : d \in {e \in Client : Op(e) = "set"}}
    BY DEF Values, Ops
  <2> QED
    BY <2>1, <2>2 DEF C!Possible, Values, Ops
<1> QED
  BY <1>2, <1>3, <1>4, <1>5 DEF C!CallGet, C!Call, Ops, Emptied, Values

LEMMA ReturnGetKeeps == ASSUME MemoryInv, NEW c \in Client, ReturnGet(c) PROVE C!ReturnGet(c)
<1> USE DEF ReturnGet, MemoryInv
<1>1. pc[c] \in {"hit", "miss"} /\ Op(c) = "get" /\ Op(c)' = "idle"
  BY OthersStay DEF Op
<1>2. Ops[c] = "get" /\ Ops' = [Ops EXCEPT ![c] = "idle"]
  BY <1>1, OpStep
<1>3. Emptied' = Emptied
  BY <1>1, EmptiedStep
<1>4. Values' = Values /\ Visible' = Visible
  BY DEF Values, Visible
<1>5. (IF pc[c] = "hit" THEN seen[c].value ELSE NoEntry) \in candidate[c] \union C!Missed
  BY DEF Candidates, C!Missed
<1> QED
  BY <1>2, <1>3, <1>4, <1>5 DEF C!ReturnGet, C!Return, Ops, Emptied, Values

LEMMA CallSetKeeps ==
  ASSUME MemoryInv, NEW c \in Client, NEW v \in Value, NEW ttl \in TTL, CallSet(c, v, ttl)
  PROVE  C!CallSet(c, v)
<1> USE DEF CallSet, Call, MemoryInv
<1>1. pc[c] = "idle" /\ Op(c) = "idle" /\ Op(c)' = "set"
  BY OthersStay DEF Op
<1>2. Ops[c] = "idle" /\ Ops' = [Ops EXCEPT ![c] = "set"]
  BY <1>1, OpStep
<1>3. Emptied' = Emptied
  BY <1>1, EmptiedStep
<1>4. Values' = [Values EXCEPT ![c] = v] /\ Visible' = Visible
  BY DEF Values, Visible, MemoryTypes
<1>5. candidate' = [d \in Client |-> IF Ops[d] = "get" THEN candidate[d] \union {v}
                                     ELSE candidate[d]]
  BY DEF Ops
<1> QED
  BY <1>2, <1>3, <1>4, <1>5 DEF C!CallSet, C!Call, Ops, Emptied, Values

LEMMA WriteKeeps ==
  ASSUME MemoryInv, NEW c \in Client, Write(c)
  PROVE  C!Write(c) \/ C!Forget
<1> USE DEF Write, MemoryInv
<1>1. pc[c] = "set" /\ Op(c) = "set" /\ Op(c)' = "set"
  BY OthersStay DEF Op
<1>2. Ops[c] = "set" /\ Ops' = Ops
  BY <1>1, OpStep DEF Ops
<1>3. Emptied' = Emptied
  BY <1>1, EmptiedStep
<1>4. Values' = Values /\ Visible' \in {Values[c], NoEntry}
  BY DEF Values, Visible
<1> QED
  BY <1>2, <1>3, <1>4 DEF C!Write, C!Forget, Ops, Emptied, Values

LEMMA CallEmptyKeeps ==
  ASSUME MemoryInv, NEW c \in Client, NEW o \in {"delete", "clear"}, CallEmpty(c, o)
  PROVE  C!CallEmpty(c, o)
<1> USE DEF CallEmpty, Call, MemoryInv
<1>1. pc[c] = "idle" /\ Op(c) = "idle" /\ Op(c)' = o
  BY OthersStay DEF Op
<1>2. Ops[c] = "idle" /\ Ops' = [Ops EXCEPT ![c] = o]
  BY <1>1, OpStep
<1>3. Emptied' = [Emptied EXCEPT ![c] = FALSE]
  BY <1>1, EmptiedStep
<1>4. Values' = Values /\ Visible' = Visible
  BY DEF Values, Visible
<1> QED
  BY <1>2, <1>3, <1>4 DEF C!CallEmpty, C!Call, Ops, Emptied, Values

LEMMA EmptyKeeps == ASSUME MemoryInv, NEW c \in Client, Empty(c) PROVE C!Empty(c)
<1> USE DEF Empty, MemoryInv
<1>1. PICK b \in {"deleted", "cleared"} : pc[c] \in {"delete", "clear"} /\ Goto(c, pc[c], b)
                                          /\ Op(c) \in {"delete", "clear"} /\ Op(c)' = Op(c)
  BY OthersStay DEF Op, Goto
<1>2. Ops[c] \in {"delete", "clear"} /\ Ops' = Ops
  BY <1>1, OpStep DEF Ops
<1>3. Emptied' = [Emptied EXCEPT ![c] = TRUE]
  BY <1>1, EmptiedStep
<1>4. Values' = Values /\ Visible' = NoEntry
  BY DEF Values, Visible
<1> QED
  BY <1>2, <1>3, <1>4 DEF C!Empty, Ops, Emptied, Values

LEMMA ReturnKeeps ==
  ASSUME MemoryInv, NEW c \in Client, Return(c)
  PROVE  C!ReturnSet(c) \/ C!ReturnEmpty(c)
<1> USE DEF Return, MemoryInv
<1>1. /\ Goto(c, pc[c], "idle") /\ Op(c)' = "idle"
      /\ \/ pc[c] = "written" /\ Op(c) = "set"
         \/ pc[c] \in {"deleted", "cleared"} /\ Op(c) \in {"delete", "clear"}
  BY OthersStay DEF Op
<1>2. Ops[c] = Op(c) /\ Ops' = [Ops EXCEPT ![c] = "idle"]
  BY <1>1, OpStep
<1>3. Emptied' = [Emptied EXCEPT ![c] = FALSE]
  BY <1>1, EmptiedStep
<1>4. Visible' = Visible /\ Values' = [Values EXCEPT ![c] = NoEntry]
  BY DEF Values, Visible, MemoryTypes, Absent
<1>5. CASE Op(c) = "set"
  <2>1. Emptied' = Emptied
    BY <1>1, <1>5, EmptiedStep DEF Op
  <2> QED
    BY <1>2, <1>4, <1>5, <2>1 DEF C!ReturnSet, C!Return, C!Ok, C!Failed, Ops, Emptied, Values
<1>6. CASE Op(c) \in {"delete", "clear"}
  <2>1. Emptied[c]
    BY <1>1, <1>6 DEF Emptied
  <2>2. Values' = Values
    BY <1>4, <1>6 DEF Values, ArgOfSet, Absent
  <2> QED
    BY <1>2, <1>3, <1>4, <1>6, <2>1, <2>2
       DEF C!ReturnEmpty, C!Return, C!Ok, C!Failed, Ops, Emptied, Values
<1> QED
  BY <1>1, <1>5, <1>6

\* InMemoryCache keeps the contract of a cache: whatever operations its clients
\* interleave, a Get answers what was there, alive, or being stored, and a Delete
\* and a Clear have emptied the cache (cache_memory.go:24-67).
THEOREM MemoryCacheIsACache == Spec => KeepsContract
<1>1. MemoryInv /\ [Next]_vars => [C!CNext]_(C!cvars)
  <2> SUFFICES ASSUME MemoryInv, [Next]_vars PROVE [C!CNext]_(C!cvars)
    OBVIOUS
  <2>1. CASE UNCHANGED vars
    BY <2>1 DEF vars, C!cvars, Op, Visible
  <2>2. CASE Tick
    BY <2>2, TickKeeps DEF C!CNext
  <2>3. ASSUME NEW c \in Client,
               \/ CallGet(c) \/ Look(c) \/ Check(c) \/ Evict(c) \/ ReturnGet(c)
               \/ (\E v \in Value, t \in TTL : CallSet(c, v, t)) \/ Write(c)
        PROVE  [C!CNext]_(C!cvars)
    BY <2>3, CallGetKeeps, WithinGet, ReturnGetKeeps, CallSetKeeps, WriteKeeps DEF C!CNext
  <2>4. ASSUME NEW c \in Client,
               (\E o \in {"delete", "clear"} : CallEmpty(c, o)) \/ Empty(c) \/ Return(c)
        PROVE  [C!CNext]_(C!cvars)
    BY <2>4, CallEmptyKeeps, EmptyKeeps, ReturnKeeps DEF C!CNext
  <2> QED
    BY <2>1, <2>2, <2>3, <2>4 DEF Next
<1> QED
  BY <1>1, InitContract, Inductive, PTL DEF Spec, KeepsContract, C!Contract
=============================================================================
