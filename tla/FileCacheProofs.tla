---------------------------- MODULE FileCacheProofs ----------------------------
(***************************************************************************)
(* For any number of callers.  In one process that lives on, and whose     *)
(* file operations do not fail, the mutex makes the steps of an operation  *)
(* one.  In every deployment, the file implements the abstract cache.      *)
(*                                                                         *)
(* That a call in progress holds the mutex of its process is inductive by  *)
(* itself, for every deployment.  Where there is one mutex it follows that *)
(* nobody reads while another writes, and the file is whole but between    *)
(* the truncation and the write of a Set.                                  *)
(*                                                                         *)
(* That the file implements the abstract cache needs no mutex: what a      *)
(* reader finds in any file, named or not, is torn, expired, or was passed *)
(* to a Set that may still take effect.                                    *)
(***************************************************************************)
EXTENDS FileCache, FiniteSetTheorems, TLAPS

Whole == [value : Value, expires : Int]

InProgress(c) == pc[c] \notin {"idle", "lock"}

FileTypes ==
  /\ deployment \in Deployment /\ now \in Int
  /\ DOMAIN mutex = Process /\ DOMAIN content = Inode
  /\ dirent \in Inode \union {NoFile}
  /\ DOMAIN pc = Client /\ DOMAIN op = Client /\ DOMAIN arg = Client
  /\ DOMAIN handle = Client /\ DOMAIN read = Client /\ DOMAIN result = Client

Locked == \A c \in Client : InProgress(c) => mutex[Owner(c)] = c

PlacesOfCalls ==
  \A c \in Client :
    /\ op[c] \in {"idle", "get", "set", "delete", "clear"}
    /\ pc[c] = "idle" <=> op[c] = "idle"
    /\ pc[c] \in {"open", "read", "decode", "evict"} => op[c] = "get"
    /\ pc[c] \in {"mkdir", "create", "write", "rest"} => op[c] = "set"
    /\ pc[c] = "remove"                              => op[c] = "delete"
    /\ pc[c] \in {"readdir", "unlink"}               => op[c] = "clear"

ControlInv == FileTypes /\ Locked /\ PlacesOfCalls

\* What a call of a sheltered process has in hand.  Its file is empty until it
\* writes, so that no part of its bytes makes a mixture.
InHand(c) ==
  /\ pc[c] # "rest"
  /\ pc[c] \notin {"read", "decode", "evict", "write", "return"} => handle[c] = NoFile
  /\ pc[c] = "read"   => dirent # NoFile /\ handle[c] = dirent
  /\ pc[c] = "decode" => read[c] \in Whole
  /\ op[c] = "set"    => arg[c] \in Whole
  /\ pc[c] = "write"  => dirent # NoFile /\ handle[c] = dirent /\ content[dirent] = TornFile
  /\ pc[c] = "unlink" => dirent # NoFile
  /\ result[c] # Failure
  /\ op[c] = "set" /\ pc[c] = "return" => dirent # NoFile /\ content[dirent] = arg[c]

FileIsWhole ==
  (\A c \in Client : pc[c] # "write") /\ dirent # NoFile => content[dirent] \in Whole

ShelterInv == Sheltered => FileIsWhole /\ \A c \in Client : InHand(c)

-----------------------------------------------------------------------------
LEMMA Owners ==
  ASSUME FileTypes
  PROVE  /\ deployment.owner \in [Client -> Process]
         /\ \A c \in Client : Owner(c) \in Process
BY FileAssumption DEF FileTypes, Owner

LEMMA FirstStops ==
  /\ First("get") = "open" /\ First("set") = "mkdir"
  /\ First("delete") = "remove" /\ First("clear") = "readdir"
BY DEF First

\* A new file has an inode: fewer are open than there are.
LEMMA UnusedIsFree ==
  ASSUME dirent = NoFile
  PROVE  Unused \in Inode /\ \A c \in Client : handle[c] # Unused
<1> DEFINE open == {handle[c] : c \in Client}
           n    == Cardinality(Client)
<1>1. IsFiniteSet(Client) /\ n \in Nat
  BY FileAssumption, FS_CardinalityType
<1>2. IsFiniteSet(open) /\ Cardinality(open) <= n
  <2> DEFINE f == [c \in Client |-> handle[c]]
  <2>1. f \in Surjection(Client, open)
    BY DEF Surjection
  <2> QED
    BY <1>1, <2>1, FS_Surjection
<1>3. Cardinality(Inode) = n + 1
  BY <1>1, FS_Interval DEF Inode
<1>4. ~(Inode \subseteq open)
  <2> SUFFICES ASSUME Inode \subseteq open PROVE FALSE
    OBVIOUS
  <2>1. Cardinality(Inode) <= Cardinality(open) /\ Cardinality(open) \in Nat
    BY <1>2, FS_Subset, FS_CardinalityType
  <2> QED
    BY <1>1, <1>2, <1>3, <2>1
<1>5. PICK i \in Inode : i # dirent /\ \A c \in Client : handle[c] # i
  <2>1. PICK i \in Inode : i \notin open
    BY <1>4
  <2>2. i # NoFile
    BY <1>1 DEF Inode, NoFile
  <2> QED
    BY <2>1, <2>2
<1> QED
  BY <1>5 DEF Unused

LEMMA InitInv == Init => ControlInv /\ ShelterInv
<1> SUFFICES ASSUME Init PROVE ControlInv /\ ShelterInv
  OBVIOUS
<1> USE DEF Init
<1>1. FileTypes
  BY DEF FileTypes, NoFile
<1>2. Locked /\ PlacesOfCalls
  BY DEF Locked, PlacesOfCalls, InProgress
<1>3. ShelterInv
  BY FileAssumption DEF ShelterInv, FileIsWhole, InHand, NoFile, Failure
<1> QED
  BY <1>1, <1>2, <1>3 DEF ControlInv

-----------------------------------------------------------------------------
(* Control.                                                                *)

LEMMA ControlStep == ControlInv /\ [Next]_vars => ControlInv'
<1> SUFFICES ASSUME ControlInv, [Next]_vars PROVE ControlInv'
  OBVIOUS
<1> USE Owners DEF ControlInv, FileTypes, Locked, PlacesOfCalls, InProgress, Owner, Goto,
                   clock, disk, locals, Finish
<1>1. CASE Tick
  BY <1>1 DEF Tick
<1>2. ASSUME NEW p \in Process, Crash(p) PROVE ControlInv'
  BY <1>2 DEF Crash, Reclaim
<1>3. ASSUME NEW c \in Client, CallGet(c) PROVE ControlInv'
  BY <1>3 DEF CallGet, Call
<1>4. ASSUME NEW c \in Client, NEW v \in Value, NEW t \in TTL, CallSet(c, v, t)
      PROVE  ControlInv'
  BY <1>4 DEF CallSet, Call
<1>5. ASSUME NEW c \in Client, NEW o \in {"delete", "clear"}, CallEmpty(c, o)
      PROVE  ControlInv'
  BY <1>5 DEF CallEmpty, Call
<1>6. ASSUME NEW c \in Client, Lock(c) PROVE ControlInv'
  BY <1>6, FirstStops, FileAssumption DEF Lock, MayLock, Free
<1>7. ASSUME NEW c \in Client, Open(c) PROVE ControlInv'
  BY <1>7 DEF Open
<1>8. ASSUME NEW c \in Client, NoSuchFile(c) PROVE ControlInv'
  BY <1>8 DEF NoSuchFile
<1>9. ASSUME NEW c \in Client, Read(c) PROVE ControlInv'
  BY <1>9 DEF Read
<1>10. ASSUME NEW c \in Client, Decode(c) PROVE ControlInv'
  BY <1>10 DEF Decode
<1>11. ASSUME NEW c \in Client, DecodeExpired(c) PROVE ControlInv'
  BY <1>11 DEF DecodeExpired
<1>12. ASSUME NEW c \in Client, Evict(c) PROVE ControlInv'
  BY <1>12 DEF Evict, Reclaim
<1>13. ASSUME NEW c \in Client, Mkdir(c) PROVE ControlInv'
  BY <1>13 DEF Mkdir
<1>14. ASSUME NEW c \in Client, Create(c) PROVE ControlInv'
  BY <1>14, UnusedIsFree DEF Create
<1>15. ASSUME NEW c \in Client, WritePart(c) PROVE ControlInv'
  BY <1>15 DEF WritePart
<1>16. ASSUME NEW c \in Client, Write(c) PROVE ControlInv'
  BY <1>16 DEF Write
<1>17. ASSUME NEW c \in Client, Remove(c) PROVE ControlInv'
  BY <1>17 DEF Remove, Reclaim
<1>18. ASSUME NEW c \in Client, ReadDir(c) PROVE ControlInv'
  BY <1>18 DEF ReadDir
<1>19. ASSUME NEW c \in Client, Unlink(c) PROVE ControlInv'
  BY <1>19 DEF Unlink, Reclaim
<1>20. ASSUME NEW c \in Client, Fail(c) PROVE ControlInv'
  BY <1>20 DEF Fail
<1>21. ASSUME NEW c \in Client, Return(c) PROVE ControlInv'
  BY <1>21 DEF Return, Reclaim
<1>22. CASE UNCHANGED vars
  BY <1>22 DEF vars
<1> HIDE DEF ControlInv, FileTypes, Locked, PlacesOfCalls, InProgress, Owner, Goto,
             clock, disk, locals, Finish
<1> QED
  BY <1>1, <1>2, <1>3, <1>4, <1>5, <1>6, <1>7, <1>8, <1>9, <1>10, <1>11, <1>12, <1>13,
     <1>14, <1>15, <1>16, <1>17, <1>18, <1>19, <1>20, <1>21, <1>22 DEF Next, Step

-----------------------------------------------------------------------------
(* The file.                                                               *)

\* In one process, a call that holds the mutex is the only one in progress.
LEMMA Alone ==
  ASSUME ControlInv, Sheltered, NEW c \in Client, InProgress(c)
  PROVE  \A d \in Client \ {c} : pc[d] \in {"idle", "lock"}
BY DEF ControlInv, Locked, InProgress, Sheltered

\* A step of a call that holds the mutex disturbs nobody else.
LEMMA OnlyMine ==
  ASSUME ControlInv, ShelterInv, Sheltered, NEW c \in Client, InProgress(c),
         UNCHANGED deployment,
         \A d \in Client \ {c} : /\ pc'[d] = pc[d] /\ op'[d] = op[d]
                                 /\ arg'[d] = arg[d] /\ handle'[d] = handle[d]
                                 /\ result'[d] = result[d],
         InHand(c)',
         pc'[c] # "write" /\ dirent' # NoFile => content'[dirent'] \in Whole
  PROVE  ShelterInv'
<1>1. \A d \in Client \ {c} : InHand(d)' /\ pc'[d] # "write"
  <2> SUFFICES ASSUME NEW d \in Client \ {c} PROVE InHand(d)' /\ pc'[d] # "write"
    OBVIOUS
  <2>1. pc[d] \in {"idle", "lock"} /\ InHand(d)
    BY Alone DEF ShelterInv
  <2> QED
    BY <2>1 DEF InHand
<1>2. FileIsWhole'
  BY DEF FileIsWhole
<1> QED
  BY <1>1, <1>2 DEF ShelterInv

LEMMA ShelterStep ==
  ControlInv /\ ControlInv' /\ ShelterInv /\ [Next]_vars => ShelterInv'
<1> SUFFICES ASSUME ControlInv, ControlInv', ShelterInv, [Next]_vars, Sheltered'
             PROVE  ShelterInv'
  BY DEF ShelterInv
<1>1. UNCHANGED deployment
  BY DEF Next, Step, vars, clock, Tick, Crash, CallGet, CallSet, CallEmpty, Call, Lock,
         Open, NoSuchFile, Read, Decode, DecodeExpired, Evict, Mkdir, Create, WritePart,
         Write, Remove, ReadDir, Unlink, Fail, Return
<1>2. Sheltered /\ ~Faults /\ ~Crashes
  BY <1>1 DEF Sheltered, Faults, Crashes, Owner
<1>3. FileIsWhole /\ \A c \in Client : InHand(c)
  BY <1>2 DEF ShelterInv
<1> USE DEF ControlInv, FileTypes, PlacesOfCalls, Goto, clock, disk, locals, Finish
<1>4. CASE Tick
  BY <1>3, <1>4 DEF Tick, ShelterInv, FileIsWhole, InHand
<1>5. ASSUME NEW p \in Process, Crash(p) PROVE ShelterInv'
  BY <1>2, <1>5 DEF Crash
<1>6. ASSUME NEW c \in Client, CallGet(c) PROVE ShelterInv'
  BY <1>3, <1>6 DEF CallGet, Call, ShelterInv, FileIsWhole, InHand
<1>7. ASSUME NEW c \in Client, NEW v \in Value, NEW t \in TTL, CallSet(c, v, t)
      PROVE  ShelterInv'
  <2>1. [value |-> v, expires |-> t] \in Whole
    BY FileAssumption DEF Whole
  <2> QED
    BY <1>3, <1>7, <2>1 DEF CallSet, Call, ShelterInv, FileIsWhole, InHand
<1>8. ASSUME NEW c \in Client, NEW o \in {"delete", "clear"}, CallEmpty(c, o)
      PROVE  ShelterInv'
  BY <1>3, <1>8 DEF CallEmpty, Call, ShelterInv, FileIsWhole, InHand
<1>9. ASSUME NEW c \in Client, Lock(c) PROVE ShelterInv'
  <2>1. pc'[c] \in {"open", "mkdir", "remove", "readdir"}
    BY <1>9, FirstStops DEF Lock
  <2> QED
    BY <1>3, <1>9, <2>1 DEF Lock, ShelterInv, FileIsWhole, InHand
<1>10. ASSUME NEW c \in Client, Open(c) PROVE ShelterInv'
  <2>1. InHand(c)'
    BY <1>3, <1>10 DEF Open, InHand
  <2>2. InProgress(c)
    BY <1>10 DEF Open, InProgress
  <2>3. dirent' # NoFile => content'[dirent'] \in Whole
    BY <1>3, <1>2, <1>10, <2>2, Alone DEF Open, FileIsWhole
  <2> HIDE DEF ControlInv
  <2> QED
    BY <1>2, <1>1, <1>10, <2>1, <2>2, <2>3, OnlyMine DEF Open
<1>11. ASSUME NEW c \in Client, NoSuchFile(c) PROVE ShelterInv'
  <2>1. InHand(c)'
    BY <1>3, <1>11, FileAssumption DEF NoSuchFile, InHand, Failure
  <2>2. InProgress(c)
    BY <1>11 DEF NoSuchFile, InProgress
  <2>3. pc'[c] # "write" /\ dirent' # NoFile => content'[dirent'] \in Whole
    BY <1>3, <1>2, <1>11, <2>2, Alone DEF NoSuchFile, FileIsWhole
  <2> HIDE DEF ControlInv
  <2> QED
    BY <1>2, <1>1, <1>11, <2>1, <2>2, <2>3, OnlyMine DEF NoSuchFile
<1>12. ASSUME NEW c \in Client, Read(c) PROVE ShelterInv'
  <2>1. InHand(c)'
    <3>1. pc[c] = "read" /\ dirent # NoFile /\ handle[c] = dirent
      BY <1>3, <1>12 DEF Read, InHand
    <3>2. content[dirent] \in Whole
      BY <1>3, <1>2, <3>1, Alone DEF FileIsWhole, InProgress
    <3> QED
      BY <1>3, <1>12, <3>1, <3>2 DEF Read, InHand
  <2>2. InProgress(c)
    BY <1>12 DEF Read, InProgress
  <2>3. pc'[c] # "write" /\ dirent' # NoFile => content'[dirent'] \in Whole
    BY <1>3, <1>2, <1>12, <2>2, Alone DEF Read, FileIsWhole
  <2> HIDE DEF ControlInv
  <2> QED
    BY <1>2, <1>1, <1>12, <2>1, <2>2, <2>3, OnlyMine DEF Read
<1>13. ASSUME NEW c \in Client, Decode(c) PROVE ShelterInv'
  <2>1. InHand(c)'
    <3>1. read[c] \in Whole
      BY <1>3, <1>13 DEF Decode, InHand
    <3>2. read[c] # TornFile /\ read[c].value # Failure
      BY <3>1, FileAssumption DEF Whole, TornFile, Failure
    <3> QED
      BY <1>3, <1>13, <3>2 DEF Decode, InHand
  <2>2. InProgress(c)
    BY <1>13 DEF Decode, InProgress
  <2>3. pc'[c] # "write" /\ dirent' # NoFile => content'[dirent'] \in Whole
    BY <1>3, <1>2, <1>13, <2>2, Alone DEF Decode, FileIsWhole
  <2> HIDE DEF ControlInv
  <2> QED
    BY <1>2, <1>1, <1>13, <2>1, <2>2, <2>3, OnlyMine DEF Decode
<1>14. ASSUME NEW c \in Client, DecodeExpired(c) PROVE ShelterInv'
  <2>1. InHand(c)'
    BY <1>3, <1>14 DEF DecodeExpired, InHand
  <2>2. InProgress(c)
    BY <1>14 DEF DecodeExpired, InProgress
  <2>3. pc'[c] # "write" /\ dirent' # NoFile => content'[dirent'] \in Whole
    BY <1>3, <1>2, <1>14, <2>2, Alone DEF DecodeExpired, FileIsWhole
  <2> HIDE DEF ControlInv
  <2> QED
    BY <1>2, <1>1, <1>14, <2>1, <2>2, <2>3, OnlyMine DEF DecodeExpired
<1>15. ASSUME NEW c \in Client, Evict(c) PROVE ShelterInv'
  <2>1. InHand(c)'
    BY <1>3, <1>15, FileAssumption DEF Evict, InHand, Failure
  <2>2. InProgress(c)
    BY <1>15 DEF Evict, InProgress
  <2>3. pc'[c] # "write" /\ dirent' # NoFile => content'[dirent'] \in Whole
    BY <1>2, <1>15 DEF Evict
  <2> HIDE DEF ControlInv
  <2> QED
    BY <1>2, <1>1, <1>15, <2>1, <2>2, <2>3, OnlyMine DEF Evict
<1>16. ASSUME NEW c \in Client, Mkdir(c) PROVE ShelterInv'
  <2>1. InHand(c)'
    <3>1. arg'[c] \in Whole
      BY <1>3, <1>16 DEF Mkdir, InHand, Whole, ExpiresAt
    <3> QED
      BY <1>3, <1>16, <3>1 DEF Mkdir, InHand
  <2>2. InProgress(c)
    BY <1>16 DEF Mkdir, InProgress
  <2>3. pc'[c] # "write" /\ dirent' # NoFile => content'[dirent'] \in Whole
    BY <1>3, <1>2, <1>16, <2>2, Alone DEF Mkdir, FileIsWhole
  <2> HIDE DEF ControlInv
  <2> QED
    BY <1>2, <1>1, <1>16, <2>1, <2>2, <2>3, OnlyMine DEF Mkdir
<1>17. ASSUME NEW c \in Client, Create(c) PROVE ShelterInv'
  <2>1. InHand(c)'
    <3>1. dirent' \in Inode /\ dirent' # NoFile
      BY <1>17, UnusedIsFree DEF Create, NoFile, Inode
    <3> QED
      BY <1>3, <1>17, <3>1 DEF Create, InHand
  <2>2. InProgress(c)
    BY <1>17 DEF Create, InProgress
  <2>3. pc'[c] # "write" /\ dirent' # NoFile => content'[dirent'] \in Whole
    BY <1>17 DEF Create
  <2> HIDE DEF ControlInv
  <2> QED
    BY <1>2, <1>1, <1>17, <2>1, <2>2, <2>3, OnlyMine DEF Create
<1>18. ASSUME NEW c \in Client, WritePart(c) PROVE ShelterInv'
  BY <1>3, <1>18 DEF WritePart, InHand
<1>19. ASSUME NEW c \in Client, Write(c) PROVE ShelterInv'
  <2>1. /\ pc[c] = "write" /\ pc' = [pc EXCEPT ![c] = "return"]
        /\ result' = [result EXCEPT ![c] = OkResult]
    <3>1. pc[c] # "rest"
      BY <1>3 DEF InHand
    <3>2. PICK r \in {OkResult} \union (IF Faults THEN {Failure} ELSE {}) :
            Finish(c, "write", r) \/ Finish(c, "rest", r)
      BY <1>19 DEF Write
    <3>3. r = OkResult
      BY <1>2, <3>2
    <3> QED
      BY <3>1, <3>2, <3>3
  <2>2. InHand(c)'
    BY <1>3, <1>19, <2>1 DEF Write, InHand, OkResult, Failure
  <2>3. InProgress(c)
    BY <2>1 DEF InProgress
  <2>4. pc'[c] # "write" /\ dirent' # NoFile => content'[dirent'] \in Whole
    BY <1>3, <1>19, <2>1 DEF Write, InHand
  <2>5. /\ UNCHANGED <<op, arg, handle>>
        /\ \A d \in Client \ {c} : pc'[d] = pc[d] /\ result'[d] = result[d]
    BY <1>19, <2>1 DEF Write
  <2> HIDE DEF ControlInv
  <2> QED
    BY <1>2, <1>1, <2>2, <2>3, <2>4, <2>5, OnlyMine
<1>20. ASSUME NEW c \in Client, Remove(c) PROVE ShelterInv'
  <2>1. InHand(c)'
    BY <1>3, <1>20 DEF Remove, InHand, OkResult, Failure
  <2>2. InProgress(c)
    BY <1>20 DEF Remove, InProgress
  <2>3. pc'[c] # "write" /\ dirent' # NoFile => content'[dirent'] \in Whole
    BY <1>20 DEF Remove
  <2> HIDE DEF ControlInv
  <2> QED
    BY <1>2, <1>1, <1>20, <2>1, <2>2, <2>3, OnlyMine DEF Remove
<1>21. ASSUME NEW c \in Client, ReadDir(c) PROVE ShelterInv'
  <2>1. InHand(c)'
    BY <1>3, <1>21 DEF ReadDir, InHand, OkResult, Failure
  <2>2. InProgress(c)
    BY <1>21 DEF ReadDir, InProgress
  <2>3. pc'[c] # "write" /\ dirent' # NoFile => content'[dirent'] \in Whole
    BY <1>3, <1>2, <1>21, <2>2, Alone DEF ReadDir, FileIsWhole
  <2>4. \A d \in Client \ {c} : pc'[d] = pc[d] /\ result'[d] = result[d]
    BY <1>21 DEF ReadDir
  <2>5. UNCHANGED <<op, arg, handle>>
    BY <1>21 DEF ReadDir
  <2> HIDE DEF ControlInv
  <2> QED
    BY <1>2, <1>1, <2>1, <2>2, <2>3, <2>4, <2>5, OnlyMine
<1>22. ASSUME NEW c \in Client, Unlink(c) PROVE ShelterInv'
  <2>1. InHand(c)'
    BY <1>3, <1>22 DEF Unlink, InHand, OkResult, Failure
  <2>2. InProgress(c)
    BY <1>22 DEF Unlink, InProgress
  <2>3. pc'[c] # "write" /\ dirent' # NoFile => content'[dirent'] \in Whole
    BY <1>22 DEF Unlink
  <2> HIDE DEF ControlInv
  <2> QED
    BY <1>2, <1>1, <1>22, <2>1, <2>2, <2>3, OnlyMine DEF Unlink
<1>23. ASSUME NEW c \in Client, Fail(c) PROVE ShelterInv'
  BY <1>2, <1>23 DEF Fail
<1>24. ASSUME NEW c \in Client, Return(c) PROVE ShelterInv'
  <2>1. InHand(c)'
    BY <1>3, <1>24, FileAssumption DEF Return, InHand, Failure, NoFile
  <2>2. InProgress(c)
    BY <1>24 DEF Return, InProgress
  <2>3. pc'[c] # "write" /\ dirent' # NoFile => content'[dirent'] \in Whole
    <3>1. dirent # NoFile => content[dirent] \in Whole
      BY <1>3, <1>2, <1>24, <2>2, Alone DEF Return, FileIsWhole
    <3>2. dirent' = dirent /\ (dirent # NoFile => content'[dirent] = content[dirent])
      BY <1>24 DEF Return, Reclaim
    <3> QED
      BY <3>1, <3>2
  <2> HIDE DEF ControlInv
  <2> QED
    BY <1>2, <1>1, <1>24, <2>1, <2>2, <2>3, OnlyMine DEF Return
<1>25. CASE UNCHANGED vars
  BY <1>3, <1>25 DEF vars, ShelterInv, FileIsWhole, InHand
<1> HIDE DEF ControlInv, FileTypes, PlacesOfCalls, Goto, clock, disk, locals, Finish
<1> QED
  BY <1>4, <1>5, <1>6, <1>7, <1>8, <1>9, <1>10, <1>11, <1>12, <1>13, <1>14, <1>15, <1>16,
     <1>17, <1>18, <1>19, <1>20, <1>21, <1>22, <1>23, <1>24, <1>25 DEF Next, Step

LEMMA Inductive == Spec => [](ControlInv /\ ShelterInv)
<1>1. ControlInv /\ ShelterInv /\ [Next]_vars => (ControlInv /\ ShelterInv)'
  BY ControlStep, ShelterStep
<1> QED
  BY <1>1, InitInv, PTL DEF Spec

\* In one process the mutex hides the steps of os.WriteFile from readers, and
\* those of a removal from Clear (cache_filesystem.go:34, :57, :87).
THEOREM NothingFails == Spec => []NeverFails
<1>1. ShelterInv => NeverFails
  BY DEF ShelterInv, InHand, NeverFails
<1> QED
  BY <1>1, Inductive, PTL

\* There a Set that succeeds has left its payload in the file
\* (cache_filesystem.go:56-72).
THEOREM SetsStick == Spec => []SetSticks
<1>1. ShelterInv => SetSticks
  BY DEF ShelterInv, InHand, SetSticks
<1> QED
  BY <1>1, Inductive, PTL
-----------------------------------------------------------------------------
(* The contract, for every deployment.  What a reader finds in an inode,   *)
(* named or not, is torn, expired or one of its candidates: whoever wrote  *)
(* into it since the reader's call was in a Set the reader has as a        *)
(* candidate, and a truncation or a recycled inode leaves it torn.         *)

\* What a Get may find in a file: it ends in a miss, an error or a candidate.
Answerable(c, p) == p = TornFile \/ Expired(p) \/ p.value \in candidate[c] \union {NoEntry}

Answers(c) ==
  /\ op[c] = "set" => arg[c] \in Whole
  /\ op[c] # "set" => arg[c] = NoPayload
  /\ op[c] # "get" => candidate[c] = {}
  /\ op[c] = "get" => \A d \in Client : op[d] = "set" => arg[d].value \in candidate[c]
  /\ op[c] = "get" /\ pc[c] \in {"lock", "open"} =>
       Visible \in candidate[c] \union {NoEntry, Torn}
  /\ pc[c] = "read"   => handle[c] \in Inode /\ Answerable(c, content[handle[c]])
  /\ pc[c] = "decode" => read[c] \in Whole \union {TornFile} /\ Answerable(c, read[c])
  /\ pc[c] \in {"write", "rest"} => handle[c] \in Inode
  /\ pc[c] = "return" =>
       result[c] \in IF op[c] = "get" THEN candidate[c] \union {NoEntry, Failure}
                                      ELSE {OkResult, Failure}

FilesDecode == \A i \in Inode : content[i] \in Whole \union {TornFile}

AnswersInv ==
  /\ candidate \in [Client -> SUBSET Value] /\ DOMAIN answer = Client
  /\ FilesDecode /\ \A c \in Client : Answers(c)

\* What any step may do to the file, as those see it who are reading: time
\* passes, a Set in progress writes, or a file is emptied, removed or reclaimed.
Disturbs ==
  /\ now' \in {now, now + 1}
  /\ Visible' \in {Visible, NoEntry, Torn}
                 \union {arg[d].value : d \in {e \in Client : op[e] = "set"}}
  /\ \A i \in Inode : content'[i] \in {content[i], TornFile}
                                      \union {arg[d] : d \in {e \in Client : op[e] = "set"}}
  /\ \A d \in Client : op'[d] = "set" => op[d] = "set" /\ arg'[d].value = arg[d].value

\* A client that does not move keeps what it may answer.
LEMMA OthersAnswer ==
  ASSUME ControlInv, AnswersInv, Disturbs, NEW c \in Client, candidate'[c] = candidate[c],
         op'[c] = op[c], pc'[c] = pc[c], handle'[c] = handle[c], read'[c] = read[c],
         result'[c] = result[c], arg'[c] = arg[c]
  PROVE  Answers(c)'
<1>1. Answers(c)
  BY DEF AnswersInv
<1>2. \A p \in Whole \union {TornFile} : Answerable(c, p) => Answerable(c, p)'
  BY DEF ControlInv, FileTypes, Disturbs, Answerable, Expired, Whole, TornFile
<1>3. op[c] = "get" => \A d \in Client : op'[d] = "set" => arg'[d].value \in candidate'[c]
  BY <1>1 DEF Answers, Disturbs
<1>4. op[c] = "get" /\ pc[c] \in {"lock", "open"} =>
        Visible' \in candidate'[c] \union {NoEntry, Torn}
  BY <1>1 DEF Answers, Disturbs
<1>5. pc[c] = "read" => handle'[c] \in Inode /\ Answerable(c, content[handle[c]])'
  <2> SUFFICES ASSUME pc[c] = "read"
               PROVE  handle'[c] \in Inode /\ Answerable(c, content[handle[c]])'
    OBVIOUS
  <2> DEFINE i == handle[c]
  <2>1. i \in Inode /\ Answerable(c, content[i]) /\ content[i] \in Whole \union {TornFile}
    BY <1>1 DEF Answers, AnswersInv, FilesDecode
  <2>2. content'[i] \in {content[i], TornFile}
                       \union {arg[d] : d \in {e \in Client : op[e] = "set"}}
    BY <2>1 DEF Disturbs
  <2>3. CASE content'[i] = content[i]
    BY <1>2, <2>1, <2>3 DEF Answerable
  <2>4. CASE content'[i] = TornFile
    BY <2>1, <2>4 DEF Answerable, TornFile
  <2>5. ASSUME NEW d \in Client, op[d] = "set", content'[i] = arg[d]
        PROVE  Answerable(c, content[i])'
    <3>1. op[c] = "get"
      BY DEF ControlInv, PlacesOfCalls
    <3>2. arg[d].value \in candidate[c]
      BY <1>1, <2>5, <3>1 DEF Answers
    <3> QED
      BY <2>5, <3>2 DEF Answerable
  <2> QED
    BY <2>1, <2>2, <2>3, <2>4, <2>5
<1>6. pc[c] = "decode" => read[c] \in Whole \union {TornFile} /\ Answerable(c, read[c])'
  BY <1>1, <1>2 DEF Answers, Answerable
<1> QED
  BY <1>1, <1>3, <1>4, <1>5, <1>6 DEF Answers, Answerable

\* The file, and what a Get sees of it, when nothing is written and when it is
\* removed or reclaimed.
LEMMA DiskStays ==
  ASSUME UNCHANGED <<now, dirent, content>>,
         \A d \in Client : op'[d] = "set" => op[d] = "set" /\ arg'[d].value = arg[d].value
  PROVE  Disturbs
<1>1. Visible' = Visible
  BY DEF Visible
<1> QED
  BY <1>1 DEF Disturbs

LEMMA DiskShrinks ==
  ASSUME UNCHANGED now, dirent' \in {dirent, NoFile}, content' = Reclaim,
         ControlInv,
         \A d \in Client : op'[d] = "set" => op[d] = "set" /\ arg'[d].value = arg[d].value
  PROVE  /\ Disturbs /\ (FilesDecode => FilesDecode')
         /\ dirent' = dirent => Visible' = Visible
         /\ dirent' = NoFile => Visible' = NoEntry
<1>1. \A i \in Inode : content'[i] \in {content[i], TornFile}
  BY DEF Reclaim
<1>2. dirent # NoFile => dirent \in Inode
  BY DEF ControlInv, FileTypes
<1>3. dirent' = dirent /\ dirent # NoFile => content'[dirent] = content[dirent]
  BY <1>2 DEF Reclaim
<1>4. /\ dirent' = dirent => Visible' = Visible
      /\ dirent' = NoFile => Visible' = NoEntry
  BY <1>3 DEF Visible
<1> QED
  BY <1>1, <1>4 DEF Disturbs, FilesDecode

\* A step of one client that disturbs the others no more than that.
LEMMA OnlyItsAnswer ==
  ASSUME ControlInv, AnswersInv, Disturbs, NEW c \in Client, Answers(c)', FilesDecode',
         candidate' \in [Client -> SUBSET Value], DOMAIN answer' = Client,
         \A d \in Client \ {c} :
           /\ candidate'[d] = candidate[d] /\ op'[d] = op[d] /\ pc'[d] = pc[d]
           /\ handle'[d] = handle[d] /\ read'[d] = read[d] /\ result'[d] = result[d]
           /\ arg'[d] = arg[d]
  PROVE  AnswersInv'
<1>1. \A d \in Client \ {c} : Answers(d)'
  BY OthersAnswer
<1> QED
  BY <1>1 DEF AnswersInv

\* A step of a call that leaves the disk and every Set alone.
LEMMA QuietAnswers ==
  ASSUME ControlInv, AnswersInv, NEW c \in Client, NEW a, NEW b, Goto(c, a, b),
         UNCHANGED <<now, dirent, content, op, arg, candidate, answer>>,
         \A d \in Client \ {c} :
           handle'[d] = handle[d] /\ read'[d] = read[d] /\ result'[d] = result[d],
         Answers(c)'
  PROVE  AnswersInv'
<1>1. \A d \in Client \ {c} : pc'[d] = pc[d]
  BY DEF Goto, ControlInv, FileTypes
<1>2. Disturbs
  BY DiskStays
<1>3. FilesDecode'
  BY DEF AnswersInv, FilesDecode
<1> QED
  BY <1>1, <1>2, <1>3, OnlyItsAnswer DEF AnswersInv

LEMMA ReadingAnswers ==
  ASSUME ControlInv, AnswersInv, NEW c \in Client,
         \/ Open(c) \/ NoSuchFile(c) \/ Read(c) \/ Decode(c) \/ DecodeExpired(c)
  PROVE  AnswersInv'
<1> USE DEF ControlInv, FileTypes, clock, disk, locals, Finish
<1>1. Answers(c) /\ op[c] = "get" /\ op' = op /\ UNCHANGED <<now, dirent, content, candidate>>
  BY DEF AnswersInv, PlacesOfCalls, Open, NoSuchFile, Read, Decode, DecodeExpired, Goto
<1>2. CASE Open(c)
  <2>1. /\ pc[c] = "open" /\ pc'[c] = "read" /\ handle'[c] = dirent /\ dirent \in Inode
        /\ Visible \in candidate[c] \union {NoEntry, Torn}
    BY <1>1, <1>2 DEF Open, Goto, Answers
  <2>2. content[dirent] \in Whole \union {TornFile}
    BY <2>1 DEF AnswersInv, FilesDecode
  <2>3. Answerable(c, content[dirent])
    BY <1>2, <2>1, <2>2, FileAssumption
       DEF Answerable, Visible, Expired, Whole, TornFile, Open
  <2>4. Answerable(c, content[handle[c]])'
    BY <1>1, <2>1, <2>3 DEF Answerable, Expired
  <2>5. Answers(c)'
    BY <1>1, <1>2, <2>1, <2>4 DEF Answers, Open
  <2> QED
    BY <1>2, <2>5, QuietAnswers DEF Open
<1>3. CASE NoSuchFile(c)
  <2>1. Answers(c)'
    BY <1>1, <1>3 DEF Answers, NoSuchFile, Goto
  <2> QED
    BY <1>3, <2>1, QuietAnswers DEF NoSuchFile
<1>4. CASE Read(c)
  <2>1. /\ pc[c] = "read" /\ pc'[c] = "decode" /\ read'[c] = content[handle[c]]
        /\ handle[c] \in Inode /\ Answerable(c, content[handle[c]])
    BY <1>1, <1>4 DEF Read, Goto, Answers
  <2>2. content[handle[c]] \in Whole \union {TornFile}
    BY <2>1 DEF AnswersInv, FilesDecode
  <2>3. Answerable(c, read[c])'
    BY <1>1, <2>1 DEF Answerable, Expired
  <2>4. Answers(c)'
    BY <1>1, <1>4, <2>1, <2>2, <2>3 DEF Answers, Read
  <2> QED
    BY <1>4, <2>4, QuietAnswers DEF Read
<1>5. CASE Decode(c)
  <2>1. /\ pc[c] = "decode" /\ pc'[c] = "return" /\ Answerable(c, read[c]) /\ ~Expired(read[c])
        /\ result'[c] = IF read[c] = TornFile THEN Failure ELSE read[c].value
    BY <1>1, <1>5 DEF Decode, Goto, Answers
  <2>2. Answers(c)'
    BY <1>1, <1>5, <2>1 DEF Answers, Answerable, Decode
  <2> QED
    BY <1>5, <2>2, QuietAnswers DEF Decode
<1>6. CASE DecodeExpired(c)
  <2>1. Answers(c)'
    BY <1>1, <1>6 DEF Answers, DecodeExpired, Goto
  <2> QED
    BY <1>6, <2>1, QuietAnswers DEF DecodeExpired
<1> QED
  BY <1>2, <1>3, <1>4, <1>5, <1>6

LEMMA ControlAnswers ==
  ASSUME ControlInv, AnswersInv, NEW c \in Client, Lock(c) \/ ReadDir(c) \/ Fail(c)
  PROVE  AnswersInv'
<1> USE DEF ControlInv, FileTypes, clock, disk, locals, Finish
<1>1. Answers(c)
  BY DEF AnswersInv
<1>2. CASE Lock(c)
  <2>1. /\ pc[c] = "lock" /\ pc'[c] = First(op[c]) /\ op' = op
        /\ op[c] \in {"get", "set", "delete", "clear"} /\ UNCHANGED <<now, dirent, content>>
    BY <1>2 DEF Lock, Goto, PlacesOfCalls
  <2>2. /\ pc'[c] \in {"open", "mkdir", "remove", "readdir"}
        /\ Visible' = Visible
    BY <2>1, FirstStops DEF Visible
  <2>3. Answers(c)'
    BY <1>1, <1>2, <2>1, <2>2 DEF Answers, Lock
  <2> QED
    BY <1>2, <2>3, QuietAnswers DEF Lock
<1>3. CASE ReadDir(c)
  <2>1. /\ pc[c] = "readdir" /\ op[c] = "clear"
        /\ \/ pc'[c] = "return" /\ result'[c] = OkResult /\ Finish(c, "readdir", OkResult)
           \/ pc'[c] = "unlink" /\ Goto(c, "readdir", "unlink") /\ result' = result
    BY <1>3 DEF ReadDir, Goto, PlacesOfCalls
  <2>2. Answers(c)'
    BY <1>1, <1>3, <2>1 DEF Answers, ReadDir
  <2> QED
    BY <1>3, <2>1, <2>2, QuietAnswers DEF ReadDir
<1>4. CASE Fail(c)
  <2>1. PICK a \in {"open", "mkdir", "create", "write", "rest", "remove", "readdir",
                "unlink"} : Finish(c, a, Failure)
    BY <1>4 DEF Fail
  <2>2. pc'[c] = "return" /\ result'[c] = Failure /\ op' = op
    BY <1>4, <2>1 DEF Fail, Goto
  <2>3. Answers(c)'
    BY <1>1, <1>4, <2>2 DEF Answers, Fail
  <2> QED
    BY <1>4, <2>1, <2>3, QuietAnswers DEF Fail
<1> QED
  BY <1>2, <1>3, <1>4

LEMMA RemovingAnswers ==
  ASSUME ControlInv, AnswersInv, NEW c \in Client, Evict(c) \/ Remove(c) \/ Unlink(c)
  PROVE  AnswersInv'
<1> USE DEF ControlInv, FileTypes, clock, locals, Finish
<1>1. /\ UNCHANGED <<now, op, arg, handle, read, candidate, answer>>
      /\ dirent' \in {dirent, NoFile} /\ content' = Reclaim
      /\ pc' = [pc EXCEPT ![c] = "return"] /\ \A d \in Client \ {c} : result'[d] = result[d]
  BY DEF Evict, Remove, Unlink, Goto
<1>2. result'[c] \in IF op[c] = "get" THEN {NoEntry} ELSE {OkResult, Failure}
  BY DEF Evict, Remove, Unlink, Goto, PlacesOfCalls
<1>3. Disturbs /\ FilesDecode'
  BY <1>1, DiskShrinks DEF AnswersInv
<1>4. Answers(c)'
  BY <1>1, <1>2 DEF AnswersInv, Answers
<1> QED
  BY <1>1, <1>3, <1>4, OnlyItsAnswer DEF AnswersInv

LEMMA MkdirAnswers ==
  ASSUME ControlInv, AnswersInv, NEW c \in Client, Mkdir(c) PROVE AnswersInv'
<1> USE DEF ControlInv, FileTypes, clock, disk
<1>1. pc[c] = "mkdir" /\ op[c] = "set" /\ pc' = [pc EXCEPT ![c] = "create"] /\ Answers(c)
  BY DEF Mkdir, Goto, PlacesOfCalls, AnswersInv
<1>2. /\ UNCHANGED <<now, dirent, content, op, handle, read, result, candidate, answer>>
      /\ arg' = [arg EXCEPT ![c].expires = ExpiresAt(@)]
  BY DEF Mkdir
<1>3. arg[c] \in Whole /\ ExpiresAt(arg[c].expires) \in Int
  BY <1>1 DEF Answers, Whole, ExpiresAt
<1>4. arg'[c] \in Whole /\ arg'[c].value = arg[c].value
  BY <1>2, <1>3 DEF Whole
<1>5. \A d \in Client : op'[d] = "set" => op[d] = "set" /\ arg'[d].value = arg[d].value
  BY <1>2, <1>4
<1>6. Disturbs /\ FilesDecode'
  BY <1>2, <1>5, DiskStays DEF AnswersInv, FilesDecode
<1>7. Answers(c)'
  BY <1>1, <1>2, <1>4 DEF Answers
<1> QED
  BY <1>1, <1>2, <1>6, <1>7, OnlyItsAnswer DEF AnswersInv

LEMMA CreateAnswers ==
  ASSUME ControlInv, AnswersInv, NEW c \in Client, Create(c)
  PROVE  AnswersInv' /\ Visible' = Torn
<1> USE DEF ControlInv, FileTypes, clock
<1>1. pc[c] = "create" /\ op[c] = "set" /\ pc' = [pc EXCEPT ![c] = "write"] /\ Answers(c)
  BY DEF Create, Goto, PlacesOfCalls, AnswersInv
<1>2. PICK i \in Inode : /\ i # NoFile /\ dirent' = i
                         /\ handle' = [handle EXCEPT ![c] = i]
                         /\ content' = [content EXCEPT ![i] = TornFile]
  <2> DEFINE j == IF dirent = NoFile THEN Unused ELSE dirent
  <2>1. j \in Inode
    BY UnusedIsFree
  <2>2. j # NoFile
    BY <2>1 DEF Inode, NoFile
  <2>3. /\ dirent' = j /\ handle' = [handle EXCEPT ![c] = j]
        /\ content' = [content EXCEPT ![j] = TornFile]
    BY DEF Create
  <2> QED
    BY <2>1, <2>2, <2>3
<1>3. UNCHANGED <<now, op, arg, read, result, candidate, answer>>
  BY DEF Create
<1>4. Visible' = Torn
  BY <1>2 DEF Visible, TornFile
<1>5. Disturbs /\ FilesDecode'
  BY <1>2, <1>3, <1>4 DEF Disturbs, AnswersInv, FilesDecode
<1>6. Answers(c)'
  BY <1>1, <1>2, <1>3 DEF Answers
<1> QED
  BY <1>1, <1>2, <1>3, <1>4, <1>5, <1>6, OnlyItsAnswer DEF AnswersInv

\* A write, or a part of it, shows if the path still names the file.
LEMMA WriteAnswers ==
  ASSUME ControlInv, AnswersInv, NEW c \in Client, WritePart(c) \/ Write(c)
  PROVE  AnswersInv' /\ Visible' \in {Visible, arg[c].value, Torn, NoEntry}
<1> USE DEF ControlInv, FileTypes, clock, locals, Finish
<1>1. /\ pc[c] \in {"write", "rest"} /\ op[c] = "set"
      /\ pc' = [pc EXCEPT ![c] = "rest"] \/ pc' = [pc EXCEPT ![c] = "return"]
  BY DEF WritePart, Write, Goto, PlacesOfCalls
<1>2. Answers(c) /\ handle[c] \in Inode /\ arg[c] \in Whole
  BY <1>1 DEF AnswersInv, Answers
<1>3. PICK p \in {arg[c], TornFile} : content' = [content EXCEPT ![handle[c]] = p]
  BY DEF WritePart, Write
<1>4. /\ UNCHANGED <<now, dirent, op, arg, handle, read, candidate, answer>>
      /\ \A d \in Client \ {c} : result'[d] = result[d]
      /\ pc'[c] = "return" => result'[c] \in {OkResult, Failure}
  BY DEF WritePart, Write, Goto
<1>5. Visible' \in {Visible, arg[c].value, Torn, NoEntry}
  BY <1>2, <1>3, <1>4 DEF Visible, TornFile
<1>6. Disturbs /\ FilesDecode'
  BY <1>1, <1>2, <1>3, <1>4, <1>5 DEF Disturbs, AnswersInv, FilesDecode
<1>7. Answers(c)'
  BY <1>1, <1>2, <1>4 DEF Answers
<1> QED
  BY <1>1, <1>4, <1>5, <1>6, <1>7, OnlyItsAnswer DEF AnswersInv

LEMMA ReturnAnswers ==
  ASSUME ControlInv, AnswersInv, NEW c \in Client, Return(c)
  PROVE  AnswersInv' /\ Visible' = Visible
<1> USE DEF ControlInv, FileTypes
<1>1. /\ pc' = [pc EXCEPT ![c] = "idle"] /\ op' = [op EXCEPT ![c] = "idle"]
      /\ UNCHANGED <<now, dirent>> /\ content' = Reclaim
  BY DEF Return, Goto
<1>2. /\ candidate'[c] = {} /\ arg'[c] = NoPayload
      /\ candidate' \in [Client -> SUBSET Value] /\ DOMAIN answer' = Client
      /\ \A d \in Client \ {c} :
           /\ candidate'[d] = candidate[d] /\ handle'[d] = handle[d] /\ read'[d] = read[d]
           /\ result'[d] = result[d] /\ arg'[d] = arg[d]
  BY DEF Return, AnswersInv
<1>3. \A d \in Client : op'[d] = "set" => op[d] = "set" /\ arg'[d].value = arg[d].value
  BY <1>1, <1>2
<1>4. Disturbs /\ FilesDecode' /\ Visible' = Visible
  BY <1>1, <1>3, DiskShrinks DEF AnswersInv
<1>5. Answers(c)'
  BY <1>1, <1>2 DEF Answers
<1> QED
  BY <1>1, <1>2, <1>4, <1>5, OnlyItsAnswer

LEMMA CrashAnswers ==
  ASSUME ControlInv, AnswersInv, NEW p \in Process, Crash(p)
  PROVE  AnswersInv' /\ Visible' = Visible
<1> USE DEF ControlInv, FileTypes, Crash
<1>1. UNCHANGED <<now, dirent>> /\ content' = Reclaim
  OBVIOUS
<1>2. /\ DOMAIN answer' = Client
      /\ \A d \in Client : Owner(d) = p =>
           /\ candidate'[d] = {} /\ arg'[d] = NoPayload /\ op'[d] = "idle" /\ pc'[d] = "idle"
      /\ \A d \in Client : Owner(d) # p =>
           /\ candidate'[d] = candidate[d] /\ op'[d] = op[d] /\ pc'[d] = pc[d]
           /\ handle'[d] = handle[d] /\ read'[d] = read[d] /\ result'[d] = result[d]
           /\ arg'[d] = arg[d]
  OBVIOUS
<1>3. \A d \in Client : op'[d] = "set" => op[d] = "set" /\ arg'[d].value = arg[d].value
  BY <1>2
<1>4. Disturbs /\ FilesDecode' /\ Visible' = Visible
  BY <1>1, <1>3, DiskShrinks DEF AnswersInv
<1>5. ASSUME NEW d \in Client PROVE Answers(d)'
  <2>1. CASE Owner(d) = p
    BY <1>2, <2>1 DEF Answers
  <2>2. CASE Owner(d) # p
    BY <1>2, <1>4, <2>2, OthersAnswer
  <2> QED
    BY <2>1, <2>2
<1>6. candidate' \in [Client -> SUBSET Value]
  <2>1. \A d \in Client : candidate[d] \in SUBSET Value
    BY DEF AnswersInv
  <2> QED
    BY <2>1
<1> QED
  BY <1>2, <1>4, <1>5, <1>6 DEF AnswersInv

LEMMA TickAnswers ==
  ASSUME ControlInv, AnswersInv, Tick
  PROVE  AnswersInv' /\ Visible' \in {Visible, NoEntry}
<1> USE DEF ControlInv, FileTypes, disk, locals
<1>1. /\ UNCHANGED <<dirent, content, op, pc, arg, handle, read, result, candidate, answer>>
      /\ now' = now + 1
  BY DEF Tick
<1>2. Visible' \in {Visible, NoEntry}
  <2>1. dirent # NoFile => content[dirent] \in Whole \union {TornFile}
    BY DEF AnswersInv, FilesDecode
  <2>2. dirent # NoFile => content[dirent].expires \in Int
    BY <2>1 DEF Whole, TornFile
  <2> QED
    BY <1>1, <2>2 DEF Visible
<1>3. Disturbs
  BY <1>1, <1>2 DEF Disturbs
<1>4. \A c \in Client : Answers(c)'
  BY <1>1, <1>3, OthersAnswer
<1> QED
  BY <1>1, <1>2, <1>4 DEF AnswersInv, FilesDecode

LEMMA CallAnswers ==
  ASSUME ControlInv, AnswersInv, NEW c \in Client,
         CallGet(c) \/ \E o \in {"delete", "clear"} : CallEmpty(c, o)
  PROVE  AnswersInv'
<1> USE DEF ControlInv, FileTypes, disk
<1>1. PICK o \in {"get", "delete", "clear"} : Call(c, o) /\ (o = "get" => CallGet(c))
                                             /\ (o # "get" => CallEmpty(c, o))
  BY DEF CallGet, CallEmpty
<1>2. /\ pc[c] = "idle" /\ pc' = [pc EXCEPT ![c] = "lock"] /\ op' = [op EXCEPT ![c] = o]
      /\ UNCHANGED <<now, dirent, content, handle, read, result, arg>>
      /\ DOMAIN answer' = Client
      /\ \A d \in Client \ {c} : candidate'[d] = candidate[d]
      /\ op[c] = "idle" /\ Answers(c)
  BY <1>1 DEF Call, CallGet, CallEmpty, Goto, PlacesOfCalls, AnswersInv
<1>3. \A d \in Client : op'[d] = "set" => op[d] = "set" /\ arg'[d].value = arg[d].value
  BY <1>2
<1>4. Disturbs /\ FilesDecode' /\ Visible' = Visible
  BY <1>2, <1>3, DiskStays DEF AnswersInv, FilesDecode, Visible
<1>5. Visible \in Value \union {NoEntry, Torn}
  BY DEF Visible, AnswersInv, FilesDecode, Whole, TornFile
<1>6. o = "get" => candidate'[c] = ({Visible} \intersect Value) \union
                                   {arg[d].value : d \in {e \in Client : op[e] = "set"}}
  BY <1>1 DEF CallGet, AnswersInv
<1>7. o # "get" => candidate'[c] = {}
  BY <1>1, <1>2 DEF CallEmpty, Answers
<1>8. candidate' \in [Client -> SUBSET Value]
  <2>1. \A d \in Client : op[d] = "set" => arg[d].value \in Value
    BY DEF AnswersInv, Answers, Whole
  <2>2. candidate'[c] \in SUBSET Value
    BY <1>6, <1>7, <2>1
  <2>3. candidate' = candidate \/ candidate' = [candidate EXCEPT ![c] = candidate'[c]]
    BY <1>1 DEF CallGet, CallEmpty, AnswersInv
  <2> QED
    BY <2>2, <2>3 DEF AnswersInv
<1>9. Answers(c)'
  BY <1>2, <1>3, <1>4, <1>5, <1>6, <1>7 DEF Answers
<1> QED
  BY <1>2, <1>4, <1>8, <1>9, OnlyItsAnswer

LEMMA CallSetAnswers ==
  ASSUME ControlInv, AnswersInv, NEW c \in Client, NEW v \in Value, NEW t \in TTL,
         CallSet(c, v, t)
  PROVE  AnswersInv'
<1> USE DEF ControlInv, FileTypes, disk
<1>1. /\ pc[c] = "idle" /\ pc' = [pc EXCEPT ![c] = "lock"] /\ op' = [op EXCEPT ![c] = "set"]
      /\ UNCHANGED <<now, dirent, content, handle, read, result>>
      /\ arg' = [arg EXCEPT ![c] = [value |-> v, expires |-> t]]
      /\ candidate' = [d \in Client |-> IF op[d] = "get" THEN candidate[d] \union {v}
                                        ELSE candidate[d]]
      /\ DOMAIN answer' = Client /\ op[c] = "idle"
  BY DEF CallSet, Call, Goto, PlacesOfCalls, AnswersInv
<1>2. Visible' = Visible /\ FilesDecode'
  BY <1>1 DEF Visible, AnswersInv, FilesDecode
<1>3. arg'[c] \in Whole /\ arg'[c].value = v
  BY <1>1, FileAssumption DEF Whole
<1>4. Answers(c)'
  BY <1>1, <1>3 DEF Answers, AnswersInv
<1>5. ASSUME NEW d \in Client \ {c} PROVE Answers(d)'
  <2>1. /\ candidate[d] \subseteq candidate'[d] /\ (op[d] # "get" => candidate'[d] = candidate[d])
        /\ op[d] = "get" => v \in candidate'[d]
        /\ pc'[d] = pc[d] /\ op'[d] = op[d] /\ arg'[d] = arg[d] /\ Answers(d)
    BY <1>1 DEF AnswersInv
  <2>2. op[d] = "get" => \A e \in Client : op'[e] = "set" => arg'[e].value \in candidate'[d]
    <3> SUFFICES ASSUME op[d] = "get", NEW e \in Client, op'[e] = "set"
                 PROVE  arg'[e].value \in candidate'[d]
      OBVIOUS
    <3>1. CASE e = c
      BY <1>3, <2>1, <3>1
    <3>2. CASE e # c
      BY <1>1, <2>1, <3>2 DEF Answers
    <3> QED
      BY <3>1, <3>2
  <2>3. \A p : Answerable(d, p) => Answerable(d, p)'
    BY <1>1, <2>1 DEF Answerable, Expired
  <2>4. /\ pc[d] = "read" => Answerable(d, content[handle[d]])'
        /\ pc[d] = "decode" => Answerable(d, read[d])'
    BY <1>1, <2>1, <2>3 DEF Answers, Answerable
  <2> QED
    BY <1>1, <1>2, <2>1, <2>2, <2>4 DEF Answers
<1> QED
  BY <1>1, <1>2, <1>4, <1>5 DEF AnswersInv

LEMMA AnswersStep == ControlInv /\ AnswersInv /\ [Next]_vars => AnswersInv'
<1> SUFFICES ASSUME ControlInv, AnswersInv, [Next]_vars PROVE AnswersInv'
  OBVIOUS
<1>1. CASE UNCHANGED vars
  <2>1. Disturbs
    BY <1>1, DiskStays DEF vars
  <2> QED
    BY <1>1, <2>1, OthersAnswer DEF vars, AnswersInv, FilesDecode
<1>2. ASSUME NEW c \in Client, Step(c) PROVE AnswersInv'
  BY <1>2, ReadingAnswers, RemovingAnswers, MkdirAnswers, CreateAnswers, WriteAnswers,
     ControlAnswers, ReturnAnswers DEF Step
<1> QED
  BY <1>1, <1>2, TickAnswers, CrashAnswers, CallAnswers, CallSetAnswers, ControlAnswers
     DEF Next

LEMMA AnswersInvariant == Spec => [](ControlInv /\ AnswersInv)
<1>1. Init => AnswersInv
  BY DEF Init, AnswersInv, FilesDecode, Answers
<1> QED
  BY <1>1, InitInv, ControlStep, AnswersStep, PTL DEF Spec

-----------------------------------------------------------------------------
(* Each step is one of the contract, or none.                              *)

Values      == [c \in Client |-> arg[c].value]
Emptying(c) == /\ op[c] \in {"delete", "clear"}
               /\ pc[c] = "return" /\ result[c] = OkResult
Emptied     == [c \in Client |-> /\ op[c] \in {"delete", "clear"}
                                 /\ pc[c] = "return" /\ result[c] = OkResult]

\* What a step of one client does to the mapped emptied.
LEMMA EmptiedStep ==
  ASSUME NEW c \in Client,
         \A d \in Client \ {c} : op'[d] = op[d] /\ pc'[d] = pc[d] /\ result'[d] = result[d]
  PROVE  /\ (Emptying(c)' <=> Emptying(c)) => Emptied' = Emptied
         /\ Emptying(c)' => Emptied' = [Emptied EXCEPT ![c] = TRUE]
         /\ ~Emptying(c)' => Emptied' = [Emptied EXCEPT ![c] = FALSE]
<1>1. Emptied = [d \in Client |-> Emptying(d)] /\ Emptied' = [d \in Client |-> Emptying(d)']
  BY Zenon DEF Emptied, Emptying
<1>2. \A d \in Client \ {c} : Emptying(d)' <=> Emptying(d)
  BY DEF Emptying
<1>3. \A d : Emptying(d) \in BOOLEAN /\ Emptying(d)' \in BOOLEAN
  BY DEF Emptying
<1>4. \A d \in Client \ {c} : Emptying(d)' = Emptying(d)
  BY <1>2, <1>3
<1> QED
  BY <1>1, <1>3, <1>4

LEMMA InitContract == Init => C!CInit
<1> SUFFICES ASSUME Init PROVE C!CInit
  OBVIOUS
<1>1. Visible = NoEntry
  BY DEF Init, Visible
<1>2. Values = [c \in Client |-> NoEntry]
  BY DEF Init, Values, NoPayload
<1>3. Emptied = [c \in Client |-> FALSE]
  <2>1. \A c \in Client : ~(/\ op[c] \in {"delete", "clear"}
                            /\ pc[c] = "return" /\ result[c] = OkResult)
    BY DEF Init
  <2> QED
    BY <2>1, Zenon DEF Emptied
<1> QED
  BY <1>1, <1>2, <1>3 DEF Init, C!CInit, Values, Emptied

\* A step that changes at most what the cache holds.
LEMMA EntryStep ==
  ASSUME UNCHANGED <<op, candidate, answer>>, Values' = Values, Emptied' = Emptied
  PROVE  /\ Visible' = Visible => UNCHANGED C!cvars
         /\ Visible' = NoEntry => C!Forget
         /\ \A c \in Client : op[c] = "set" /\ Visible' \in {Values[c], Torn} => C!Write(c)
BY DEF C!cvars, C!Forget, C!Write, Values, Emptied

\* The steps of a Get after its call, and the lock, the stamp and the failures of
\* any operation: the contract sees none, or a cache that forgets.
LEMMA WithinKeeps ==
  ASSUME ControlInv, AnswersInv, NEW c \in Client,
         \/ Lock(c) \/ Open(c) \/ NoSuchFile(c) \/ Read(c) \/ Decode(c) \/ DecodeExpired(c)
         \/ Evict(c) \/ Mkdir(c) \/ Fail(c)
  PROVE  C!Forget \/ UNCHANGED C!cvars
<1> USE DEF ControlInv, FileTypes, clock, disk, locals, Finish, Goto
<1>1. UNCHANGED <<op, candidate, answer, now>>
  BY DEF Lock, Open, NoSuchFile, Read, Decode, DecodeExpired, Evict, Mkdir, Fail
<1>2. Values' = Values
  <2>1. CASE Mkdir(c)
    <3>1. arg' = [arg EXCEPT ![c].expires = ExpiresAt(@)] /\ arg[c] \in Whole
      BY <2>1 DEF Mkdir, PlacesOfCalls, AnswersInv, Answers
    <3>2. \A d \in Client : arg'[d].value = arg[d].value
      BY <3>1 DEF Whole
    <3> QED
      BY <3>2 DEF Values
  <2>2. CASE ~Mkdir(c)
    BY <2>2 DEF Values, Lock, Open, NoSuchFile, Read, Decode, DecodeExpired, Evict, Fail
  <2> QED
    BY <2>1, <2>2
<1>3. Emptied' = Emptied
  <2>1. \A d \in Client \ {c} : op'[d] = op[d] /\ pc'[d] = pc[d] /\ result'[d] = result[d]
    BY <1>1
       DEF Lock, Open, NoSuchFile, Read, Decode, DecodeExpired, Evict, Mkdir, Fail
  <2>2. ~Emptying(c)
    BY FirstStops
       DEF Emptying, Lock, Open, NoSuchFile, Read, Decode, DecodeExpired, Evict, Mkdir, Fail
  <2>3. ~Emptying(c)'
    <3>1. CASE Lock(c)
      <4>1. op[c] \in {"get", "set", "delete", "clear"} /\ pc'[c] = First(op[c])
        BY <3>1 DEF Lock, PlacesOfCalls
      <4> QED
        BY <4>1, FirstStops DEF Emptying
    <3>2. CASE Fail(c)
      <4>1. result'[c] = Failure
        BY <3>2 DEF Fail
      <4> QED
        BY <4>1 DEF Emptying, Failure, OkResult
    <3>3. CASE ~Lock(c) /\ ~Fail(c)
      <4>1. op[c] \in {"get", "set"} /\ op' = op
        BY <1>1, <3>3
           DEF PlacesOfCalls, Open, NoSuchFile, Read, Decode, DecodeExpired, Evict, Mkdir
      <4> QED
        BY <4>1 DEF Emptying
    <3> QED
      BY <3>1, <3>2, <3>3
  <2> QED
    BY <2>1, <2>2, <2>3, EmptiedStep
<1>4. Visible' \in {Visible, NoEntry}
  <2>1. CASE Evict(c)
    <3>1. dirent' \in {dirent, NoFile} /\ content' = Reclaim /\ arg' = arg
      BY <2>1 DEF Evict
    <3> QED
      BY <1>1, <3>1, DiskShrinks
  <2>2. CASE ~Evict(c)
    BY <1>1, <2>2
       DEF Visible, Lock, Open, NoSuchFile, Read, Decode, DecodeExpired, Mkdir, Fail
  <2> QED
    BY <2>1, <2>2
<1> QED
  BY <1>1, <1>2, <1>3, <1>4, EntryStep

\* A Set truncates the file, and then writes into it, at once or in parts.
LEMMA WritingKeeps ==
  ASSUME ControlInv, AnswersInv, NEW c \in Client, Create(c) \/ WritePart(c) \/ Write(c)
  PROVE  C!Write(c) \/ C!Forget \/ UNCHANGED C!cvars
<1> USE DEF ControlInv, FileTypes, clock, locals, Finish, Goto
<1>1. UNCHANGED <<op, arg, candidate, answer>> /\ op[c] = "set" /\ Values' = Values
  BY DEF Create, WritePart, Write, PlacesOfCalls, Values
<1>2. Emptied' = Emptied
  <2>1. \A d \in Client \ {c} : op'[d] = op[d] /\ pc'[d] = pc[d] /\ result'[d] = result[d]
    BY DEF Create, WritePart, Write
  <2>2. ~Emptying(c) /\ ~Emptying(c)'
    BY <1>1 DEF Emptying
  <2> QED
    BY <2>1, <2>2, EmptiedStep
<1>3. Visible' \in {Visible, Values[c], Torn, NoEntry}
  BY CreateAnswers, WriteAnswers DEF Values
<1> QED
  BY <1>1, <1>2, <1>3, EntryStep

\* A removal empties the cache, and so does finding nothing to remove.
LEMMA EmptyingKeeps ==
  ASSUME ControlInv, NEW c \in Client, Remove(c) \/ ReadDir(c) \/ Unlink(c)
  PROVE  C!Empty(c) \/ UNCHANGED C!cvars
<1> USE DEF ControlInv, FileTypes, clock, disk, locals, Finish, Goto
<1>1. /\ UNCHANGED <<op, arg, candidate, answer, now>> /\ op[c] \in {"delete", "clear"}
      /\ Values' = Values /\ ~Emptying(c)
      /\ \A d \in Client \ {c} : op'[d] = op[d] /\ pc'[d] = pc[d] /\ result'[d] = result[d]
  BY DEF Remove, ReadDir, Unlink, PlacesOfCalls, Values, Emptying
<1>2. CASE pc'[c] = "return" /\ result'[c] = OkResult
  <2>1. Emptied' = [Emptied EXCEPT ![c] = TRUE]
    BY <1>1, <1>2, EmptiedStep DEF Emptying
  <2>2. Visible' = NoEntry
    BY <1>2 DEF Visible, Remove, ReadDir, Unlink
  <2> QED
    BY <1>1, <2>1, <2>2 DEF C!Empty, Values, Emptied
<1>3. CASE ~(pc'[c] = "return" /\ result'[c] = OkResult)
  <2>1. Emptied' = Emptied
    BY <1>1, <1>3, EmptiedStep DEF Emptying
  <2>2. Visible' = Visible
    BY <1>1, <1>3 DEF Visible, Remove, ReadDir, Unlink
  <2> QED
    BY <1>1, <2>1, <2>2, EntryStep
<1> QED
  BY <1>2, <1>3

LEMMA CallGetKeeps ==
  ASSUME ControlInv, NEW c \in Client, CallGet(c) PROVE C!CallGet(c)
<1> USE DEF ControlInv, FileTypes, disk, CallGet, Call, Goto
<1>1. /\ op[c] = "idle" /\ Values' = Values /\ Visible' = Visible
      /\ ~Emptying(c) /\ ~Emptying(c)'
  BY DEF PlacesOfCalls, Values, Visible, Emptying
<1>2. Emptied' = Emptied
  BY <1>1, EmptiedStep
<1>3. C!Possible = ({Visible} \intersect Value) \union
                     {arg[d].value : d \in {e \in Client : op[e] = "set"}}
  BY DEF C!Possible
<1> QED
  BY <1>1, <1>2, <1>3 DEF C!CallGet, C!Call, Values, Emptied

LEMMA CallSetKeeps ==
  ASSUME ControlInv, NEW c \in Client, NEW v \in Value, NEW t \in TTL, CallSet(c, v, t)
  PROVE  C!CallSet(c, v)
<1> USE DEF ControlInv, FileTypes, disk, CallSet, Call, Goto
<1>1. /\ op[c] = "idle" /\ Visible' = Visible
      /\ ~Emptying(c) /\ ~Emptying(c)'
  BY DEF PlacesOfCalls, Visible, Emptying
<1>2. Emptied' = Emptied
  BY <1>1, EmptiedStep
<1>3. Values' = [Values EXCEPT ![c] = v]
  BY DEF Values
<1> QED
  BY <1>1, <1>2, <1>3 DEF C!CallSet, C!Call, Values, Emptied

LEMMA CallEmptyKeeps ==
  ASSUME ControlInv, NEW c \in Client, NEW o \in {"delete", "clear"}, CallEmpty(c, o)
  PROVE  C!CallEmpty(c, o)
<1> USE DEF ControlInv, FileTypes, disk, CallEmpty, Call, Goto
<1>1. /\ op[c] = "idle" /\ Visible' = Visible /\ Values' = Values /\ ~Emptying(c)'
  BY DEF PlacesOfCalls, Visible, Emptying, Values
<1>2. Emptied' = [Emptied EXCEPT ![c] = FALSE]
  BY <1>1, EmptiedStep
<1> QED
  BY <1>1, <1>2 DEF C!CallEmpty, C!Call, Values, Emptied

LEMMA ReturnKeeps ==
  ASSUME ControlInv, AnswersInv, NEW c \in Client, Return(c)
  PROVE  C!ReturnGet(c) \/ C!ReturnSet(c) \/ C!ReturnEmpty(c)
<1> USE DEF ControlInv, FileTypes
<1>1. /\ pc[c] = "return" /\ op' = [op EXCEPT ![c] = "idle"] /\ ~Emptying(c)'
      /\ op[c] \in {"get", "set", "delete", "clear"} /\ Visible' = Visible
      /\ answer' = [answer EXCEPT ![c] = result[c]] /\ Answers(c)
      /\ candidate' = [candidate EXCEPT ![c] = {}]
      /\ Values' = [Values EXCEPT ![c] = NoEntry]
  BY ReturnAnswers
     DEF Return, Goto, PlacesOfCalls, AnswersInv, Emptying, Values, NoPayload
<1>2. \A d \in Client \ {c} : op'[d] = op[d] /\ pc'[d] = pc[d] /\ result'[d] = result[d]
  BY DEF Return, Goto
<1>3. op[c] # "set" => Values' = Values
  <2>1. Values \in [Client -> {Values[d] : d \in Client}]
    BY DEF Values
  <2>2. op[c] # "set" => Values[c] = NoEntry
    BY <1>1 DEF Answers, Values, NoPayload
  <2> QED
    BY <1>1, <2>1, <2>2
<1>4. op[c] # "get" => candidate' = candidate
  <2>1. candidate = [d \in Client |-> candidate[d]]
    BY DEF AnswersInv
  <2>2. op[c] # "get" => candidate[c] = {}
    BY <1>1 DEF Answers
  <2> QED
    BY <1>1, <2>1, <2>2
<1>5. Emptied' = [Emptied EXCEPT ![c] = FALSE]
  BY <1>1, <1>2, EmptiedStep
<1>6. op[c] \in {"get", "set"} => Emptied' = Emptied
  BY <1>1, <1>2, EmptiedStep DEF Emptying
<1>7. CASE op[c] = "get"
  <2>1. result[c] \in candidate[c] \union C!Missed
    BY <1>1, <1>7 DEF Answers, C!Missed, C!Failed, Failure
  <2> QED
    BY <1>1, <1>3, <1>6, <1>7, <2>1 DEF C!ReturnGet, C!Return, Values, Emptied
<1>8. CASE op[c] = "set"
  <2>1. result[c] \in {C!Ok, C!Failed}
    BY <1>1, <1>8 DEF Answers, C!Ok, C!Failed, OkResult, Failure
  <2> QED
    BY <1>1, <1>4, <1>6, <1>8, <2>1 DEF C!ReturnSet, C!Return, Values, Emptied
<1>9. CASE op[c] \in {"delete", "clear"}
  <2>1. result[c] \in {C!Ok, C!Failed} /\ (result[c] = C!Ok => Emptied[c])
    <3>1. result[c] = OkResult => (/\ op[c] \in {"delete", "clear"}
                                   /\ pc[c] = "return" /\ result[c] = OkResult)
      BY <1>1, <1>9
    <3> QED
      BY <1>1, <1>9, <3>1 DEF Answers, C!Ok, C!Failed, OkResult, Failure, Emptied
  <2> QED
    BY <1>1, <1>3, <1>4, <1>5, <1>9, <2>1 DEF C!ReturnEmpty, C!Return, Values, Emptied
<1> QED
  BY <1>1, <1>7, <1>8, <1>9

LEMMA CrashKeeps ==
  ASSUME ControlInv, AnswersInv, NEW p \in Process, Crash(p)
  PROVE  \E D \in SUBSET Client : C!Abort(D)
<1>0. PICK D \in SUBSET Client : D = {c \in Client : Owner(c) = p}
  OBVIOUS
<1> USE DEF ControlInv, FileTypes, Crash
<1>1. Visible' = Visible
  BY CrashAnswers
<1>2. Values' = [c \in Client |-> IF c \in D THEN NoEntry ELSE Values[c]]
  BY <1>0 DEF Values, NoPayload
<1>3. Emptied' = [c \in Client |-> IF c \in D THEN FALSE ELSE Emptied[c]]
  <2>1. \A c \in Client : Emptying(c)' = IF c \in D THEN FALSE ELSE Emptying(c)
    <3>1. \A c \in D : ~Emptying(c)'
      BY <1>0 DEF Emptying
    <3>2. \A c \in Client \ D : Emptying(c)' <=> Emptying(c)
      BY <1>0 DEF Emptying
    <3>3. \A c : Emptying(c) \in BOOLEAN /\ Emptying(c)' \in BOOLEAN
      BY DEF Emptying
    <3> QED
      BY <3>1, <3>2, <3>3
  <2>2. Emptied = [c \in Client |-> Emptying(c)] /\ Emptied' = [c \in Client |-> Emptying(c)']
    BY Zenon DEF Emptied, Emptying
  <2> QED
    BY <2>1, <2>2
<1>4. /\ op' = [c \in Client |-> IF c \in D THEN "idle" ELSE op[c]]
      /\ candidate' = [c \in Client |-> IF c \in D THEN {} ELSE candidate[c]]
      /\ answer' = [c \in Client |-> IF c \in D THEN NoEntry ELSE answer[c]]
  BY <1>0
<1>5. C!Abort(D)
  BY <1>1, <1>2, <1>3, <1>4 DEF C!Abort, Values, Emptied
<1> QED
  BY <1>5

LEMMA TickKeeps ==
  ASSUME ControlInv, AnswersInv, Tick PROVE C!Forget \/ UNCHANGED C!cvars
<1>1. UNCHANGED <<op, candidate, answer>> /\ Values' = Values /\ Emptied' = Emptied
  BY DEF Tick, locals, Values, Emptied
<1>2. Visible' \in {Visible, NoEntry}
  BY TickAnswers
<1> QED
  BY <1>1, <1>2, EntryStep

\* FileSystemCache keeps the contract of a cache in every deployment: whatever
\* processes share the directory, tear, overwrite and remove each other's files,
\* fail or die, a Get answers what the file was, or was becoming, and a Delete or
\* Clear that reports success has seen no file there (cache_filesystem.go:32-107).
THEOREM FileCacheIsACache == Spec => KeepsContract
<1>1. ControlInv /\ AnswersInv /\ [Next]_vars => [C!CNext]_(C!cvars)
  <2> SUFFICES ASSUME ControlInv, AnswersInv, [Next]_vars PROVE [C!CNext]_(C!cvars)
    OBVIOUS
  <2>1. CASE UNCHANGED vars
    <3>1. UNCHANGED <<op, candidate, answer>> /\ Values' = Values /\ Emptied' = Emptied
          /\ Visible' = Visible
      BY <2>1 DEF vars, Values, Emptied, Visible
    <3> QED
      BY <3>1, EntryStep
  <2>2. CASE Tick
    BY <2>2, TickKeeps DEF C!CNext
  <2>3. ASSUME NEW p \in Process, Crash(p) PROVE C!CNext
    BY <2>3, CrashKeeps DEF C!CNext
  <2>4. ASSUME NEW c \in Client,
               \/ CallGet(c) \/ (\E v \in Value, t \in TTL : CallSet(c, v, t))
               \/ \E o \in {"delete", "clear"} : CallEmpty(c, o)
        PROVE  C!CNext
    BY <2>4, CallGetKeeps, CallSetKeeps, CallEmptyKeeps DEF C!CNext
  <2>5. ASSUME NEW c \in Client, Lock(c) \/ Step(c) PROVE [C!CNext]_(C!cvars)
    BY <2>5, WithinKeeps, WritingKeeps, EmptyingKeeps, ReturnKeeps DEF Step, C!CNext
  <2> QED
    BY <2>1, <2>2, <2>3, <2>4, <2>5 DEF Next
<1> QED
  BY <1>1, InitContract, AnswersInvariant, PTL DEF Spec, KeepsContract, C!Contract
=============================================================================
