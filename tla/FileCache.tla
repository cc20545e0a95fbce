------------------------------ MODULE FileCache ------------------------------
(***************************************************************************)
(* FileSystemCache (cache_filesystem.go) for one key: a file that several  *)
(* processes may share, each with an instance of its own whose mutex knows *)
(* nothing of the others.  The operating system's part is external: a      *)
(* directory entry that names an inode or nothing, os.WriteFile as open    *)
(* with truncation and then a write, os.ReadFile as open and then a read,  *)
(* and a removal that leaves the inode to those who have it open.          *)
(***************************************************************************)
EXTENDS Integers, FiniteSets

CONSTANTS Client, Process, Value, NoEntry, Torn,
          Deployment, \* the programs that use the directory: see below
          TTL, MaxTime

(* In a deployment each client runs in a process, file operations may fail *)
(* or do not, and processes may die or do not.  What a call answers, a     *)
(* payload and a file that does not decode are told apart.                 *)
ASSUME FileAssumption ==
  /\ IsFiniteSet(Client) /\ "free" \notin Client
  /\ Torn \notin Value /\ "failed" \notin Value \union {NoEntry}
  /\ Deployment \subseteq [owner : [Client -> Process], faults : BOOLEAN,
                           crashes : BOOLEAN]
  /\ TTL \subseteq Int /\ MaxTime \in Nat \ {0}

VARIABLES deployment,
          now,
          mutex,   \* c.mu of each process: the client that holds it, or Free
          dirent,  \* the inode the path names, or NoFile
          content, \* of each inode: [value, expires], or TornFile
          op, pc,  \* a client's operation and its place in it
          arg,     \* the payload its Set writes
          handle,  \* the inode it has open
          read,    \* the bytes its Get has read
          result,  \* what it is about to return
          candidate, answer  \* history for CacheContract

vars == <<deployment, now, mutex, dirent, content, op, pc, arg, handle, read, result,
          candidate, answer>>

Inode    == 1..(Cardinality(Client) + 1)
NoFile   == 0
Free     == "free"
TornFile == [value |-> Torn, expires |-> 0]
NoPayload == [value |-> NoEntry, expires |-> 0]
OkResult == "ok"
Failure  == "failed"

Expired_Never(p) == FALSE           \* mutant: the expiry is not looked at
Expired(p) == p.expires # 0 /\ now > p.expires
ExpiresAt(ttl) == IF ttl > 0 THEN now + ttl ELSE 0

Visible ==
  IF dirent = NoFile THEN NoEntry
  ELSE LET p == content[dirent] IN
       IF p.expires # 0 /\ p.expires < now THEN NoEntry ELSE p.value

Owner(c) == deployment.owner[c]
Faults   == deployment.faults
Crashes  == deployment.crashes

Init ==
  /\ deployment \in Deployment
  /\ now     = 1
  /\ mutex   = [p \in Process |-> Free]
  /\ dirent  = NoFile
  /\ content = [i \in Inode |-> TornFile]
  /\ op      = [c \in Client |-> "idle"]
  /\ pc      = [c \in Client |-> "idle"]
  /\ arg     = [c \in Client |-> NoPayload]
  /\ handle  = [c \in Client |-> NoFile]
  /\ read    = [c \in Client |-> TornFile]
  /\ result  = [c \in Client |-> NoEntry]
  /\ candidate = [c \in Client |-> {}]
  /\ answer  = [c \in Client |-> NoEntry]

clock   == <<deployment, now, candidate, answer>>
disk    == <<dirent, content>>
locals  == <<op, arg, handle, read>>

Goto(c, a, b) == pc[c] = a /\ pc' = [pc EXCEPT ![c] = b]

-----------------------------------------------------------------------------
(* Calls and returns: the mutex is held from the first statement to the    *)
(* deferred Unlock.                                                        *)

Call(c, o) ==
  /\ Goto(c, "idle", "lock")
  /\ op' = [op EXCEPT ![c] = o]
  /\ answer' = [answer EXCEPT ![c] = NoEntry]
  /\ UNCHANGED <<deployment, now, mutex, disk, handle, read, result>>

CallGet(c) ==
  /\ Call(c, "get")
  /\ candidate' = [candidate EXCEPT ![c] = ({Visible} \cap Value) \union
                     {arg[d].value : d \in {e \in Client : op[e] = "set"}}]
  /\ UNCHANGED arg

CallSet(c, v, ttl) ==
  /\ Call(c, "set")
  /\ arg' = [arg EXCEPT ![c] = [value |-> v, expires |-> ttl]]
  /\ candidate' = [d \in Client |-> IF op[d] = "get" THEN candidate[d] \union {v}
                                    ELSE candidate[d]]

CallEmpty(c, o) == Call(c, o) /\ o \in {"delete", "clear"} /\ UNCHANGED <<arg, candidate>>

First(o) == CASE o = "get" -> "open" [] o = "set" -> "mkdir"
              [] o = "delete" -> "remove" [] o = "clear" -> "readdir"

MayLock_Always(c) == TRUE                \* mutant: the mutex is not taken
MayLock(c) == mutex[Owner(c)] = Free

Lock(c) ==
  /\ MayLock(c)
  /\ Goto(c, "lock", First(op[c]))
  /\ mutex' = [mutex EXCEPT ![Owner(c)] = c]
  /\ UNCHANGED <<clock, disk, locals, result>>

\* The operation is over but for the deferred Unlock.
Finish(c, a, r) ==
  /\ Goto(c, a, "return")
  /\ result' = [result EXCEPT ![c] = r]

\* An inode that nothing names and nobody has open is gone.
Reclaim == [i \in Inode |-> IF i = dirent' \/ \E c \in Client : handle'[c] = i
                            THEN content[i] ELSE TornFile]

Return(c) ==
  /\ Goto(c, "return", "idle")
  /\ op'     = [op EXCEPT ![c] = "idle"]
  /\ mutex'  = [mutex EXCEPT ![Owner(c)] = Free]
  /\ answer' = [answer EXCEPT ![c] = result[c]]
  /\ result' = [result EXCEPT ![c] = NoEntry]
  /\ arg'    = [arg EXCEPT ![c] = NoPayload]
  /\ handle' = [handle EXCEPT ![c] = NoFile]
  /\ read'   = [read EXCEPT ![c] = TornFile]
  /\ candidate' = [candidate EXCEPT ![c] = {}]
  /\ UNCHANGED <<deployment, now, dirent>>
  /\ content' = Reclaim

Fail(c) ==
  /\ Faults
  /\ \E a \in {"open", "mkdir", "create", "write", "rest", "remove", "readdir",
                "unlink"} :
       Finish(c, a, Failure)
  /\ UNCHANGED <<clock, mutex, disk, locals>>

-----------------------------------------------------------------------------
(* Get: os.ReadFile, Unmarshal, the expiry, os.Remove.                     *)

Open(c) ==
  /\ dirent # NoFile
  /\ Goto(c, "open", "read")
  /\ handle' = [handle EXCEPT ![c] = dirent]
  /\ UNCHANGED <<clock, mutex, disk, op, arg, read, result>>

NoSuchFile(c) ==
  /\ dirent = NoFile
  /\ Finish(c, "open", NoEntry)
  /\ UNCHANGED <<clock, mutex, disk, locals>>

Read(c) ==
  /\ Goto(c, "read", "decode")
  /\ read' = [read EXCEPT ![c] = content[handle[c]]]
  /\ UNCHANGED <<clock, mutex, disk, op, arg, handle, result>>

\* A torn file is an error, an unexpired payload a hit.
Decode(c) ==
  /\ ~Expired(read[c])
  /\ Finish(c, "decode", IF read[c] = TornFile THEN Failure ELSE read[c].value)
  /\ UNCHANGED <<clock, mutex, disk, locals>>

\* An expired file is removed by its path, whatever that names by now; the
\* error of Remove is ignored.
DecodeExpired(c) ==
  /\ Expired(read[c])
  /\ Goto(c, "decode", "evict")
  /\ UNCHANGED <<clock, mutex, disk, locals, result>>

Evict(c) ==
  /\ Finish(c, "evict", NoEntry)
  /\ dirent' \in IF Faults THEN {dirent, NoFile} ELSE {NoFile}
  /\ UNCHANGED <<clock, mutex, locals>>
  /\ content' = Reclaim

-----------------------------------------------------------------------------
(* Set: MkdirAll, the time stamp, os.WriteFile.                            *)

Mkdir(c) ==
  /\ Goto(c, "mkdir", "create")
  /\ arg' = [arg EXCEPT ![c].expires = ExpiresAt(@)]
  /\ UNCHANGED <<clock, mutex, disk, op, handle, read, result>>

\* O_CREATE | O_TRUNC: the file there is, emptied, or a new one.
Unused == CHOOSE i \in Inode : i # dirent /\ \A c \in Client : handle[c] # i

Create(c) ==
  /\ Goto(c, "create", "write")
  /\ LET i == IF dirent = NoFile THEN Unused ELSE dirent IN
       /\ dirent' = i
       /\ handle' = [handle EXCEPT ![c] = i]
       /\ content' = [content EXCEPT ![i] = TornFile]
  /\ UNCHANGED <<clock, mutex, op, arg, read, result>>

\* Some of the bytes are in the file.  Over those another process has written since
\* the truncation they make a mixture, which stays if the rest never comes.
WritePart(c) ==
  /\ Goto(c, "write", "rest")
  /\ content[handle[c]] # TornFile
  /\ content' = [content EXCEPT ![handle[c]] = TornFile]
  /\ UNCHANGED <<clock, mutex, dirent, locals, result>>

\* All of the bytes are in the file, whether or not closing it fails.  Over others'
\* bytes they may leave a mixture: the tail of a longer payload, or another's head.
Write(c) ==
  /\ \E r \in {OkResult} \union (IF Faults THEN {Failure} ELSE {}) :
       Finish(c, "write", r) \/ Finish(c, "rest", r)
  /\ \E p \in {arg[c]} \union
              (IF pc[c] = "write" /\ content[handle[c]] = TornFile THEN {}
               ELSE {TornFile}) :
       content' = [content EXCEPT ![handle[c]] = p]
  /\ UNCHANGED <<clock, mutex, dirent, locals>>

-----------------------------------------------------------------------------
(* Delete and Clear.                                                       *)

\* Delete: os.Remove, for which a missing file is no error.
Remove(c) ==
  /\ Finish(c, "remove", OkResult)
  /\ dirent' = NoFile
  /\ UNCHANGED <<clock, mutex, locals>>
  /\ content' = Reclaim

\* Clear: os.ReadDir, and then os.Remove for each file it listed.
ReadDir(c) ==
  /\ \/ dirent = NoFile /\ Finish(c, "readdir", OkResult)
     \/ dirent # NoFile /\ Goto(c, "readdir", "unlink") /\ UNCHANGED result
  /\ UNCHANGED <<clock, mutex, disk, locals>>

\* A file that vanished since is an error here.
Unlink(c) ==
  /\ Finish(c, "unlink", IF dirent = NoFile THEN Failure ELSE OkResult)
  /\ dirent' = NoFile
  /\ UNCHANGED <<clock, mutex, locals>>
  /\ content' = Reclaim

-----------------------------------------------------------------------------
Tick ==
  /\ now < MaxTime
  /\ now' = now + 1
  /\ UNCHANGED <<deployment, mutex, disk, locals, pc, result, candidate, answer>>

\* A process dies: its locks and open files go, the disk stays as it is, with whatever
\* part of its write is there.
Crash(p) ==
  LET Mine == {c \in Client : Owner(c) = p}
      Reset(f, v) == [c \in Client |-> IF c \in Mine THEN v ELSE f[c]]
  IN /\ Crashes
     /\ \E c \in Mine : op[c] # "idle"
     /\ mutex'  = [mutex EXCEPT ![p] = Free]
     /\ op'     = Reset(op, "idle")
     /\ pc'     = Reset(pc, "idle")
     /\ arg'    = Reset(arg, NoPayload)
     /\ handle' = Reset(handle, NoFile)
     /\ read'   = Reset(read, TornFile)
     /\ result' = Reset(result, NoEntry)
     /\ candidate' = Reset(candidate, {})
     /\ answer' = Reset(answer, NoEntry)
     /\ UNCHANGED <<deployment, now, dirent>>
     /\ content' = Reclaim

Step(c) ==
  \/ Open(c) \/ NoSuchFile(c) \/ Read(c) \/ Decode(c) \/ DecodeExpired(c) \/ Evict(c)
  \/ Mkdir(c) \/ Create(c) \/ WritePart(c) \/ Write(c)
  \/ Remove(c) \/ ReadDir(c) \/ Unlink(c)
  \/ Fail(c) \/ Return(c)

Next ==
  \/ Tick \/ \E p \in Process : Crash(p)
  \/ \E c \in Client :
       \/ CallGet(c) \/ (\E v \in Value, t \in TTL : CallSet(c, v, t))
       \/ (\E o \in {"delete", "clear"} : CallEmpty(c, o))
       \/ Lock(c) \/ Step(c)

Spec == Init /\ [][Next]_vars

-----------------------------------------------------------------------------
\* The filesystem cache keeps the contract of every cache, also for several
\* processes in one directory, torn writes, failing file operations and
\* crashes (cache_filesystem.go:32-107).
C == INSTANCE CacheContract WITH
       entry   <- Visible,
       arg     <- [c \in Client |-> arg[c].value],
       emptied <- [c \in Client |-> /\ op[c] \in {"delete", "clear"}
                                    /\ pc[c] = "return" /\ result[c] = OkResult]
KeepsContract == C!Contract

\* One process for all, whose file operations do not fail and which lives on.
Sheltered == ~Faults /\ ~Crashes /\ \A c, d \in Client : Owner(c) = Owner(d)

\* In one process that does not crash, the mutex hides the truncation and the
\* write of os.WriteFile from readers: no Get sees a file that does not decode,
\* and no Clear a file that vanished (cache_filesystem.go:34,57,87).
NeverFails == Sheltered => \A c \in Client : result[c] # Failure

\* There, a Set that reports success has left its payload in the file the path
\* names (cache_filesystem.go:56-72).
SetSticks ==
  Sheltered =>
    \A c \in Client :
      op[c] = "set" /\ pc[c] = "return" /\ result[c] = OkResult =>
        dirent # NoFile /\ content[dirent] = arg[c]
=============================================================================
