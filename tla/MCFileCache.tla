----------------------------- MODULE MCFileCache -----------------------------
(* Small instances of FileCache for TLC: one process with two clients that *)
(* nothing disturbs, and two processes with a client each.                 *)
EXTENDS FileCache, TLC

MCTTL == {0, 1}

Together == [c \in Client |-> CHOOSE p \in Process : TRUE]
\* As many processes as clients: each client has its own.
Apart    == CHOOSE f \in [Client -> Process] : \A c, d \in Client : f[c] = f[d] => c = d

MCDeployment == {[owner |-> Together, faults |-> FALSE, crashes |-> FALSE],
                 [owner |-> Apart, faults |-> TRUE, crashes |-> TRUE]}

Symmetric == Permutations(Value)
=============================================================================
