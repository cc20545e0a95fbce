---------------------------- MODULE MCMemoryCache ----------------------------
(* Small instances of MemoryCache for TLC.                                 *)
EXTENDS MemoryCache

MCTTL == {-1, 1}
=============================================================================
