---------------------------- MODULE MCCacheFiles ----------------------------
(***************************************************************************)
(* An instance of CacheFiles for TLC: two directories and a file or        *)
(* symlink, of which two fit.                                              *)
(***************************************************************************)
EXTENDS CacheFiles

CONSTANTS d1, d2, f

MCSize == [d \in Digest |-> IF d = d1 THEN 2 ELSE 1]
=============================================================================
