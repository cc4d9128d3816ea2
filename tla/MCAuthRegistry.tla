--------------------------- MODULE MCAuthRegistry ---------------------------
(* Small instances of AuthRegistry for TLC.  Nothing in the registry tells *)
(* keys, or batches, apart.                                                *)
EXTENDS AuthRegistry, TLC

Renamings == Permutations(Key) \cup Permutations(Batch)
=============================================================================
