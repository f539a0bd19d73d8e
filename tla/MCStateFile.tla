----------------------------- MODULE MCStateFile -----------------------------
(* StateFile for TLC: two documents, one longer than the other. *)
EXTENDS StateFile, TLC

CONSTANTS short, long

MCSize == (short :> 1) @@ (long :> 2)
Perms == Permutations(Inodes) \cup Permutations(Writers)
=============================================================================
