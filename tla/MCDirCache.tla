----------------------------- MODULE MCDirCache -----------------------------
(* Instance of DirCache: threads and names are symmetric. *)
EXTENDS DirCache, TLC

Symmetry == Permutations(Threads) \cup Permutations(Names)
=============================================================================
