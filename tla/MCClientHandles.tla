-------------------------- MODULE MCClientHandles --------------------------
(***************************************************************************)
(* Instances of ClientHandles.  Files of one page.  VirtualAlloc returns   *)
(* multiples of 64 kB, so a view of less than that is followed by a gap    *)
(* (Apart), and a view of a whole multiple of it is not (Adjacent).  All   *)
(* sets of values are symmetric.                                           *)
(***************************************************************************)
EXTENDS ClientHandles, TLC

OnePage == [f \in Files |-> 1]
Apart == {0, 2}
Adjacent == {0, 1}

Symmetry == Permutations(Threads) \cup Permutations(Handles)
            \cup Permutations(FsHandles) \cup Permutations(Files) \cup Permutations(Refs)
=============================================================================
