----------------------------- MODULE MCTransfer -----------------------------
(***************************************************************************)
(* Instance of Transfer.                                                   *)
(***************************************************************************)
EXTENDS Transfer

SmallBounds == {[size |-> 1, calls |-> 4, others |-> 0],
                [size |-> 1, calls |-> 3, others |-> 1],
                [size |-> 3, calls |-> 2, others |-> 0]}

\* A handle without buffering differs only in what becomes of the cache, place by
\* place, so the files of one byte are enough for it.
MCInit == Init /\ (file.nocache => left.size = 1)

MCSpec == MCInit /\ [][Next]_vars
=============================================================================
