----------------------------- MODULE FileCache -----------------------------
(***************************************************************************)
(* What the cache of a remote file's data promises its callers, whatever   *)
(* its pages, its limits and the disk do: it may forget, but it makes      *)
(* nothing up, and what it forgot comes back only with a new write.        *)
(***************************************************************************)
CONSTANT Places      \* the positions of the file

VARIABLE shown       \* what a read gives for a place: the byte "last" written
                     \* there, an "older" one, or "none"

Init == shown = [i \in Places |-> "none"]

\* New bytes for the places in S.  Each is there afterwards or it is not, and
\* the byte it should have replaced, if any, may still be there; of the other
\* places some may be forgotten.
WriteToCache(S) ==
    shown' \in {f \in [Places -> {"last", "older", "none"}] :
        /\ \A i \in Places \ S : f[i] \in {shown[i], "none"}
        /\ \A i \in S : f[i] = "older" => shown[i] # "none"}

\* Without new bytes the cache can only forget: WriteToCache({}).
Next == \E S \in SUBSET Places : WriteToCache(S)

Spec == Init /\ [][Next]_shown
=============================================================================
