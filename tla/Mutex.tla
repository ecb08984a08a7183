------------------------------- MODULE Mutex -------------------------------
(***************************************************************************)
(* What the callers of FastCriticalSection (APIHooks/ntapi.h) rely on: a   *)
(* lock that has at most one owner, and that is given to a thread only     *)
(* after that thread has asked for it.                                     *)
(***************************************************************************)
CONSTANTS Threads,   \* the threads of the server process
          NoOwner    \* the value of owner while the lock is free

VARIABLES asked,     \* the threads that are inside Enter()
          owner      \* the thread between Enter() and Leave()

vars == <<asked, owner>>

Init == asked = {} /\ owner = NoOwner

Ask(t) ==
    /\ t \notin asked /\ owner # t
    /\ asked' = asked \cup {t}
    /\ UNCHANGED owner

Acquire(t) ==
    /\ owner = NoOwner
    /\ t \in asked
    /\ asked' = asked \ {t}
    /\ owner' = t

\* InterlockedIncrement found the lock free: asking and acquiring are one step.
TryAcquire(t) ==
    /\ owner = NoOwner /\ t \notin asked
    /\ owner' = t
    /\ UNCHANGED asked

Release(t) ==
    /\ owner = t
    /\ owner' = NoOwner
    /\ UNCHANGED asked

Next == \E t \in Threads : Ask(t) \/ Acquire(t) \/ TryAcquire(t) \/ Release(t)

Spec == Init /\ [][Next]_vars
=============================================================================
