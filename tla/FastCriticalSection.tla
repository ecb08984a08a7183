------------------------ MODULE FastCriticalSection ------------------------
(***************************************************************************)
(* The lock that guards every shared table of the server (files_cs,        *)
(* conns_cs, enum_cs, temp_cs, the lock of each open file, ...): a counter *)
(* of contenders plus an auto-reset event, APIHooks/ntapi.h.               *)
(*                                                                         *)
(* Enter() is two steps, the interlocked increment and, when the result is *)
(* above one, the wait; Leave() is two steps, the interlocked decrement    *)
(* and, when the result is not zero, ZwSetEvent.  Any other thread can run *)
(* between the two.                                                        *)
(***************************************************************************)
EXTENDS Naturals, FiniteSets

CONSTANTS Threads,   \* the threads that share the lock
          NoOwner    \* the abstract lock's owner while it is free

ASSUME ThreadsAssumption == IsFiniteSet(Threads) /\ NoOwner \notin Threads

VARIABLES lockCount, \* _uLockCount
          event,     \* is the synchronization event _hEvent signalled
          pc         \* where each thread is

vars == <<lockCount, event, pc>>

At(where) == {t \in Threads : pc[t] = where}

Init ==
    /\ lockCount = 0
    /\ event = FALSE
    /\ pc = [t \in Threads |-> "outside"]

----------------------------------------------------------------------------
\* Slips this lock is easily written with, which the checks must notice; no
\* definition of the lock uses them.  Enter tests the counter's old value:
Enter_TestsOldValue(t) ==
    /\ pc[t] = "outside"
    /\ lockCount' = lockCount + 1
    /\ pc' = [pc EXCEPT ![t] = IF lockCount > 1 THEN "waiting" ELSE "inside"]
    /\ UNCHANGED event

\* ... a NotificationEvent in place of the SynchronizationEvent:
Wait_ManualReset(t) ==
    /\ pc[t] = "waiting"
    /\ event
    /\ pc' = [pc EXCEPT ![t] = "inside"]
    /\ UNCHANGED <<event, lockCount>>

\* ... Leave signals whatever the decrement returned:
Leave_AlwaysSignals(t) ==
    /\ pc[t] = "inside"
    /\ lockCount' = lockCount - 1
    /\ pc' = [pc EXCEPT ![t] = "signalling"]
    /\ UNCHANGED event

\* ... Leave tests "more than one left", as Enter does:
Leave_SkipsLastWaiter(t) ==
    /\ pc[t] = "inside"
    /\ lockCount' = lockCount - 1
    /\ pc' = [pc EXCEPT ![t] = IF lockCount' > 1 THEN "signalling" ELSE "outside"]
    /\ UNCHANGED event

----------------------------------------------------------------------------
\* Enter(): InterlockedIncrement(&_uLockCount) > 1 is the test to wait.
Enter(t) ==
    /\ pc[t] = "outside"
    /\ lockCount' = lockCount + 1
    /\ pc' = [pc EXCEPT ![t] = IF lockCount' > 1 THEN "waiting" ELSE "inside"]
    /\ UNCHANGED event

\* ZwWaitForSingleObject(_hEvent) returns and resets the event.
Wait(t) ==
    /\ pc[t] = "waiting"
    /\ event
    /\ event' = FALSE
    /\ pc' = [pc EXCEPT ![t] = "inside"]
    /\ UNCHANGED lockCount

\* Leave(): if(InterlockedDecrement(&_uLockCount)), the event is still to set.
Leave(t) ==
    /\ pc[t] = "inside"
    /\ lockCount' = lockCount - 1
    /\ pc' = [pc EXCEPT ![t] = IF lockCount' # 0 THEN "signalling" ELSE "outside"]
    /\ UNCHANGED event

\* ZwSetEvent(_hEvent): setting a signalled event has no effect.
SetEvent(t) ==
    /\ pc[t] = "signalling"
    /\ event' = TRUE
    /\ pc' = [pc EXCEPT ![t] = "outside"]
    /\ UNCHANGED lockCount

Next == \E t \in Threads : Enter(t) \/ Wait(t) \/ Leave(t) \/ SetEvent(t)

Spec == Init /\ [][Next]_vars

\* A critical section ends and a signalling thread goes on (WF); a thread the
\* event could wake infinitely often is woken (SF): the kernel releases the
\* waiters of an event in the order of their arrival.  No thread has to Enter.
Fairness ==
    \A t \in Threads :
        /\ WF_vars(Leave(t))
        /\ WF_vars(SetEvent(t))
        /\ SF_vars(Wait(t))

FairSpec == Spec /\ Fairness

----------------------------------------------------------------------------
TypeOK ==
    /\ lockCount \in Nat
    /\ event \in BOOLEAN
    /\ pc \in [Threads -> {"outside", "waiting", "inside", "signalling"}]

\* No two threads are ever between Enter and Leave of one critical section.
MutualExclusion == \A t, u \in At("inside") : t = u

\* ZwSetEvent never finds the event already signalled: a second set of an
\* auto-reset event would be lost, and with it the waiter it was meant for.
NoLostWakeup == At("signalling") # {} => ~event

\* The argument that makes the two above hold.  The counter counts the
\* contenders, and while there are some exactly one token exists: a thread
\* inside, a thread about to signal, or the signalled event.
Contenders == At("waiting") \cup At("inside")
Holders    == At("inside") \cup At("signalling")

IInv ==
    /\ TypeOK
    /\ lockCount = Cardinality(Contenders)
    /\ \A t, u \in Holders : t = u
    /\ event => Holders = {}
    /\ event => Contenders # {}
    /\ At("signalling") # {} => Contenders # {}
    /\ Contenders # {} => event \/ Holders # {}

\* The lock implements Mutex: asked is who waits, owner who is inside.
Sole(S) == CHOOSE t \in S : TRUE

Owner == IF At("inside") = {} THEN NoOwner ELSE Sole(At("inside"))

M == INSTANCE Mutex WITH asked <- At("waiting"), owner <- Owner

\* Every behaviour of the counter-and-event lock is one of the abstract lock.
ImplementsMutex == M!Spec

\* A thread that waits in Enter gets the lock, however the others come and go.
WaiterEnters == \A t \in Threads : pc[t] = "waiting" ~> pc[t] = "inside"
=============================================================================
