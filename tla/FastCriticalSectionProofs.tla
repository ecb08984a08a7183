--------------------- MODULE FastCriticalSectionProofs ---------------------
(***************************************************************************)
(* For every finite set of threads: the lock's counter and event keep at   *)
(* most one thread inside, never lose a wake-up, and implement Mutex.      *)
(***************************************************************************)
EXTENDS FastCriticalSection, FiniteSetTheorems, TLAPS

\* The contenders of any state are a finite set, so the counter can be
\* compared with their cardinality.
LEMMA ContendersFinite == IsFiniteSet(Contenders)
  BY ThreadsAssumption, FS_Subset DEF Contenders, At

\* The counter is zero exactly when nobody contends.
LEMMA CountIsZero == IInv => (lockCount = 0 <=> Contenders = {})
  BY ContendersFinite, FS_EmptySet DEF IInv

\* Nobody contends at the start, so there is no token.
LEMMA InitIInv == Init => IInv
  <1> SUFFICES ASSUME Init PROVE IInv
    OBVIOUS
  <1>1. Contenders = {} /\ Holders = {} /\ At("signalling") = {}
    BY DEF Init, Contenders, Holders, At
  <1>2. Cardinality(Contenders) = 0
    BY <1>1, FS_EmptySet
  <1>3. QED
    BY <1>1, <1>2 DEF Init, IInv, TypeOK

\* The inductive step, one case per action of a thread.
LEMMA NextIInv == IInv /\ [Next]_vars => IInv'
  <1> SUFFICES ASSUME IInv, [Next]_vars PROVE IInv'
    OBVIOUS
  <1> USE DEF At
  <1>f. IsFiniteSet(Contenders) /\ IsFiniteSet(Contenders')
    BY ThreadsAssumption, FS_Subset DEF Contenders
  <1>z. lockCount = 0 <=> Contenders = {}
    BY CountIsZero
  <1>1. ASSUME NEW t \in Threads, Enter(t) PROVE IInv'
    <2>1. Contenders' = Contenders \cup {t} /\ t \notin Contenders
      BY <1>1 DEF Enter, IInv, TypeOK, Contenders
    <2>2. lockCount' = Cardinality(Contenders')
      BY <1>1, <1>f, <2>1, FS_AddElement DEF Enter, IInv
    <2>3. TypeOK'
      BY <1>1 DEF Enter, IInv, TypeOK
    <2>4. CASE lockCount' > 1
      <3>1. Holders' = Holders /\ At("signalling")' = At("signalling")
        BY <1>1, <2>4 DEF Enter, IInv, TypeOK, Holders
      <3>2. Contenders # {}
        BY <1>1, <1>z, <2>4 DEF Enter, IInv, TypeOK
      <3>3. QED
        BY <1>1, <2>1, <2>2, <2>3, <3>1, <3>2 DEF Enter, IInv
    <2>5. CASE ~(lockCount' > 1)
      <3>1. Contenders = {}
        BY <1>1, <1>z, <2>5 DEF Enter, IInv, TypeOK
      <3>2. Holders = {} /\ ~event
        BY <3>1 DEF IInv, Holders, Contenders
      <3>3. Holders' = {t} /\ At("signalling")' = {}
        BY <1>1, <2>5, <3>2 DEF Enter, IInv, TypeOK, Holders
      <3>4. QED
        BY <1>1, <2>1, <2>2, <2>3, <3>2, <3>3 DEF Enter, IInv
    <2>6. QED
      BY <2>4, <2>5
  <1>2. ASSUME NEW t \in Threads, Wait(t) PROVE IInv'
    <2>1. Contenders' = Contenders /\ t \in Contenders
      BY <1>2 DEF Wait, IInv, TypeOK, Contenders
    <2>2. Holders = {} /\ Holders' = {t} /\ At("signalling")' = {}
      BY <1>2 DEF Wait, IInv, TypeOK, Holders
    <2>3. TypeOK'
      BY <1>2 DEF Wait, IInv, TypeOK
    <2>4. QED
      BY <1>2, <2>1, <2>2, <2>3 DEF Wait, IInv
  <1>3. ASSUME NEW t \in Threads, Leave(t) PROVE IInv'
    <2>1. Contenders' = Contenders \ {t} /\ t \in Contenders
      BY <1>3 DEF Leave, IInv, TypeOK, Contenders
    <2>2. Cardinality(Contenders') = Cardinality(Contenders) - 1
      BY <1>f, <2>1, FS_RemoveElement
    <2>3. Cardinality(Contenders') \in Nat
      BY <1>f, FS_CardinalityType
    <2>4. lockCount' = Cardinality(Contenders')
      BY <1>3, <2>2 DEF Leave, IInv
    <2>5. TypeOK'
      BY <1>3, <2>3, <2>4 DEF Leave, IInv, TypeOK
    <2>6. Holders = {t} /\ ~event
      BY <1>3 DEF Leave, IInv, TypeOK, Holders
    <2>7. lockCount' # 0 <=> Contenders' # {}
      BY <1>f, <2>4, FS_EmptySet
    <2>8. Holders' = IF lockCount' # 0 THEN {t} ELSE {}
      BY <1>3, <2>6 DEF Leave, IInv, TypeOK, Holders
    <2>9. At("signalling")' \subseteq Holders'
      BY DEF Holders
    <2>10. QED
      BY <1>3, <2>4, <2>5, <2>6, <2>7, <2>8, <2>9 DEF Leave, IInv
  <1>4. ASSUME NEW t \in Threads, SetEvent(t) PROVE IInv'
    <2>1. Contenders' = Contenders
      BY <1>4 DEF SetEvent, IInv, TypeOK, Contenders
    <2>2. Contenders # {} /\ Holders = {t}
      BY <1>4 DEF SetEvent, IInv, TypeOK, Holders
    <2>3. Holders' = {} /\ At("signalling")' = {}
      BY <1>4, <2>2 DEF SetEvent, IInv, TypeOK, Holders
    <2>4. TypeOK'
      BY <1>4 DEF SetEvent, IInv, TypeOK
    <2>5. QED
      BY <1>4, <2>1, <2>2, <2>3, <2>4 DEF SetEvent, IInv
  <1>5. CASE UNCHANGED vars
    BY <1>5 DEF vars, IInv, TypeOK, Contenders, Holders
  <1>6. QED
    BY <1>1, <1>2, <1>3, <1>4, <1>5 DEF Next

\* The counter, the event and the threads always satisfy the argument.
THEOREM InductiveInvariant == Spec => []IInv
  <1>1. QED
    BY InitIInv, NextIInv, PTL DEF Spec

\* At most one thread at a time is between Enter and Leave of a critical
\* section, whatever the number of threads.
THEOREM MutualExclusionHolds == Spec => []MutualExclusion
  <1>1. IInv => MutualExclusion
    BY DEF IInv, Holders, MutualExclusion
  <1>2. QED
    BY <1>1, InductiveInvariant, PTL

\* ZwSetEvent is never called while the event is still signalled.
THEOREM NoLostWakeupHolds == Spec => []NoLostWakeup
  <1>1. IInv => NoLostWakeup
    BY DEF IInv, Holders, NoLostWakeup
  <1>2. QED
    BY <1>1, InductiveInvariant, PTL

----------------------------------------------------------------------------
\* Under the invariant the abstract owner is the thread inside, if any.
LEMMA SoleMember ==
    ASSUME NEW S, NEW t, S = {t}
    PROVE  Sole(S) = t
  BY DEF Sole

LEMMA AtMostOneInside ==
    IInv => \A t \in Threads : pc[t] = "inside" => At("inside") = {t}
  BY DEF IInv, Holders, At

\* A step of the counter-and-event lock is a step of Mutex or changes
\* nothing Mutex sees.
LEMMA StepSimulation == IInv /\ [Next]_vars => [M!Next]_(M!vars)
  <1> SUFFICES ASSUME IInv, [Next]_vars PROVE [M!Next]_(M!vars)
    OBVIOUS
  <1>1. ASSUME NEW t \in Threads, Enter(t) PROVE [M!Next]_(M!vars)
    <2>1. CASE lockCount' > 1
      <3>1. At("waiting")' = At("waiting") \cup {t} /\ t \notin At("waiting")
        BY <1>1, <2>1 DEF Enter, IInv, TypeOK, At
      <3>2. At("inside")' = At("inside") /\ t \notin At("inside")
        BY <1>1, <2>1 DEF Enter, IInv, TypeOK, At
      <3>3. Owner' = Owner
        BY <3>2 DEF Owner
      <3>4. Owner # t
        <4>1. CASE At("inside") = {}
          BY <4>1, ThreadsAssumption DEF Owner
        <4>2. ASSUME NEW u \in At("inside") PROVE Owner # t
          <5>1. At("inside") = {u}
            BY AtMostOneInside DEF At
          <5>2. QED
            BY <5>1, <3>2, SoleMember DEF Owner
        <4>3. QED
          BY <4>1, <4>2
      <3>5. M!Ask(t)
        BY <3>1, <3>3, <3>4 DEF M!Ask
      <3>6. QED
        BY <3>5 DEF M!Next
    <2>2. CASE ~(lockCount' > 1)
      <3>1. Contenders = {}
        BY <1>1, <2>2, CountIsZero DEF Enter, IInv, TypeOK
      <3>2. At("inside") = {} /\ At("waiting") = {}
        BY <3>1 DEF Contenders
      <3>3. At("waiting")' = {} /\ At("inside")' = {t}
        BY <1>1, <2>2, <3>2 DEF Enter, IInv, TypeOK, At
      <3>4. Owner = NoOwner /\ Owner' = t
        BY <3>2, <3>3, SoleMember DEF Owner
      <3>5. M!TryAcquire(t)
        BY <3>2, <3>3, <3>4 DEF M!TryAcquire
      <3>6. QED
        BY <3>5 DEF M!Next
    <2>3. QED
      BY <2>1, <2>2
  <1>2. ASSUME NEW t \in Threads, Wait(t) PROVE [M!Next]_(M!vars)
    <2>1. At("inside") = {}
      BY <1>2 DEF Wait, IInv, Holders
    <2>2. At("inside")' = {t}
      BY <1>2, <2>1 DEF Wait, IInv, TypeOK, At
    <2>3. t \in At("waiting") /\ At("waiting")' = At("waiting") \ {t}
      BY <1>2 DEF Wait, IInv, TypeOK, At
    <2>4. Owner = NoOwner /\ Owner' = t
      BY <2>1, <2>2, SoleMember DEF Owner
    <2>5. M!Acquire(t)
      BY <2>3, <2>4 DEF M!Acquire
    <2>6. QED
      BY <2>5 DEF M!Next
  <1>3. ASSUME NEW t \in Threads, Leave(t) PROVE [M!Next]_(M!vars)
    <2>1. At("inside") = {t}
      BY <1>3, AtMostOneInside DEF Leave
    <2>2. At("inside")' = {}
      BY <1>3, <2>1 DEF Leave, IInv, TypeOK, At
    <2>3. At("waiting")' = At("waiting")
      BY <1>3 DEF Leave, IInv, TypeOK, At
    <2>4. Owner = t /\ Owner' = NoOwner
      BY <2>1, <2>2, SoleMember DEF Owner
    <2>5. M!Release(t)
      BY <2>3, <2>4 DEF M!Release
    <2>6. QED
      BY <2>5 DEF M!Next
  <1>4. ASSUME NEW t \in Threads, SetEvent(t) PROVE [M!Next]_(M!vars)
    <2>1. At("waiting")' = At("waiting") /\ At("inside")' = At("inside")
      BY <1>4 DEF SetEvent, IInv, TypeOK, At
    <2>2. Owner' = Owner
      BY <2>1 DEF Owner
    <2>3. QED
      BY <2>1, <2>2 DEF M!vars
  <1>5. CASE UNCHANGED vars
    <2>1. At("waiting")' = At("waiting") /\ At("inside")' = At("inside")
      BY <1>5 DEF vars, At
    <2>2. Owner' = Owner
      BY <2>1 DEF Owner
    <2>3. QED
      BY <2>1, <2>2 DEF M!vars
  <1>6. QED
    BY <1>1, <1>2, <1>3, <1>4, <1>5 DEF Next

\* The counter-and-event lock implements the abstract lock: every step of a
\* behaviour is Ask, Acquire, TryAcquire or Release of the thread that made it,
\* or invisible.
THEOREM LockImplementsMutex == Spec => ImplementsMutex
  <1>1. Init => M!Init
    <2>1. Init => At("waiting") = {} /\ At("inside") = {}
      BY DEF Init, At
    <2>2. QED
      BY <2>1 DEF M!Init, Owner
  <1>2. QED
    BY <1>1, StepSimulation, InductiveInvariant, PTL
    DEF Spec, ImplementsMutex, M!Spec
=============================================================================
