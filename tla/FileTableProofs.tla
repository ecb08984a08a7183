-------------------------- MODULE FileTableProofs --------------------------
(***************************************************************************)
(* For any number of threads, handles and files: busy_cnt counts the users *)
(* of a file, a FileLocker keeps its file in the table, and no thread      *)
(* takes away the connection of an operation that is under way.            *)
(***************************************************************************)
EXTENDS FileTable, FiniteSetTheorems, TLAPS

\* busy_cnt can be compared with a cardinality in any state.
LEMMA LockersFinite == \A f : IsFiniteSet(Lockers(f))
  BY FileTableAssumption, FS_Subset DEF Lockers

\* A thread is not NoThread, a handle not NoHandle, a file not NoFile.
LEMMA NotNone ==
    /\ \A t \in Threads : t # NoThread
    /\ \A h \in Handles : h # NoHandle
    /\ \A f \in Files : f # NoFile
  BY FileTableAssumption

\* Nobody holds or awaits a lock when the server starts.
LEMMA InitIInv == Init => IInv
  <1> SUFFICES ASSUME Init PROVE IInv
    OBVIOUS
  <1>1. \A f \in Files : Lockers(f) = {}
    BY DEF Init, Lockers, Locked
  <1>2. \A f \in Files : Cardinality(Lockers(f)) = 0
    BY <1>1, FS_EmptySet
  <1>3. TypeOK
    BY DEF Init, TypeOK, Places, Operations
  <1>4. BusyCountsLockers
    BY <1>2 DEF Init, BusyCountsLockers
  <1>5. LockIsHeld
    BY NotNone DEF Init, LockIsHeld
  <1>6. LockerKeepsItsFile /\ OneHandleEach /\ ReferencesAreLocal
    BY DEF Init, LockerKeepsItsFile, OneHandleEach, ReferencesAreLocal, Locked
  <1>7. QED
    BY <1>3, <1>4, <1>5, <1>6 DEF IInv

----------------------------------------------------------------------------
\* PutOurFile: the new file has no locker, the new handle had no file.
LEMMA OpenFileIInv ==
    ASSUME IInv, NEW t \in Threads, NEW h \in Handles, NEW f \in Files,
           OpenFile(t, h, f)
    PROVE  IInv'
  <1> USE DEF Goto, Return
  <1>1. TypeOK'
    <2> USE DEF OpenFile, IInv, TypeOK
    <2>1. filesMap' \in [Handles -> Files \cup {NoFile}] /\ busyCnt' \in [Files -> Nat]
      OBVIOUS
    <2>2. at' \in [Threads -> Places] /\ op' \in [Threads -> Operations]
      BY DEF Places, Operations
    <2>3. /\ hnd' \in [Threads -> Handles \cup {NoHandle}]
          /\ \A u \in Threads : at'[u] # "idle" => hnd'[u] \in Handles
      OBVIOUS
    <2>4. /\ file' \in [Threads -> Files \cup {NoFile}] /\ ok' \in [Threads -> BOOLEAN]
      OBVIOUS
    <2>5. QED
      BY <2>1, <2>2, <2>3, <2>4
  <1>2. \A u \in Threads : Locked(u)' <=> Locked(u)
    BY DEF OpenFile, Locked, IInv, TypeOK
  <1>3. \A u \in Threads : Locked(u) => u # t /\ hnd[u] # h /\ hnd'[u] = hnd[u] /\ file'[u] = file[u]
    BY NotNone DEF OpenFile, Locked, IInv, TypeOK, LockerKeepsItsFile, ReferencesAreLocal
  <1>4. LockerKeepsItsFile'
    BY <1>2, <1>3 DEF OpenFile, IInv, TypeOK, LockerKeepsItsFile
  <1>5. \A g : Lockers(g)' = Lockers(g)
    BY <1>2, <1>3 DEF Lockers
  <1>6. Lockers(f) = {}
    BY DEF OpenFile, Unreferenced, Lockers
  <1>7. BusyCountsLockers'
    BY <1>5, <1>6, FS_EmptySet DEF OpenFile, IInv, TypeOK, BusyCountsLockers
  <1>8. LockIsHeld'
    BY <1>3 DEF OpenFile, IInv, TypeOK, LockIsHeld, Locked
  <1>9. OneHandleEach'
    BY DEF OpenFile, Unreferenced, IInv, TypeOK, OneHandleEach
  <1>10. ReferencesAreLocal'
    BY NotNone DEF OpenFile, IInv, TypeOK, ReferencesAreLocal, Locked
  <1>11. QED
    BY <1>1, <1>4, <1>7, <1>8, <1>9, <1>10 DEF IInv

\* Steps that touch neither the table nor a lock: the MKD and its connection,
\* the return to the caller, the call.
LEMMA LocalStepIInv ==
    ASSUME IInv, NEW t \in Threads,
           \/ Connect(t) \/ MakeDirectory(t) \/ Resume(t) \/ Disconnect(t)
           \/ \E o \in {"use", "close"}, h \in Handles : Call(t, o, h)
    PROVE  IInv'
  <1> USE DEF Goto, Return, Connect, MakeDirectory, Resume, Disconnect, Call
  <1>1. TypeOK'
    <2> USE DEF IInv, TypeOK
    <2>1. online' \subseteq Files
      <3>1. at[t] = "making" \/ at[t] = "body" => file[t] \in Files
        BY DEF ReferencesAreLocal, Locked
      <3>2. QED
        BY <3>1
    <2>2. at' \in [Threads -> Places] /\ op' \in [Threads -> Operations]
      BY DEF Places, Operations
    <2>3. /\ hnd' \in [Threads -> Handles \cup {NoHandle}]
          /\ \A u \in Threads : at'[u] # "idle" => hnd'[u] \in Handles
      OBVIOUS
    <2>4. /\ file' \in [Threads -> Files \cup {NoFile}] /\ ok' \in [Threads -> BOOLEAN]
      OBVIOUS
    <2>5. QED
      BY <2>1, <2>2, <2>3, <2>4
  <1>2. \A u \in Threads : Locked(u)' <=> Locked(u)
    BY DEF Locked, IInv, TypeOK
  <1>3. \A u \in Threads : Locked(u) => hnd'[u] = hnd[u] /\ file'[u] = file[u]
    BY DEF Locked, IInv, TypeOK
  <1>4. \A u \in Threads : file'[u] = file[u] \/ (file'[u] = NoFile /\ at'[u] # "making")
    BY NotNone DEF IInv, TypeOK
  <1>5. LockerKeepsItsFile'
    BY <1>2, <1>3 DEF IInv, LockerKeepsItsFile
  <1>6. \A g : Lockers(g)' = Lockers(g)
    BY <1>2, <1>3 DEF Lockers, Locked, IInv, TypeOK
  <1>7. BusyCountsLockers'
    BY <1>6 DEF IInv, BusyCountsLockers
  <1>8. LockIsHeld'
    BY <1>2, <1>3 DEF IInv, LockIsHeld, Locked, TypeOK
  <1>9. OneHandleEach'
    BY DEF IInv, OneHandleEach
  <1>10. ReferencesAreLocal'
    BY DEF IInv, TypeOK, ReferencesAreLocal, Locked
  <1>11. QED
    BY <1>1, <1>5, <1>7, <1>8, <1>9, <1>10 DEF IInv

\* FileLocker counts itself before it waits.
LEMMA LockFileIInv ==
    ASSUME IInv, NEW t \in Threads, LockFile(t)
    PROVE  IInv'
  <1> USE DEF Goto, Return
  <1> DEFINE f == filesMap[hnd[t]]
  <1>0. hnd[t] \in Handles /\ f \in Files \cup {NoFile}
    BY DEF LockFile, IInv, TypeOK
  <1>1. TypeOK'
    <2> USE DEF LockFile, IInv, TypeOK
    <2>1. busyCnt' \in [Files -> Nat] /\ file' \in [Threads -> Files \cup {NoFile}]
      BY <1>0
    <2>2. at' \in [Threads -> Places] /\ ok' \in [Threads -> BOOLEAN]
      BY DEF Places
    <2>3. \A u \in Threads : at'[u] # "idle" => hnd'[u] \in Handles
      BY <1>0
    <2>4. QED
      BY <2>1, <2>2, <2>3
  <1>2. CASE f = NoFile
    <2>1. \A u \in Threads : Locked(u)' <=> Locked(u)
      BY <1>2 DEF LockFile, Locked, IInv, TypeOK
    <2>2. UNCHANGED <<filesMap, busyCnt, fileCs, hnd, file>>
      BY <1>2 DEF LockFile
    <2>3. \A g : Lockers(g)' = Lockers(g)
      BY <2>1, <2>2 DEF Lockers
    <2>4. LockerKeepsItsFile' /\ BusyCountsLockers'
      BY <2>1, <2>2, <2>3 DEF IInv, LockerKeepsItsFile, BusyCountsLockers
    <2>5. LockIsHeld' /\ OneHandleEach' /\ ReferencesAreLocal'
      BY <1>2, <2>1, <2>2
      DEF LockFile, IInv, TypeOK, LockIsHeld, OneHandleEach, ReferencesAreLocal, Locked
    <2>6. QED
      BY <1>1, <2>4, <2>5 DEF IInv
  <1>3. CASE f # NoFile
    <2>1. f \in Files
      BY <1>0, <1>3
    <2>2. Lockers(f)' = Lockers(f) \cup {t} /\ t \notin Lockers(f)
      BY <1>3 DEF LockFile, Lockers, Locked, IInv, TypeOK
    <2>3. \A g : g # f => Lockers(g)' = Lockers(g)
      BY <1>3 DEF LockFile, Lockers, Locked, IInv, TypeOK, ReferencesAreLocal
    <2>4. Cardinality(Lockers(f)') = Cardinality(Lockers(f)) + 1
      BY <2>2, LockersFinite, FS_AddElement
    <2>5. BusyCountsLockers'
      BY <1>3, <2>1, <2>3, <2>4 DEF LockFile, IInv, TypeOK, BusyCountsLockers
    <2>6. LockerKeepsItsFile'
      BY <1>3 DEF LockFile, IInv, TypeOK, LockerKeepsItsFile, Locked
    <2>7. LockIsHeld'
      BY <1>3 DEF LockFile, IInv, TypeOK, LockIsHeld
    <2>8. OneHandleEach' /\ ReferencesAreLocal'
      BY <1>3 DEF LockFile, IInv, TypeOK, OneHandleEach, ReferencesAreLocal, Locked
    <2>9. QED
      BY <1>1, <2>5, <2>6, <2>7, <2>8 DEF IInv
  <1>4. QED
    BY <1>2, <1>3

\* The file's lock was free: the one thread in it is the one that enters.
LEMMA EnterFileIInv ==
    ASSUME IInv, NEW t \in Threads, EnterFile(t)
    PROVE  IInv'
  <1> USE DEF Goto
  <1>1. file[t] \in Files
    BY DEF EnterFile, IInv, TypeOK, ReferencesAreLocal, Locked
  <1>2. TypeOK'
    BY <1>1 DEF EnterFile, IInv, TypeOK, Places
  <1>3. \A u \in Threads : Locked(u)' <=> Locked(u)
    BY DEF EnterFile, Locked, IInv, TypeOK
  <1>4. \A g : Lockers(g)' = Lockers(g)
    BY <1>3 DEF EnterFile, Lockers
  <1>5. LockerKeepsItsFile' /\ BusyCountsLockers'
    BY <1>3, <1>4 DEF EnterFile, IInv, LockerKeepsItsFile, BusyCountsLockers
  <1>6. LockIsHeld'
    BY <1>1, NotNone DEF EnterFile, IInv, TypeOK, LockIsHeld
  <1>7. OneHandleEach' /\ ReferencesAreLocal'
    BY <1>3 DEF EnterFile, IInv, TypeOK, OneHandleEach, ReferencesAreLocal, Locked
  <1>8. QED
    BY <1>2, <1>5, <1>6, <1>7 DEF IInv

\* ~FileLocker finds the file it locked, still in the table.
LEMMA UnlockFileIInv ==
    ASSUME IInv, NEW t \in Threads, UnlockFile(t)
    PROVE  IInv'
  <1> USE DEF Goto, Return
  <1>1. PICK f \in Files : f = file[t] /\ f = filesMap[hnd[t]] /\ f # NoFile
    BY NotNone DEF UnlockFile, IInv, TypeOK, LockerKeepsItsFile, ReferencesAreLocal, Locked
  <1>2. /\ busyCnt' = [busyCnt EXCEPT ![f] = @ - 1]
        /\ fileCs' = [fileCs EXCEPT ![f] = NoThread]
    BY <1>1 DEF UnlockFile
  <1>3. Lockers(f)' = Lockers(f) \ {t} /\ t \in Lockers(f)
    BY <1>1 DEF UnlockFile, Lockers, Locked, IInv, TypeOK
  <1>4. \A g : g # f => Lockers(g)' = Lockers(g)
    BY <1>1 DEF UnlockFile, Lockers, Locked, IInv, TypeOK
  <1>5. Cardinality(Lockers(f)') = Cardinality(Lockers(f)) - 1
    BY <1>3, LockersFinite, FS_RemoveElement
  <1>6. Cardinality(Lockers(f)') \in Nat
    BY LockersFinite, <1>3, FS_RemoveElement, FS_CardinalityType
  <1>7. busyCnt'[f] = Cardinality(Lockers(f)')
    BY <1>1, <1>2, <1>5 DEF IInv, TypeOK, BusyCountsLockers
  <1>8. TypeOK'
    <2> USE DEF UnlockFile, IInv, TypeOK
    <2>1. busyCnt' \in [Files -> Nat] /\ fileCs' \in [Files -> Threads \cup {NoThread}]
      BY <1>1, <1>2, <1>6, <1>7
    <2>2. at' \in [Threads -> Places] /\ ok' \in [Threads -> BOOLEAN]
      BY DEF Places
    <2>3. \A u \in Threads : at'[u] # "idle" => hnd'[u] \in Handles
      OBVIOUS
    <2>4. QED
      BY <2>1, <2>2, <2>3
  <1>9. BusyCountsLockers'
    <2> SUFFICES ASSUME NEW g \in Files PROVE busyCnt'[g] = Cardinality(Lockers(g)')
      BY DEF BusyCountsLockers
    <2>1. CASE g = f
      BY <1>7, <2>1
    <2>2. CASE g # f
      BY <1>2, <1>4, <2>2 DEF IInv, TypeOK, BusyCountsLockers
    <2>3. QED
      BY <2>1, <2>2
  <1>10. LockerKeepsItsFile'
    BY <1>1 DEF UnlockFile, IInv, TypeOK, LockerKeepsItsFile, Locked
  <1>11. LockIsHeld'
    <2> SUFFICES ASSUME NEW g \in Files, NEW u \in Threads
                 PROVE  fileCs'[g] = u <=> at'[u] = "body" /\ file'[u] = g
      BY DEF LockIsHeld
    <2>1. fileCs[g] = u <=> at[u] = "body" /\ file[u] = g
      BY DEF IInv, LockIsHeld
    <2>2. fileCs'[g] = IF g = f THEN NoThread ELSE fileCs[g]
      BY <1>1, <1>2 DEF IInv, TypeOK
    <2>3. at[t] = "body" /\ at'[t] # "body" /\ file'[t] = NoFile
      BY DEF UnlockFile, IInv, TypeOK
    <2>4. u # t => at'[u] = at[u] /\ file'[u] = file[u]
      BY DEF UnlockFile, IInv, TypeOK
    <2>5. fileCs[f] = t
      BY <1>1, <2>3 DEF IInv, LockIsHeld
    <2>6. QED
      BY <1>1, <2>1, <2>2, <2>3, <2>4, <2>5, NotNone
  <1>12. OneHandleEach' /\ ReferencesAreLocal'
    BY <1>1 DEF UnlockFile, IInv, TypeOK, OneHandleEach, ReferencesAreLocal, Locked
  <1>13. QED
    BY <1>8, <1>9, <1>10, <1>11, <1>12 DEF IInv

\* TryCloseOurFile erases a handle only when no locker has it.
LEMMA CloseOurFileIInv ==
    ASSUME IInv, NEW t \in Threads, CloseOurFile(t)
    PROVE  IInv'
  <1> USE DEF Goto, Return
  <1> DEFINE f == filesMap[hnd[t]]
  <1>0. hnd[t] \in Handles /\ f \in Files \cup {NoFile}
    BY DEF CloseOurFile, IInv, TypeOK
  <1>1. TypeOK'
    <2> USE DEF CloseOurFile, IInv, TypeOK
    <2>1. filesMap' \in [Handles -> Files \cup {NoFile}] /\ online' \subseteq Files
      BY <1>0
    <2>2. at' \in [Threads -> Places]
      BY DEF Places
    <2>3. ok' \in [Threads -> BOOLEAN]
      OBVIOUS
    <2>4. \A u \in Threads : at'[u] # "idle" => hnd'[u] \in Handles
      BY <1>0
    <2>5. QED
      BY <2>1, <2>2, <2>3, <2>4
  <1>2. \A u \in Threads : Locked(u)' <=> Locked(u)
    BY DEF CloseOurFile, Locked, IInv, TypeOK
  <1>3. \A g : Lockers(g)' = Lockers(g)
    BY <1>2 DEF CloseOurFile, Lockers
  <1>4. ASSUME NEW u \in Threads, Locked(u) PROVE filesMap'[hnd[u]] = filesMap[hnd[u]]
    <2>1. u \in Lockers(file[u]) /\ file[u] \in Files /\ filesMap[hnd[u]] = file[u]
      BY <1>4, NotNone DEF IInv, TypeOK, Lockers, ReferencesAreLocal, LockerKeepsItsFile
    <2>2. busyCnt[file[u]] # 0
      BY <2>1, LockersFinite, FS_EmptySet DEF IInv, BusyCountsLockers
    <2>3. hnd[u] \in Handles
      BY <2>1, <1>4 DEF Locked, IInv, TypeOK
    <2>4. filesMap' = filesMap \/ (f # file[u] /\ filesMap' = [filesMap EXCEPT ![hnd[t]] = NoFile])
      BY <2>2 DEF CloseOurFile
    <2>5. QED
      BY <1>0, <2>1, <2>3, <2>4 DEF IInv, TypeOK
  <1>5. LockerKeepsItsFile'
    BY <1>2, <1>4 DEF CloseOurFile, IInv, LockerKeepsItsFile
  <1>6. BusyCountsLockers'
    BY <1>3 DEF CloseOurFile, IInv, BusyCountsLockers
  <1>7. LockIsHeld'
    BY DEF CloseOurFile, IInv, TypeOK, LockIsHeld
  <1>8. OneHandleEach' /\ ReferencesAreLocal'
    BY <1>0, <1>2 DEF CloseOurFile, IInv, TypeOK, OneHandleEach, ReferencesAreLocal, Locked
  <1>9. QED
    BY <1>1, <1>5, <1>6, <1>7, <1>8 DEF IInv

\* Suspending changes nothing but the connections.
LEMMA OnlineOnlyIInv ==
    ASSUME IInv, online' \subseteq online,
           UNCHANGED <<filesMap, busyCnt, fileCs, at, op, hnd, file, ok>>
    PROVE  IInv'
  <1>1. TypeOK'
    BY DEF IInv, TypeOK
  <1>2. \A g : Lockers(g)' = Lockers(g)
    BY DEF Lockers, Locked
  <1>3. QED
    BY <1>1, <1>2
    DEF IInv, LockerKeepsItsFile, BusyCountsLockers, LockIsHeld, OneHandleEach,
        ReferencesAreLocal, Locked

LEMMA NextIInv == IInv /\ [Next]_vars => IInv'
  <1> SUFFICES ASSUME IInv, [Next]_vars PROVE IInv'
    OBVIOUS
  <1>1. ASSUME NEW t \in Threads, ThreadStep(t) PROVE IInv'
    BY <1>1, LocalStepIInv, LockFileIInv, EnterFileIInv, UnlockFileIInv, CloseOurFileIInv
    DEF ThreadStep
  <1>2. ASSUME NEW t \in Threads, Resume(t) PROVE IInv'
    BY <1>2, LocalStepIInv
  <1>3. ASSUME NEW t \in Threads, NEW h \in Handles, NEW o \in {"use", "close"},
               Call(t, o, h)
        PROVE  IInv'
    BY <1>3, LocalStepIInv
  <1>4. ASSUME NEW t \in Threads, NEW h \in Handles, NEW f \in Files, OpenFile(t, h, f)
        PROVE  IInv'
    BY <1>4, OpenFileIInv
  <1>5. ASSUME NEW S \in SUBSET Handles, SuspendFiles(S) PROVE IInv'
    BY <1>5, OnlineOnlyIInv DEF SuspendFiles
  <1>6. CASE UNCHANGED vars
    BY <1>6, OnlineOnlyIInv DEF vars
  <1>7. QED
    BY <1>1, <1>2, <1>3, <1>4, <1>5, <1>6 DEF Next

----------------------------------------------------------------------------
\* The table, the counters, the locks and the threads always fit together.
THEOREM InductiveInvariant == Spec => []IInv
  <1>1. QED
    BY InitIInv, NextIInv, PTL DEF Spec

\* A FileLocker's handle stays its file's handle until ~FileLocker.
THEOREM LockerKeepsItsFileHolds == Spec => []LockerKeepsItsFile
  <1>1. IInv => LockerKeepsItsFile
    BY DEF IInv
  <1>2. QED
    BY <1>1, InductiveInvariant, PTL

\* busy_cnt is exactly the number of threads that use the file.
THEOREM BusyCountsLockersHolds == Spec => []BusyCountsLockers
  <1>1. IInv => BusyCountsLockers
    BY DEF IInv
  <1>2. QED
    BY <1>1, InductiveInvariant, PTL

\* The step version of NobodyElseDisconnects: what a locker has keeps busy_cnt
\* above zero, and the closing and the suspending code respect that.
DisconnectedByUser(t) ==
    \/ Disconnect(t)
    \/ \E u \in Threads : MakeDirectory(u) /\ file[u] = file[t]

LEMMA BusyWhileLocked ==
    ASSUME IInv, NEW t \in Threads, at[t] = "body"
    PROVE  /\ file[t] \in Files
           /\ busyCnt[file[t]] # 0
           /\ fileCs[file[t]] = t
  <1>1. file[t] \in Files /\ t \in Lockers(file[t])
    BY NotNone DEF IInv, TypeOK, ReferencesAreLocal, Lockers, Locked
  <1>2. QED
    BY <1>1, LockersFinite, FS_EmptySet DEF IInv, BusyCountsLockers, LockIsHeld

LEMMA StepDisconnects ==
    ASSUME IInv, [Next]_vars, NEW t \in Threads,
           at[t] = "body", at'[t] = "body", file[t] \in online \ online'
    PROVE  DisconnectedByUser(t)
  <1> USE DEF DisconnectedByUser
  <1>1. /\ file[t] \in Files /\ busyCnt[file[t]] # 0 /\ fileCs[file[t]] = t
    BY BusyWhileLocked
  <1>2. ASSUME NEW u \in Threads, Disconnect(u) PROVE DisconnectedByUser(t)
    <2>1. file[u] = file[t]
      BY <1>2 DEF Disconnect
    <2>2. u = t
      BY <1>1, <1>2, <2>1 DEF Disconnect, IInv, LockIsHeld
    <2>3. QED
      BY <1>2, <2>2
  <1>3. ASSUME NEW u \in Threads, MakeDirectory(u) PROVE DisconnectedByUser(t)
    BY <1>3 DEF MakeDirectory
  <1>4. ASSUME NEW u \in Threads, CloseOurFile(u) PROVE FALSE
    BY <1>1, <1>4 DEF CloseOurFile
  <1>5. ASSUME NEW S \in SUBSET Handles, SuspendFiles(S) PROVE FALSE
    BY <1>1, <1>5 DEF SuspendFiles, Idle
  <1>6. ASSUME NEW u \in Threads,
               \/ Connect(u) \/ LockFile(u) \/ EnterFile(u) \/ UnlockFile(u) \/ Resume(u)
               \/ \E o \in {"use", "close"}, h \in Handles : Call(u, o, h)
               \/ \E h \in Handles, f \in Files : OpenFile(u, h, f)
        PROVE  FALSE
    BY <1>6 DEF Connect, LockFile, EnterFile, UnlockFile, Resume, Call, OpenFile
  <1>7. CASE UNCHANGED vars
    BY <1>7 DEF vars
  <1>8. QED
    BY <1>2, <1>3, <1>4, <1>5, <1>6, <1>7 DEF Next, ThreadStep

\* No thread takes away the connection an operation under the file's lock
\* works on, except MKD, which uses its file without the lock.
THEOREM NobodyElseDisconnectsHolds == Spec => NobodyElseDisconnects
  <1>1. IInv /\ [Next]_vars =>
          [\A t \in Threads :
              at[t] = "body" /\ at'[t] = "body" /\ file[t] \in online \ online' =>
                  \/ Disconnect(t)
                  \/ \E u \in Threads : MakeDirectory(u) /\ file[u] = file[t]]_vars
    BY StepDisconnects DEF DisconnectedByUser
  <1>2. QED
    BY <1>1, InductiveInvariant, PTL DEF Spec, NobodyElseDisconnects
=============================================================================
