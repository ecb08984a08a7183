----------------------------- MODULE FileTable -----------------------------
(***************************************************************************)
(* The table of open files of the server (FtpFS/FtpWorks/files.cpp) under  *)
(* the most general client: any thread may open a file at any time, and    *)
(* may ask for any handle, a stale one included.                           *)
(*                                                                         *)
(* Three locks meet here.  files_cs makes each action below atomic; the    *)
(* file's own cs is held during an operation; busy_cnt, a plain counter    *)
(* under files_cs, is what the closing and the suspending code look at     *)
(* instead of the file's cs.                                               *)
(***************************************************************************)
EXTENDS Naturals, FiniteSets

CONSTANTS Threads,   \* request threads, process watchdogs, the cleaner
          Handles,   \* values AllocateHandle can return; a freed one returns
          Files,     \* FtpFile objects; an unreferenced one is allocated again
          NoFile, NoThread, NoHandle

ASSUME FileTableAssumption ==
    /\ IsFiniteSet(Threads) /\ NoThread \notin Threads
    /\ NoHandle \notin Handles
    /\ NoFile \notin Files

VARIABLES filesMap,  \* files_map: the file behind a handle, or NoFile
          busyCnt,   \* FtpFile::busy_cnt
          fileCs,    \* the thread inside FtpFile::cs, or NoThread
          online,    \* the files with a connection (sc_cmd or sc_data)
          at,        \* where each thread is in its operation
          op,        \* the operation
          hnd,       \* its handle
          file,      \* its local FtpFilePtr, or NoFile
          ok         \* did the thread's last operation succeed

vars == <<filesMap, busyCnt, fileCs, online, at, op, hnd, file, ok>>

\* "entry" is before the FileLocker, "wait" inside file->cs.Enter(), "body"
\* the operation under the lock, "making" the MKD of xxxOpenFile, which runs
\* on the new file without a lock, "closing" the loop of CloseOurFile, "done"
\* the return, with the result in ok.
Places == {"idle", "entry", "wait", "body", "making", "closing", "done"}
Operations == {"open", "use", "close", "undo"}

Locked(t) == at[t] \in {"wait", "body"}
Lockers(f) == {t \in Threads : Locked(t) /\ file[t] = f}

TypeOK ==
    /\ filesMap \in [Handles -> Files \cup {NoFile}]
    /\ busyCnt \in [Files -> Nat]
    /\ fileCs \in [Files -> Threads \cup {NoThread}]
    /\ online \subseteq Files
    /\ at \in [Threads -> Places]
    /\ op \in [Threads -> Operations]
    /\ hnd \in [Threads -> Handles \cup {NoHandle}]
    /\ \A t \in Threads : at[t] # "idle" => hnd[t] \in Handles
    /\ file \in [Threads -> Files \cup {NoFile}]
    /\ ok \in [Threads -> BOOLEAN]

Init ==
    /\ filesMap = [h \in Handles |-> NoFile]
    /\ busyCnt = [f \in Files |-> 0]
    /\ fileCs = [f \in Files |-> NoThread]
    /\ online = {}
    /\ at = [t \in Threads |-> "idle"]
    /\ op = [t \in Threads |-> "use"]
    /\ hnd = [t \in Threads |-> NoHandle]
    /\ file = [t \in Threads |-> NoFile]
    /\ ok = [t \in Threads |-> FALSE]

----------------------------------------------------------------------------
\* An action named A_Slip is A with a slip the checks must notice; it is no
\* part of the specification.
Goto(t, place) == at' = [at EXCEPT ![t] = place]

Return(t, success) ==
    /\ Goto(t, "done")
    /\ ok' = [ok EXCEPT ![t] = success]

\* The last shared_ptr to the FtpFile is gone.
Unreferenced(f) ==
    /\ \A h \in Handles : filesMap[h] # f
    /\ \A t \in Threads : file[t] # f

\* PutOurFile at the end of xxxOpenFile.  The new handle is returned, or MKD
\* is still to do, or the open turns out to be a collision or a denied write
\* and the handle is closed again before anyone else has seen it.
OpenFile(t, h, f) ==
    /\ at[t] = "idle"
    /\ filesMap[h] = NoFile
    /\ Unreferenced(f)
    /\ busyCnt' = [busyCnt EXCEPT ![f] = 0]
    /\ filesMap' = [filesMap EXCEPT ![h] = f]
    /\ hnd' = [hnd EXCEPT ![t] = h]
    /\ \/ /\ op' = [op EXCEPT ![t] = "open"]
          /\ Return(t, TRUE)
          /\ UNCHANGED file
       \/ /\ op' = [op EXCEPT ![t] = "open"]
          /\ Goto(t, "making")
          /\ file' = [file EXCEPT ![t] = f]
          /\ UNCHANGED ok
       \/ /\ op' = [op EXCEPT ![t] = "undo"]
          /\ Goto(t, "entry")
          /\ UNCHANGED <<file, ok>>
    /\ UNCHANGED <<fileCs, online>>

\* The MKD of xxxOpenFile gets a connection for the file, and ends well, or
\* resets the file's connections and closes the handle.
Connect(t) ==
    /\ at[t] = "making" \/ (at[t] = "body" /\ op[t] = "use")
    /\ file[t] \notin online
    /\ online' = online \cup {file[t]}
    /\ UNCHANGED <<filesMap, busyCnt, fileCs, at, op, hnd, file, ok>>

MakeDirectory(t) ==
    /\ at[t] = "making"
    /\ file' = [file EXCEPT ![t] = NoFile]
    /\ \/ /\ file[t] \in online
          /\ Return(t, TRUE)
          /\ UNCHANGED <<online, op>>
       \/ /\ online' = online \ {file[t]}
          /\ op' = [op EXCEPT ![t] = "undo"]
          /\ Goto(t, "entry")
          /\ UNCHANGED ok
    /\ UNCHANGED <<filesMap, busyCnt, fileCs, hnd>>

\* The caller takes the result.
Resume(t) ==
    /\ at[t] = "done"
    /\ Goto(t, "idle")
    /\ op' = [op EXCEPT ![t] = "use"]
    /\ hnd' = [hnd EXCEPT ![t] = NoHandle]
    /\ ok' = [ok EXCEPT ![t] = FALSE]
    /\ UNCHANGED <<filesMap, busyCnt, fileCs, online, file>>

\* Any of the other xxx... functions is called with a handle.
Call(t, operation, h) ==
    /\ at[t] = "idle"
    /\ op' = [op EXCEPT ![t] = operation]
    /\ hnd' = [hnd EXCEPT ![t] = h]
    /\ Goto(t, "entry")
    /\ UNCHANGED <<filesMap, busyCnt, fileCs, online, file, ok>>

\* FileLocker: the part under files_cs, and the wait for the file's lock.
LockFile_WithoutCount(t) ==
    LET f == filesMap[hnd[t]] IN
    /\ at[t] = "entry"
    /\ \/ /\ f # NoFile
          /\ file' = [file EXCEPT ![t] = f]
          /\ Goto(t, "wait")
          /\ UNCHANGED ok
       \/ /\ f = NoFile
          /\ Return(t, FALSE)
          /\ UNCHANGED file
    /\ UNCHANGED <<filesMap, busyCnt, fileCs, online, op, hnd>>

LockFile(t) ==
    LET f == filesMap[hnd[t]] IN
    /\ at[t] = "entry"
    /\ \/ /\ f # NoFile
          /\ busyCnt' = [busyCnt EXCEPT ![f] = @ + 1]
          /\ file' = [file EXCEPT ![t] = f]
          /\ Goto(t, "wait")
          /\ UNCHANGED ok
       \/ /\ f = NoFile
          /\ Return(t, FALSE)
          /\ UNCHANGED <<busyCnt, file>>
    /\ UNCHANGED <<filesMap, fileCs, online, op, hnd>>

EnterFile(t) ==
    /\ at[t] = "wait"
    /\ fileCs[file[t]] = NoThread
    /\ fileCs' = [fileCs EXCEPT ![file[t]] = t]
    /\ Goto(t, "body")
    /\ UNCHANGED <<filesMap, busyCnt, online, op, hnd, file, ok>>

\* FileResetOnError, or the release of the connection after an enumeration.
Disconnect(t) ==
    /\ at[t] = "body" /\ op[t] = "use"
    /\ file[t] \in online
    /\ online' = online \ {file[t]}
    /\ UNCHANGED <<filesMap, busyCnt, fileCs, at, op, hnd, file, ok>>

\* ~FileLocker looks the handle up again and unlocks the file it finds.
UnlockFile_WithoutCount(t) ==
    LET f == filesMap[hnd[t]] IN
    /\ at[t] = "body"
    /\ \/ /\ f # NoFile
          /\ fileCs' = [fileCs EXCEPT ![f] = NoThread]
       \/ /\ f = NoFile
          /\ UNCHANGED fileCs
    /\ file' = [file EXCEPT ![t] = NoFile]
    /\ \/ op[t] = "use" /\ Return(t, TRUE)
       \/ op[t] # "use" /\ Goto(t, "closing") /\ UNCHANGED ok
    /\ UNCHANGED <<filesMap, busyCnt, online, op, hnd>>

UnlockFile(t) ==
    LET f == filesMap[hnd[t]] IN
    /\ at[t] = "body"
    /\ \/ /\ f # NoFile
          /\ busyCnt' = [busyCnt EXCEPT ![f] = @ - 1]
          /\ fileCs' = [fileCs EXCEPT ![f] = NoThread]
       \/ /\ f = NoFile
          /\ UNCHANGED <<busyCnt, fileCs>>
    /\ file' = [file EXCEPT ![t] = NoFile]
    /\ \/ op[t] = "use" /\ Return(t, TRUE)
       \/ op[t] # "use" /\ Goto(t, "closing") /\ UNCHANGED ok
    /\ UNCHANGED <<filesMap, online, op, hnd>>

\* TryCloseOurFile, called every 10 ms until the file is idle or gone.
CloseOurFile_Busy(t) ==
    LET f == filesMap[hnd[t]] IN
    /\ at[t] = "closing"
    /\ \/ /\ f # NoFile
          /\ filesMap' = [filesMap EXCEPT ![hnd[t]] = NoFile]
          /\ online' = online \ {f}
          /\ Return(t, op[t] = "close")
       \/ /\ f = NoFile
          /\ Return(t, FALSE)
          /\ UNCHANGED <<filesMap, online>>
    /\ UNCHANGED <<busyCnt, fileCs, op, hnd, file>>

CloseOurFile(t) ==
    LET f == filesMap[hnd[t]] IN
    /\ at[t] = "closing"
    /\ \/ /\ f # NoFile /\ busyCnt[f] = 0
          /\ filesMap' = [filesMap EXCEPT ![hnd[t]] = NoFile]
          /\ online' = online \ {f}
          /\ Return(t, op[t] = "close")
       \/ /\ f = NoFile
          /\ Return(t, FALSE)
          /\ UNCHANGED <<filesMap, online>>
    /\ UNCHANGED <<busyCnt, fileCs, op, hnd, file>>

\* SuspendNotActiveFiles suspends the idle files whose time has come, and
\* ForceSuspendNotActiveFilesForIP the idle files of one server: any set.
Idle(h) == filesMap[h] # NoFile /\ busyCnt[filesMap[h]] = 0

SuspendFiles_IgnoresBusy(S) ==
    /\ S # {} /\ \A h \in S : filesMap[h] \in online
    /\ online' = online \ {filesMap[h] : h \in S}
    /\ UNCHANGED <<filesMap, busyCnt, fileCs, at, op, hnd, file, ok>>

SuspendFiles(S) ==
    /\ S # {} /\ \A h \in S : Idle(h) /\ filesMap[h] \in online
    /\ online' = online \ {filesMap[h] : h \in S}
    /\ UNCHANGED <<filesMap, busyCnt, fileCs, at, op, hnd, file, ok>>

ThreadStep(t) ==
    \/ Connect(t) \/ MakeDirectory(t) \/ LockFile(t) \/ EnterFile(t)
    \/ Disconnect(t) \/ UnlockFile(t) \/ CloseOurFile(t)

Next ==
    \/ \E t \in Threads :
        \/ \E h \in Handles : \E f \in Files : OpenFile(t, h, f)
        \/ \E h \in Handles, o \in {"use", "close"} : Call(t, o, h)
        \/ ThreadStep(t) \/ Resume(t)
    \/ \E S \in SUBSET Handles : SuspendFiles(S)

Spec == Init /\ [][Next]_vars

----------------------------------------------------------------------------
\* While a thread has a FileLocker, its handle stays in the table and stays
\* the handle of the file it locked, though handle values are used again:
\* ~FileLocker, which looks the handle up, unlocks the file it locked.
LockerKeepsItsFile == \A t \in Threads : Locked(t) => filesMap[hnd[t]] = file[t]

\* busy_cnt is the number of threads that have or wait for the file's lock,
\* so zero means that nobody uses the file, though its cs is never looked at.
BusyCountsLockers == \A f \in Files : busyCnt[f] = Cardinality(Lockers(f))

\* The lock of a file is taken by the one thread in an operation on it.
LockIsHeld ==
    \A f \in Files, t \in Threads :
        fileCs[f] = t <=> at[t] = "body" /\ file[t] = f

\* What makes them inductive: no file has two handles, and a thread refers to
\* a file only between FileLocker and ~FileLocker or in MKD.
OneHandleEach ==
    \A h, k \in Handles : filesMap[h] # NoFile /\ filesMap[h] = filesMap[k] => h = k

ReferencesAreLocal ==
    \A t \in Threads : file[t] # NoFile <=> (Locked(t) \/ at[t] = "making")

IInv ==
    /\ TypeOK
    /\ LockerKeepsItsFile
    /\ BusyCountsLockers
    /\ LockIsHeld
    /\ OneHandleEach
    /\ ReferencesAreLocal

\* An operation does not lose its connection to another thread that closes or
\* suspends files: while it runs, only itself takes its file off line, or the
\* MKD of xxxOpenFile, the one use of a file without a FileLocker.
NobodyElseDisconnects ==
    [][\A t \in Threads :
        at[t] = "body" /\ at'[t] = "body" /\ file[t] \in online \ online' =>
            \/ Disconnect(t)
            \/ \E u \in Threads : MakeDirectory(u) /\ file[u] = file[t]]_vars
=============================================================================
