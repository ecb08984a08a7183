----------------------------- MODULE TempCopies -----------------------------
(***************************************************************************)
(* xxxPrepareTempFile, the TEMP request of FtpFsImpl.cpp: a client that    *)
(* makes a section of a remote file, without guard pages or for an image,  *)
(* asks for a temporary local copy.  The copy is filled by xxxReadFile     *)
(* with the same handle, inside the FileLocker the request has taken; and  *)
(* the lock of a file is a FastCriticalSection, in which a thread that     *)
(* enters twice waits (FastCriticalSection.Enter counts it as any other).  *)
(*                                                                         *)
(* All files here have one path, the case in which two copies meet.        *)
(***************************************************************************)
EXTENDS OpenFiles

VARIABLES copy,     \* where each worker is in xxxPrepareTempFile
          tempBusy  \* whether the path is in temp_busy

tvars == <<copy, tempBusy>>

TempInit ==
    /\ OFInit
    /\ copy = [w \in Workers |-> "none"]
    /\ tempBusy = FALSE

\* A process asks for a copy of a file it has open.
PrepareTempFile(w, p, h) ==
    /\ Send(w, p, "use", h)
    /\ copy' = [copy EXCEPT ![w] = "asked"]
    /\ UNCHANGED tempBusy

\* The request has the lock of its file.
Preparing(t) == t \in Workers /\ copy[t] = "asked" /\ at[t] = "body"

\* An empty file has no copy, and there may be no name or place for one; the
\* answer says so.  map_temp_files has nothing to give: ReadCopy is why.
NoCopy(w) ==
    /\ Preparing(w)
    /\ UnlockFile(w)
    /\ copy' = [copy EXCEPT ![w] = "none"]
    /\ UNCHANGED <<tempBusy, ovars>>

\* When no other request copies the same path, xxxReadFile is called for the
\* first bytes.  Its FileLocker finds the file, which cannot be closed now,
\* counts in busy_cnt a second time and goes to wait for the lock.
ReadCopy(w) ==
    /\ Preparing(w)
    /\ ~tempBusy
    /\ tempBusy' = TRUE
    /\ copy' = [copy EXCEPT ![w] = "reading"]
    /\ busyCnt' = [busyCnt EXCEPT ![file[w]] = @ + 1]
    /\ Goto(w, "wait")
    /\ UNCHANGED <<filesMap, fileCs, online, op, hnd, file, ok, ovars>>

\* A handle that is no longer open has no copy either.
TempAnswer(w) ==
    /\ Answer(w)
    /\ copy' = [copy EXCEPT ![w] = "none"]
    /\ UNCHANGED tempBusy

TempStep(t) == Step(t) /\ ~Preparing(t) /\ UNCHANGED tvars

TempNext ==
    \/ \E w \in Workers, p \in Pids, h \in Handles : PrepareTempFile(w, p, h)
    \/ \E w \in Workers : NoCopy(w) \/ ReadCopy(w) \/ TempAnswer(w)
    \/ \E t \in Threads : TempStep(t)
    \/ /\ \/ \E w \in Workers, p \in Pids :
              \/ SendOpen(w, p)
              \/ \E o \in {"use", "close"}, h \in Handles : Send(w, p, o, h)
          \/ \E w \in Workers : HandleOpened(w) \/ HandleClosed(w)
          \/ \E p \in Pids : Exit(p) \/ WatchdogStep(p)
          \/ Suspend
       /\ UNCHANGED tvars

\* The fairness of OpenFiles, with that of the new steps.
TempFairness ==
    /\ \A w \in Workers :
        /\ WF_<<allvars, tvars>>(\/ Unblocked(w) /\ TempStep(w)
                                 \/ NoCopy(w) \/ ReadCopy(w) \/ TempAnswer(w))
        /\ SF_<<allvars, tvars>>(\/ EnterFile(w) /\ TempStep(w)
                                 \/ (HandleOpened(w) \/ HandleClosed(w)) /\ UNCHANGED tvars)
    /\ \A p \in Pids :
        /\ WF_<<allvars, tvars>>(/\ \/ Unblocked(p) /\ UNCHANGED ovars
                                    \/ \E h \in Handles : RemoveHandle(p, h)
                                    \/ HandleRemoved(p) \/ PidRemoved(p)
                                 /\ UNCHANGED tvars)
        /\ SF_<<allvars, tvars>>(/\ (EnterFile(p) /\ UNCHANGED ovars) \/ RemovePid(p)
                                 /\ UNCHANGED tvars)

TempSpec == TempInit /\ [][TempNext]_<<allvars, tvars>> /\ TempFairness

----------------------------------------------------------------------------
\* The TEMP request comes to an end, well or not: ProceedTemp has a status
\* and a name to answer with.
TempAnswered == \A w \in Workers : copy[w] = "reading" ~> copy[w] = "none"
=============================================================================
