----------------------------- MODULE OpenFiles -----------------------------
(***************************************************************************)
(* Client processes and their open files: the OPEN and CLOSE handlers of   *)
(* FtpFS/FtpFsImpl.cpp, and FtpFS/PidsWatcher.cpp, which remembers the     *)
(* handles of every process and closes those a process leaves behind.      *)
(*                                                                         *)
(* Each of the Workers is a pipe instance thread that serves one request   *)
(* at a time; the watchdog thread of a process is the process identifier   *)
(* itself.  Both work on the FileTable.                                    *)
(***************************************************************************)
EXTENDS FileTable

CONSTANTS Workers, Pids

ASSUME OpenFilesAssumption ==
    /\ Threads = Workers \cup Pids
    /\ Workers \cap Pids = {}
    /\ Pids # {}

VARIABLES alive,       \* the processes that run
          held,        \* the handles each process knows and has not closed
          serving,     \* the process whose request a worker serves
          tracked,     \* the domain of pid_handles
          pidHandles,  \* pid_handles
          watch,       \* the watchdog of each process
          pidsCs       \* the watchdog inside PidsWatcher::_cs, or NoThread

ovars == <<alive, held, serving, tracked, pidHandles, watch, pidsCs>>

OFTypeOK ==
    /\ TypeOK
    /\ alive \subseteq Pids
    /\ held \in [Pids -> SUBSET Handles]
    /\ serving \in [Workers -> Pids]
    /\ tracked \subseteq Pids
    /\ pidHandles \in [Pids -> SUBSET Handles]
    /\ watch \in [Pids -> {"none", "waiting", "removing"}]
    /\ pidsCs \in Pids \cup {NoThread}

APid == CHOOSE p \in Pids : TRUE

OFInit ==
    /\ Init
    /\ alive = Pids
    /\ held = [p \in Pids |-> {}]
    /\ serving = [w \in Workers |-> APid]
    /\ tracked = {}
    /\ pidHandles = [p \in Pids |-> {}]
    /\ watch = [p \in Pids |-> "none"]
    /\ pidsCs = NoThread

----------------------------------------------------------------------------
\* The allocator returns one of the free objects: which makes no difference.
FreeFile == CHOOSE f \in Files : Unreferenced(f)

\* A process sends OPEN; xxxOpenFile puts the file into the table.
SendOpen(w, p) ==
    /\ at[w] = "idle" /\ p \in alive
    /\ serving' = [serving EXCEPT ![w] = p]
    /\ \E h \in Handles, f \in Files : OpenFile(w, h, f) /\ f = FreeFile
    /\ UNCHANGED <<alive, held, tracked, pidHandles, watch, pidsCs>>

\* A process sends a request on a handle it has; with CLOSE it gives it up.
Send(w, p, o, h) ==
    /\ at[w] = "idle" /\ p \in alive /\ h \in held[p]
    /\ serving' = [serving EXCEPT ![w] = p]
    /\ held' = IF o = "close" THEN [held EXCEPT ![p] = @ \ {h}] ELSE held
    /\ Call(w, o, h)
    /\ UNCHANGED <<alive, tracked, pidHandles, watch, pidsCs>>

Reply(w) ==
    /\ serving' = [serving EXCEPT ![w] = APid]
    /\ Resume(w)

\* ProceedOpen: HandleOpened, which starts the watchdog with the first handle
\* of a process, and the reply that tells the process its handle.
HandleOpened_NoNewWatchdog(w) ==
    LET p == serving[w] IN
    /\ at[w] = "done" /\ op[w] = "open" /\ ok[w]
    /\ pidsCs = NoThread
    /\ tracked' = tracked \cup {p}
    /\ watch' = IF pidHandles[p] = {} /\ p \in alive
                THEN [watch EXCEPT ![p] = "waiting"] ELSE watch
    /\ pidHandles' = [pidHandles EXCEPT ![p] = @ \cup {hnd[w]}]
    /\ held' = IF p \in alive THEN [held EXCEPT ![p] = @ \cup {hnd[w]}] ELSE held
    /\ Reply(w)
    /\ UNCHANGED <<alive, pidsCs>>

HandleOpened(w) ==
    LET p == serving[w] IN
    /\ at[w] = "done" /\ op[w] = "open" /\ ok[w]
    /\ pidsCs = NoThread
    /\ tracked' = tracked \cup {p}
    /\ watch' = IF p \in tracked THEN watch ELSE [watch EXCEPT ![p] = "waiting"]
    /\ pidHandles' = [pidHandles EXCEPT ![p] = @ \cup {hnd[w]}]
    /\ held' = IF p \in alive THEN [held EXCEPT ![p] = @ \cup {hnd[w]}] ELSE held
    /\ Reply(w)
    /\ UNCHANGED <<alive, pidsCs>>

\* ProceedClose: HandleClosed.
HandleClosed(w) ==
    /\ at[w] = "done" /\ op[w] = "close" /\ ok[w]
    /\ pidsCs = NoThread
    /\ pidHandles' = [pidHandles EXCEPT ![serving[w]] = @ \ {hnd[w]}]
    /\ Reply(w)
    /\ UNCHANGED <<alive, held, tracked, watch, pidsCs>>

\* Every other answer leaves PidsWatcher alone.
Answer(w) ==
    /\ at[w] = "done"
    /\ op[w] \in {"use", "undo"} \/ ~ok[w]
    /\ Reply(w)
    /\ UNCHANGED <<alive, held, tracked, pidHandles, watch, pidsCs>>

----------------------------------------------------------------------------
\* A process ends, without closing its handles and perhaps in mid-request.
Exit(p) ==
    /\ p \in alive
    /\ alive' = alive \ {p}
    /\ held' = [held EXCEPT ![p] = {}]
    /\ UNCHANGED <<serving, tracked, pidHandles, watch, pidsCs, vars>>

\* The wait of the watchdog ends and RemovePid enters _cs.
RemovePid(p) ==
    /\ watch[p] = "waiting" /\ p \notin alive
    /\ pidsCs = NoThread
    /\ pidsCs' = p
    /\ watch' = [watch EXCEPT ![p] = "removing"]
    /\ UNCHANGED <<alive, held, serving, tracked, pidHandles, vars>>

\* RemovePid calls xxxCloseHandle for the handles of the process one by one,
\* inside _cs.  A handle it is done with leaves pidHandles, here at once, in
\* the code with the whole entry: nobody else can look before _cs is left.
RemoveHandle_ErasesOnly(p, h) ==
    /\ watch[p] = "removing" /\ at[p] = "idle"
    /\ h \in pidHandles[p]
    /\ pidHandles' = [pidHandles EXCEPT ![p] = @ \ {h}]
    /\ filesMap' = [filesMap EXCEPT ![h] = NoFile]
    /\ UNCHANGED <<busyCnt, fileCs, online, at, op, hnd, file, ok>>
    /\ UNCHANGED <<alive, held, serving, tracked, watch, pidsCs>>

RemoveHandle(p, h) ==
    /\ watch[p] = "removing" /\ at[p] = "idle"
    /\ h \in pidHandles[p]
    /\ pidHandles' = [pidHandles EXCEPT ![p] = @ \ {h}]
    /\ Call(p, "close", h)
    /\ UNCHANGED <<alive, held, serving, tracked, watch, pidsCs>>

HandleRemoved(p) ==
    /\ watch[p] = "removing"
    /\ Resume(p)
    /\ UNCHANGED ovars

PidRemoved(p) ==
    /\ watch[p] = "removing" /\ at[p] = "idle"
    /\ pidHandles[p] = {}
    /\ tracked' = tracked \ {p}
    /\ watch' = [watch EXCEPT ![p] = "none"]
    /\ pidsCs' = NoThread
    /\ UNCHANGED <<alive, held, serving, pidHandles, vars>>

----------------------------------------------------------------------------
WorkerStep(w) == HandleOpened(w) \/ HandleClosed(w) \/ Answer(w)

WatchdogStep(p) ==
    \/ RemovePid(p)
    \/ \E h \in Handles : RemoveHandle(p, h)
    \/ HandleRemoved(p)
    \/ PidRemoved(p)

Step(t) == ThreadStep(t) /\ UNCHANGED ovars

Suspend == (\E S \in SUBSET Handles : SuspendFiles(S)) /\ UNCHANGED ovars

OFNext ==
    \/ \E w \in Workers, p \in Pids :
        \/ SendOpen(w, p)
        \/ \E o \in {"use", "close"}, h \in Handles : Send(w, p, o, h)
    \/ \E w \in Workers : WorkerStep(w)
    \/ \E p \in Pids : Exit(p) \/ WatchdogStep(p)
    \/ \E t \in Threads : Step(t)
    \/ Suspend

allvars == <<vars, ovars>>

OFSpec == OFInit /\ [][OFNext]_allvars

\* A thread goes on while it is not blocked, as the network calls of an
\* operation time out; the waiters of a FastCriticalSection all get in
\* (WaiterEnters), hence the strong fairness of what enters one.  No process
\* has to send a request or to exit, nothing has to be suspended.
Unblocked(t) ==
    \/ MakeDirectory(t) \/ LockFile(t) \/ UnlockFile(t) \/ CloseOurFile(t)

OFFairness ==
    /\ \A w \in Workers :
        /\ WF_allvars((Unblocked(w) /\ UNCHANGED ovars) \/ Answer(w))
        /\ SF_allvars(\/ EnterFile(w) /\ UNCHANGED ovars
                      \/ HandleOpened(w) \/ HandleClosed(w))
    /\ \A p \in Pids :
        /\ WF_allvars(\/ Unblocked(p) /\ UNCHANGED ovars
                      \/ \E h \in Handles : RemoveHandle(p, h)
                      \/ HandleRemoved(p) \/ PidRemoved(p))
        /\ SF_allvars((EnterFile(p) /\ UNCHANGED ovars) \/ RemovePid(p))

FairOFSpec == OFSpec /\ OFFairness

----------------------------------------------------------------------------
\* Requests and watchdogs use the table of files as any client may.
ImplementsFileTable == Spec

\* Exactly the processes with recorded handles have a watchdog, also when an
\* OPEN ends after its process: no record is left that nobody will remove.
RecordsHaveWatchdog ==
    \A p \in Pids :
        /\ p \in tracked <=> watch[p] # "none"
        /\ pidHandles[p] # {} => p \in tracked

\* The handle value a thread works on was freed and allocated again: it is, or
\* is about to be, the handle of another file.
Reissued(t) ==
    \/ \E p \in Pids : hnd[t] \in held[p]
    \/ \E u \in Threads \ {t} : hnd[u] = hnd[t] /\ op[u] \in {"open", "undo"}

\* CloseOurFile, which waits for busy_cnt to be zero by polling, returns.
CloseReturns ==
    \A t \in Threads :
        at[t] = "closing" ~> at[t] # "closing" \/ Reissued(t)

\* The watchdog, which closes the handles inside PidsWatcher::_cs, is never
\* stuck there: all records of a process that exited are removed, those of an
\* OPEN that was in progress too.
DeadProcessForgotten ==
    \A p \in Pids :
        p \in tracked /\ p \notin alive ~>
            p \notin tracked \/ \E t \in Threads : at[t] = "closing" /\ Reissued(t)

\* "PID %u exited with %u handles left" counts, and RemovePid closes, every
\* handle the process had: what a process holds is on record.
HeldIsRecorded == \A p \in Pids : held[p] \subseteq pidHandles[p]
=============================================================================
