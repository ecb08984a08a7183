-------------------------- MODULE OpenFilesProofs --------------------------
(***************************************************************************)
(* For any number of processes, pipe instances, handles and files: the     *)
(* requests and the watchdogs use the table of files as FileTable lets any *)
(* client use it, so what is proved of FileTable holds here; and every     *)
(* recorded handle has a watchdog that will come for it.                   *)
(***************************************************************************)
EXTENDS OpenFiles, FileTableProofs

\* A pipe instance and a watchdog are threads.
LEMMA WorkersAndPids == \A t \in Workers \cup Pids : t \in Threads
  BY OpenFilesAssumption

\* Every step of the server is a step of the table, or leaves it alone.
LEMMA StepsImplement == [OFNext]_allvars => [Next]_vars
  <1> SUFFICES ASSUME [OFNext]_allvars PROVE [Next]_vars
    OBVIOUS
  <1>1. ASSUME NEW w \in Workers, NEW p \in Pids, SendOpen(w, p) PROVE Next
    BY <1>1, WorkersAndPids DEF SendOpen, Next
  <1>2. ASSUME NEW w \in Workers, NEW p \in Pids, NEW o \in {"use", "close"},
               NEW h \in Handles, Send(w, p, o, h)
        PROVE  Next
    BY <1>2, WorkersAndPids DEF Send, Next
  <1>3. ASSUME NEW w \in Workers, WorkerStep(w) PROVE Next
    BY <1>3, WorkersAndPids
    DEF WorkerStep, HandleOpened, HandleClosed, Answer, Reply, Next
  <1>4. ASSUME NEW p \in Pids, Exit(p) \/ RemovePid(p) \/ PidRemoved(p)
        PROVE  UNCHANGED vars
    BY <1>4 DEF Exit, RemovePid, PidRemoved
  <1>5. ASSUME NEW p \in Pids, NEW h \in Handles, RemoveHandle(p, h) PROVE Next
    BY <1>5, WorkersAndPids DEF RemoveHandle, Next
  <1>6. ASSUME NEW p \in Pids, HandleRemoved(p) PROVE Next
    BY <1>6, WorkersAndPids DEF HandleRemoved, Next
  <1>7. ASSUME NEW t \in Threads, Step(t) PROVE Next
    BY <1>7 DEF Step, Next
  <1>8. ASSUME Suspend PROVE Next
    BY <1>8 DEF Suspend, Next
  <1>9. CASE UNCHANGED allvars
    BY <1>9 DEF allvars
  <1>10. QED
    BY <1>1, <1>2, <1>3, <1>4, <1>5, <1>6, <1>7, <1>8, <1>9 DEF OFNext, WatchdogStep

\* The handlers and watchdogs implement the table of files under any client.
THEOREM ServerImplementsFileTable == OFSpec => ImplementsFileTable
  <1>1. OFInit => Init
    BY DEF OFInit
  <1>2. QED
    BY <1>1, StepsImplement, PTL DEF OFSpec, ImplementsFileTable, Spec

\* Hence a FileLocker keeps its file and busy_cnt counts the users of a file,
\* for all requests and watchdogs of the server.
THEOREM ServerKeepsTable == OFSpec => []IInv
  <1>1. QED
    BY ServerImplementsFileTable, InductiveInvariant, PTL DEF ImplementsFileTable

----------------------------------------------------------------------------
\* The type invariant of the records, without the part on the table.
RecordsTyped ==
    /\ tracked \subseteq Pids
    /\ pidHandles \in [Pids -> SUBSET Handles]
    /\ watch \in [Pids -> {"none", "waiting", "removing"}]
    /\ serving \in [Workers -> Pids]
    /\ alive \subseteq Pids
    /\ held \in [Pids -> SUBSET Handles]
    /\ pidsCs \in Pids \cup {NoThread}

RecordsInv == RecordsTyped /\ RecordsHaveWatchdog

LEMMA ReplyTyped ==
    ASSUME RecordsInv, APid \in Pids, NEW w \in Workers, Reply(w)
    PROVE  serving' \in [Workers -> Pids]
  BY DEF Reply, RecordsInv, RecordsTyped

LEMMA NextRecordsInv ==
    ASSUME RecordsInv, TypeOK, APid \in Pids, [OFNext]_allvars
    PROVE  RecordsInv'
  <1> USE DEF RecordsInv, RecordsTyped, RecordsHaveWatchdog
  <1>1. ASSUME NEW w \in Workers, NEW p \in Pids,
               SendOpen(w, p) \/ \E o \in {"use", "close"}, h \in Handles : Send(w, p, o, h)
        PROVE  RecordsInv'
    BY <1>1 DEF SendOpen, Send
  <1>2. ASSUME NEW w \in Workers, HandleOpened(w) PROVE RecordsInv'
    <2> DEFINE p == serving[w]
    <2>1. p \in Pids /\ hnd[w] \in Handles /\ serving' \in [Workers -> Pids]
      BY <1>2, WorkersAndPids, ReplyTyped DEF HandleOpened, TypeOK
    <2>2. tracked' = tracked \cup {p}
      BY <1>2 DEF HandleOpened
    <2>3. watch' = IF p \in tracked THEN watch ELSE [watch EXCEPT ![p] = "waiting"]
      BY <1>2 DEF HandleOpened
    <2>4. pidHandles' = [pidHandles EXCEPT ![p] = @ \cup {hnd[w]}]
      BY <1>2 DEF HandleOpened
    <2>5. held' \in [Pids -> SUBSET Handles]
      BY <1>2, <2>1 DEF HandleOpened
    <2>6. UNCHANGED <<alive, pidsCs>>
      BY <1>2 DEF HandleOpened
    <2>7. QED
      BY <2>1, <2>2, <2>3, <2>4, <2>5, <2>6
  <1>3. ASSUME NEW w \in Workers, HandleClosed(w) PROVE RecordsInv'
    BY <1>3, ReplyTyped DEF HandleClosed
  <1>4. ASSUME NEW w \in Workers, Answer(w) PROVE RecordsInv'
    BY <1>4, ReplyTyped DEF Answer
  <1>5. ASSUME NEW p \in Pids, Exit(p) \/ HandleRemoved(p) PROVE RecordsInv'
    BY <1>5 DEF Exit, HandleRemoved, ovars
  <1>6. ASSUME NEW p \in Pids, RemovePid(p) PROVE RecordsInv'
    BY <1>6 DEF RemovePid
  <1>7. ASSUME NEW p \in Pids, NEW h \in Handles, RemoveHandle(p, h) PROVE RecordsInv'
    BY <1>7 DEF RemoveHandle
  <1>8. ASSUME NEW p \in Pids, PidRemoved(p) PROVE RecordsInv'
    BY <1>8 DEF PidRemoved
  <1>9. ASSUME Suspend \/ (\E t \in Threads : Step(t)) PROVE RecordsInv'
    BY <1>9 DEF Suspend, Step, ovars
  <1>10. CASE UNCHANGED allvars
    BY <1>10 DEF allvars, ovars
  <1>11. QED
    BY <1>1, <1>2, <1>3, <1>4, <1>5, <1>6, <1>7, <1>8, <1>9, <1>10
    DEF OFNext, WorkerStep, WatchdogStep

\* The records and their types are right in every reachable state.
LEMMA RecordsInvariance == OFSpec => []RecordsInv
  <1>1. APid \in Pids
    BY OpenFilesAssumption DEF APid
  <1>2. OFInit => RecordsInv
    BY <1>1 DEF OFInit, RecordsInv, RecordsTyped, RecordsHaveWatchdog
  <1>3. RecordsInv /\ IInv /\ [OFNext]_allvars => RecordsInv'
    BY <1>1, NextRecordsInv DEF IInv
  <1>4. QED
    BY <1>2, <1>3, ServerKeepsTable, PTL DEF OFSpec

\* No recorded handle is left without a watchdog, also when an OPEN ends after
\* its process has, or while the watchdog removes the other handles.
THEOREM RecordsHaveWatchdogHolds == OFSpec => []RecordsHaveWatchdog
  <1>1. RecordsInv => RecordsHaveWatchdog
    BY DEF RecordsInv
  <1>2. QED
    BY <1>1, RecordsInvariance, PTL

\* Table, records and watchdogs have their types: above all, a request that was
\* sent always works on a handle value, whoever has closed it meanwhile, and
\* busy_cnt never gets below zero.
THEOREM OFTypeCorrect == OFSpec => []OFTypeOK
  <1>1. IInv /\ RecordsInv => OFTypeOK
    BY DEF IInv, RecordsInv, RecordsTyped, OFTypeOK
  <1>2. QED
    BY <1>1, ServerKeepsTable, RecordsInvariance, PTL
=============================================================================
