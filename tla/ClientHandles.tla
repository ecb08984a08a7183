--------------------------- MODULE ClientHandles ---------------------------
(***************************************************************************)
(* The hooked side of the program: what APIHooks.dll keeps inside a client *)
(* process.  The Zw calls of the process that name a file of the FTP drive *)
(* are answered by requests over a pipe to the server process; the process *)
(* is given the handle of an event in place of a file handle, and          *)
(* fs_handles (FtpFsWrappers.cpp) maps that value to the handle of the     *)
(* server and counts the references.  A section of such a file is the      *)
(* same value once more (sects), and a view is memory of guard pages       *)
(* (addrs), which the exception handler fills with a read of the file.     *)
(* All three maps are guarded by hnd_cs, in separate short sections; only  *)
(* the last close of a handle keeps hnd_cs over a request.                 *)
(*                                                                         *)
(* The process is any program that uses its handles legally: it closes a   *)
(* reference that it owns, once, and not while another of its calls is     *)
(* using that reference; it unmaps a view that none of its threads touch.  *)
(* A reference (the variable ref) is what the program was given: its kind, *)
(* the value of the handle and the file it stands for.  It is no state of  *)
(* the code; the code only has the count.                                  *)
(*                                                                         *)
(* Left out: the contents and the position of files, directory masks, the  *)
(* sections made from temporary copies (they belong to the kernel), the    *)
(* offset of a view, the end of the process (see OpenFiles).               *)
(***************************************************************************)
EXTENDS Naturals, FiniteSets

CONSTANTS Threads,    \* the threads of the client process
          Handles,    \* values of handles the kernel gives to it
          FsHandles,  \* values of handles the server gives to it
          Files,      \* files on the drive
          Refs,       \* bounds the references that exist together
          Bases,      \* addresses VirtualAlloc may return, in pages
          LastPage,   \* the last page of the address space
          PagesOf,    \* the size of each file in pages
          MaxLosses,  \* bounds what is lost for good: see MayLose
          None

ASSUME ThreadsAssumption == None \notin Threads /\ IsFiniteSet(Threads)
ASSUME ValuesAssumption ==
    /\ None \notin Handles \cup FsHandles \cup Files \cup Refs
    /\ IsFiniteSet(Refs)
ASSUME EntriesAssumption ==
    /\ None \notin [fs_handle : FsHandles, refcnt : Nat]
    /\ None \notin [file_handle : Handles, file_name : Files, ref : Refs]
    /\ None \notin [kind : {"file", "section", "view", "taken", "lost"},
                    handle : Handles, file : Files]
ASSUME MemoryAssumption ==
    /\ LastPage \in Nat /\ MaxLosses \in Nat
    /\ Bases \subseteq 0..LastPage /\ None \notin 0..LastPage
    /\ PagesOf \in [Files -> Nat \ {0}]
    /\ Files \cap {"free", "guard", "zero"} = {}

VARIABLES
    hnd_cs,     \* the thread in a section of hnd_cs that spans several steps
    fs_handles, \* FTPFILEWRAPPER of each handle value, or None
    sects,      \* file_name of the SECTENTRY of each handle value, or None
    addrs,      \* ADDRENTRY at each base address, or None
    events,     \* handle values that are open in the kernel
    server,     \* the file each handle of the server is open on, or None
    leaked,     \* handles of the server whose OPEN or CLOSE was lost
    mem,        \* each page: free, guard, zero (committed) or a file's bytes
    ref,        \* the references: [kind, handle, file], or None
    call        \* the call each thread is in

vars == <<hnd_cs, fs_handles, sects, addrs, events, server, leaked, mem, ref, call>>

Pages == 0..LastPage
Kinds == {"file", "section", "view", "taken", "lost"}
Ops == {"none", "open", "read", "section", "map", "dup", "close", "unmap", "fault"}
Points == {"idle", "create", "find", "request", "lookup", "incref", "insert", "dec",
           "closefs", "zwclose", "notify", "free", "fault", "load"}

Calls == [pc : Points, op : Ops, ref : Refs \cup {None}, new : Refs \cup {None},
          handle : Handles \cup {None}, fs_handle : FsHandles \cup {None},
          file : Files \cup {None}, at : Pages \cup {None}]

Idle == [pc |-> "idle", op |-> "none", ref |-> None, new |-> None, handle |-> None,
         fs_handle |-> None, file |-> None, at |-> None]

CHTypeOK ==
    /\ hnd_cs \in Threads \cup {None}
    /\ fs_handles \in [Handles -> [fs_handle : FsHandles, refcnt : Nat] \cup {None}]
    /\ sects \in [Handles -> Files \cup {None}]
    /\ addrs \in [Bases -> [file_handle : Handles, file_name : Files, ref : Refs]
                           \cup {None}]
    /\ events \subseteq Handles
    /\ server \in [FsHandles -> Files \cup {None}]
    /\ leaked \subseteq FsHandles
    /\ mem \in [Pages -> Files \cup {"free", "guard", "zero"}]
    /\ ref \in [Refs -> [kind : Kinds, handle : Handles, file : Files] \cup {None}]
    /\ call \in [Threads -> Calls]

Init ==
    /\ hnd_cs = None
    /\ fs_handles = [h \in Handles |-> None]
    /\ sects = [h \in Handles |-> None]
    /\ addrs = [b \in Bases |-> None]
    /\ events = {}
    /\ server = [s \in FsHandles |-> None]
    /\ leaked = {}
    /\ mem = [a \in Pages |-> "free"]
    /\ ref = [r \in Refs |-> None]
    /\ call = [t \in Threads |-> Idle]

-----------------------------------------------------------------------------
(* Helpers.                                                                *)

At(t, p) == call[t].pc = p
Op(t) == call[t].op
Handle(t) == call[t].handle

\* What the call of thread t is after a step.
Step(t, c) == call' = [call EXCEPT ![t] = c]
Goto(t, p) == Step(t, [call[t] EXCEPT !.pc = p])
Return(t) == Step(t, Idle)

\* EnterSkipLock, for a section that is a single step.
Unlocked == hnd_cs = None

\* A reference that no call of the program is using.
Unused(r) == \A t \in Threads : call[t].ref # r
OwnedRefs(kinds) == {r \in Refs : ref[r] # None /\ ref[r].kind \in kinds}

FreeRefs == {r \in Refs : ref[r] = None}

\* The bound Refs: a call that may add a reference starts when there is one
\* left for every call that may have started to.
RoomForRef == Cardinality(FreeRefs) > Cardinality({t \in Threads : ~At(t, "idle")})

\* The bound MaxLosses, on handles of the server and references together.
MayLose == Cardinality(leaked) + Cardinality(OwnedRefs({"lost"})) < MaxLosses

ViewPages(b, file) == b..(b + PagesOf[file] - 1)

\* The call that thread t starts with reference r, at its first step p.
Start(t, op, p, r) ==
    Step(t, [Idle EXCEPT !.pc = p, !.op = op, !.ref = r, !.handle = ref[r].handle])

-----------------------------------------------------------------------------
(* WrapperOpenFile: the request, then CreateWrapperHandle.                 *)

\* The server opens the file and answers.  A request that fails before the
\* server sees it, or that the server refuses, changes nothing.
OpenRequest(t, file, s) ==
    /\ At(t, "idle")
    /\ RoomForRef
    /\ Cardinality(Handles \ events) > Cardinality({u \in Threads : At(u, "create")})
    /\ server[s] = None
    /\ server' = [server EXCEPT ![s] = file]
    /\ Step(t, [Idle EXCEPT !.pc = "create", !.op = "open", !.fs_handle = s, !.file = file])
    /\ UNCHANGED <<hnd_cs, fs_handles, sects, addrs, events, leaked, mem, ref>>

\* The answer is lost: the caller sees STATUS_DATA_ERROR, the file stays open
\* at the server.
OpenReplyLost(t, file, s) ==
    /\ At(t, "idle")
    /\ MayLose
    /\ server[s] = None
    /\ server' = [server EXCEPT ![s] = file]
    /\ leaked' = leaked \cup {s}
    /\ UNCHANGED <<hnd_cs, fs_handles, sects, addrs, events, mem, ref, call>>

\* Slip: the count of a new handle starts at zero.
CreateWrapperHandle_NotCounted(t, h, n) ==
    /\ At(t, "create")
    /\ Unlocked
    /\ h \notin events
    /\ n \in FreeRefs
    /\ events' = events \cup {h}
    /\ fs_handles' = [fs_handles EXCEPT ![h] = [fs_handle |-> call[t].fs_handle,
                                                refcnt |-> 0]]
    /\ ref' = [ref EXCEPT ![n] = [kind |-> "file", handle |-> h, file |-> call[t].file]]
    /\ Return(t)
    /\ UNCHANGED <<hnd_cs, sects, addrs, server, leaked, mem>>

CreateWrapperHandle(t, h, n) ==
    /\ At(t, "create")
    /\ Unlocked
    /\ h \notin events
    /\ n \in FreeRefs
    /\ events' = events \cup {h}
    /\ fs_handles' = [fs_handles EXCEPT ![h] = [fs_handle |-> call[t].fs_handle,
                                                refcnt |-> 1]]
    /\ ref' = [ref EXCEPT ![n] = [kind |-> "file", handle |-> h,
                                       file |-> call[t].file]]
    /\ Return(t)
    /\ UNCHANGED <<hnd_cs, sects, addrs, server, leaked, mem>>

-----------------------------------------------------------------------------
(* The steps calls are made of.                                            *)

FindFsHandle(t) ==
    /\ At(t, "find")
    /\ Unlocked
    /\ IF fs_handles[Handle(t)] # None
       THEN Step(t, [call[t] EXCEPT !.pc = "request",
                                    !.fs_handle = fs_handles[Handle(t)].fs_handle])
       ELSE IF Op(t) = "fault" THEN Goto(t, "load") ELSE Return(t)
    /\ UNCHANGED <<hnd_cs, fs_handles, sects, addrs, events, server, leaked, mem, ref>>

\* SendRecvFS of a READ, WRITE, RENAME, LIST (all "read" here) or INFO request.
RequestAnswered(t) ==
    /\ At(t, "request")
    /\ \/ /\ Op(t) = "read"
          /\ Return(t)
          /\ UNCHANGED mem
       \/ /\ Op(t) = "section"
          /\ Step(t, [call[t] EXCEPT !.pc = "incref", !.file = server[call[t].fs_handle]])
          /\ UNCHANGED mem
       \/ /\ Op(t) = "fault"
          /\ mem' = IF server[call[t].fs_handle] = None THEN mem
                    ELSE [mem EXCEPT ![call[t].at] = server[call[t].fs_handle]]
          /\ Goto(t, "load")
    /\ UNCHANGED <<hnd_cs, fs_handles, sects, addrs, events, server, leaked, ref>>

\* The pipe breaks: InvalidateThreadPipe, the call fails, except that the
\* exception handler does not look at the result.
RequestFails(t) ==
    /\ At(t, "request")
    /\ MaxLosses > 0    \* no broken pipes in an instance that loses nothing
    /\ IF Op(t) = "fault" THEN Goto(t, "load") ELSE Return(t)
    /\ UNCHANGED <<hnd_cs, fs_handles, sects, addrs, events, server, leaked, mem, ref>>

\* The reference a call has added belongs to nobody until the call is over.
AddRef(t, n, kind) ==
    /\ n \in FreeRefs
    /\ ref' = [ref EXCEPT ![n] = [kind |-> kind, handle |-> Handle(t),
                                       file |-> ref[call[t].ref].file]]

IncRefWrapperHandle(t) ==
    fs_handles' = [fs_handles EXCEPT ![Handle(t)].refcnt = @ + 1]

-----------------------------------------------------------------------------
(* Calls on a file handle.                                                 *)

\* myZwReadFile and the other calls that only send a request.
ReadFile(t, r) ==
    /\ At(t, "idle")
    /\ r \in OwnedRefs({"file"})
    /\ Start(t, "read", "find", r)
    /\ UNCHANGED <<hnd_cs, fs_handles, sects, addrs, events, server, leaked, mem, ref>>

\* myZwDuplicateObject gives out the same value again.
DuplicateObject(t, r) ==
    /\ At(t, "idle")
    /\ RoomForRef
    /\ r \in OwnedRefs({"file", "section"})
    /\ Start(t, "dup", "incref", r)
    /\ UNCHANGED <<hnd_cs, fs_handles, sects, addrs, events, server, leaked, mem, ref>>

\* Slip: the value is given out again without IncRefWrapperHandle.
DuplicateIncRef_NotCounted(t, n) ==
    /\ At(t, "incref") /\ Op(t) = "dup"
    /\ Unlocked
    /\ AddRef(t, n, ref[call[t].ref].kind)
    /\ Return(t)
    /\ UNCHANGED <<hnd_cs, fs_handles, sects, addrs, events, server, leaked, mem>>

DuplicateIncRef(t, n) ==
    /\ At(t, "incref") /\ Op(t) = "dup"
    /\ Unlocked
    /\ IF fs_handles[Handle(t)] # None
       THEN IncRefWrapperHandle(t) /\ AddRef(t, n, ref[call[t].ref].kind)
       ELSE UNCHANGED <<fs_handles, ref>>
    /\ Return(t)
    /\ UNCHANGED <<hnd_cs, sects, addrs, events, server, leaked, mem>>

\* myZwCreateSection with guard pages, of a file that is open.
CreateSection(t, r) ==
    /\ At(t, "idle")
    /\ RoomForRef
    /\ r \in OwnedRefs({"file"})
    /\ Start(t, "section", "find", r)
    /\ UNCHANGED <<hnd_cs, fs_handles, sects, addrs, events, server, leaked, mem, ref>>

SectionIncRef(t, n) ==
    /\ At(t, "incref") /\ Op(t) = "section"
    /\ Unlocked
    /\ IF fs_handles[Handle(t)] # None
       THEN /\ IncRefWrapperHandle(t)
            /\ AddRef(t, n, "taken")
            /\ Step(t, [call[t] EXCEPT !.pc = "insert", !.new = n])
       ELSE Return(t) /\ UNCHANGED <<fs_handles, ref>>
    /\ UNCHANGED <<hnd_cs, sects, addrs, events, server, leaked, mem>>

\* std::map::insert keeps an entry that is there.
SectionInsert(t) ==
    /\ At(t, "insert") /\ Op(t) = "section"
    /\ Unlocked
    /\ sects' = [sects EXCEPT ![Handle(t)] = IF @ = None THEN call[t].file ELSE @]
    /\ ref' = [ref EXCEPT ![call[t].new].kind = "section"]
    /\ Return(t)
    /\ UNCHANGED <<hnd_cs, fs_handles, addrs, events, server, leaked, mem>>

-----------------------------------------------------------------------------
(* myZwClose and CloseWrapperHandle.                                       *)

Close(t, r) ==
    /\ At(t, "idle")
    /\ r \in OwnedRefs({"file", "section"})
    /\ Unused(r)
    /\ ref' = [ref EXCEPT ![r].kind = "taken"]
    /\ Start(t, "close", "dec", r)
    /\ UNCHANGED <<hnd_cs, fs_handles, sects, addrs, events, server, leaked, mem>>

\* Where CloseWrapperHandle returns to.
AfterClose(t) == IF Op(t) = "unmap" THEN Goto(t, "free") ELSE Return(t)

\* The count goes down and is not zero: status 1.
CloseWrapperHandle(t) ==
    /\ At(t, "dec")
    /\ Unlocked
    /\ fs_handles[Handle(t)] # None
    /\ fs_handles[Handle(t)].refcnt # 1
    /\ fs_handles' = [fs_handles EXCEPT ![Handle(t)].refcnt = @ - 1]
    /\ ref' = [ref EXCEPT ![call[t].ref] = None]
    /\ Step(t, [call[t] EXCEPT !.pc = "notify", !.ref = None])
    /\ UNCHANGED <<hnd_cs, sects, addrs, events, server, leaked, mem>>

SectionsNotifyCloseHandle(t) ==
    /\ At(t, "notify")
    /\ Unlocked
    /\ sects' = [sects EXCEPT ![Handle(t)] = None]
    /\ AfterClose(t)
    /\ UNCHANGED <<hnd_cs, fs_handles, addrs, events, server, leaked, mem, ref>>

\* Slip: the entry is not erased.
CloseWrapperHandle_Last_NotErased(t) ==
    /\ At(t, "dec")
    /\ Unlocked
    /\ fs_handles[Handle(t)] # None
    /\ fs_handles[Handle(t)].refcnt = 1
    /\ hnd_cs' = t
    /\ ref' = [ref EXCEPT ![call[t].ref] = None]
    /\ Step(t, [call[t] EXCEPT !.pc = "closefs", !.ref = None,
                               !.fs_handle = fs_handles[Handle(t)].fs_handle])
    /\ UNCHANGED <<fs_handles, sects, addrs, events, server, leaked, mem>>

\* The last reference: status 2.  hnd_cs is kept to the end.
CloseWrapperHandle_Last(t) ==
    /\ At(t, "dec")
    /\ Unlocked
    /\ fs_handles[Handle(t)] # None
    /\ fs_handles[Handle(t)].refcnt = 1
    /\ hnd_cs' = t
    /\ fs_handles' = [fs_handles EXCEPT ![Handle(t)] = None]
    /\ ref' = [ref EXCEPT ![call[t].ref] = None]
    /\ Step(t, [call[t] EXCEPT !.pc = "closefs", !.ref = None,
                               !.fs_handle = fs_handles[Handle(t)].fs_handle])
    /\ UNCHANGED <<sects, addrs, events, server, leaked, mem>>

\* Slip: the event is closed, the file at the server is not.
CloseFSHandle_NotSent(t) ==
    /\ At(t, "closefs")
    /\ Goto(t, "zwclose")
    /\ UNCHANGED <<hnd_cs, fs_handles, sects, addrs, events, server, leaked, mem, ref>>

CloseFSHandle(t) ==
    /\ At(t, "closefs")
    /\ server' = [server EXCEPT ![call[t].fs_handle] = None]
    /\ Goto(t, "zwclose")
    /\ UNCHANGED <<hnd_cs, fs_handles, sects, addrs, events, leaked, mem, ref>>

\* The CLOSE request does not reach the server; nobody looks at the result.
CloseRequestLost(t) ==
    /\ At(t, "closefs")
    /\ MayLose
    /\ leaked' = leaked \cup {call[t].fs_handle}
    /\ Goto(t, "zwclose")
    /\ UNCHANGED <<hnd_cs, fs_handles, sects, addrs, events, server, mem, ref>>

\* ZwClose of the event, and LeaveSkipLock.
ZwCloseEvent(t) ==
    /\ At(t, "zwclose")
    /\ events' = events \ {Handle(t)}
    /\ hnd_cs' = None
    /\ AfterClose(t)
    /\ UNCHANGED <<fs_handles, sects, addrs, server, leaked, mem, ref>>

-----------------------------------------------------------------------------
(* myZwMapViewOfSection and myZwUnmapViewOfSection.                        *)

MapViewOfSection(t, r) ==
    /\ At(t, "idle")
    /\ RoomForRef
    /\ r \in OwnedRefs({"section"})
    /\ Start(t, "map", "lookup", r)
    /\ UNCHANGED <<hnd_cs, fs_handles, sects, addrs, events, server, leaked, mem, ref>>

\* The section is not known: the call goes to the kernel, which refuses it.
MapUnknownSection(t) ==
    /\ At(t, "lookup")
    /\ Unlocked
    /\ sects[Handle(t)] = None
    /\ Return(t)
    /\ UNCHANGED <<hnd_cs, fs_handles, sects, addrs, events, server, leaked, mem, ref>>

\* The section is known; VirtualAlloc of guard pages follows.
MapAllocate(t, b) ==
    /\ At(t, "lookup")
    /\ Unlocked
    /\ sects[Handle(t)] # None
    /\ LET pages == ViewPages(b, sects[Handle(t)])
       IN  /\ \A a \in pages : a \in Pages /\ mem[a] = "free"
           /\ mem' = [a \in Pages |-> IF a \in pages THEN "guard" ELSE mem[a]]
    /\ Step(t, [call[t] EXCEPT !.pc = "incref", !.at = b, !.file = sects[Handle(t)]])
    /\ UNCHANGED <<hnd_cs, fs_handles, sects, addrs, events, server, leaked, ref>>

\* VirtualAlloc has no memory.  The reference is counted all the same, and
\* the call returns STATUS_ACCESS_DENIED: nobody will ever give it back.
MapNoMemory(t, n) ==
    /\ At(t, "lookup")
    /\ Unlocked
    /\ sects[Handle(t)] # None
    /\ MayLose
    /\ IF fs_handles[Handle(t)] # None
       THEN IncRefWrapperHandle(t) /\ AddRef(t, n, "lost")
       ELSE UNCHANGED <<fs_handles, ref>>
    /\ Return(t)
    /\ UNCHANGED <<hnd_cs, sects, addrs, events, server, leaked, mem>>

\* Slip: the view relies on the reference of its section.
MapIncRef_NotCounted(t, n) ==
    /\ At(t, "incref") /\ Op(t) = "map"
    /\ Unlocked
    /\ fs_handles[Handle(t)] # None
    /\ AddRef(t, n, "taken")
    /\ Step(t, [call[t] EXCEPT !.pc = "insert", !.new = n])
    /\ UNCHANGED <<hnd_cs, fs_handles, sects, addrs, events, server, leaked, mem>>

MapIncRef(t, n) ==
    /\ At(t, "incref") /\ Op(t) = "map"
    /\ Unlocked
    /\ IF fs_handles[Handle(t)] # None
       THEN /\ IncRefWrapperHandle(t)
            /\ AddRef(t, n, "taken")
            /\ Step(t, [call[t] EXCEPT !.pc = "insert", !.new = n])
            /\ UNCHANGED mem
       ELSE /\ mem' = [a \in Pages |-> IF a \in ViewPages(call[t].at, call[t].file)
                                       THEN "free" ELSE mem[a]]
            /\ Return(t)
            /\ UNCHANGED <<fs_handles, ref>>
    /\ UNCHANGED <<hnd_cs, sects, addrs, events, server, leaked>>

MapInsert(t) ==
    /\ At(t, "insert") /\ Op(t) = "map"
    /\ Unlocked
    /\ addrs' = [addrs EXCEPT ![call[t].at] =
                   IF @ # None THEN @
                   ELSE [file_handle |-> Handle(t), file_name |-> call[t].file,
                         ref |-> call[t].new]]
    /\ ref' = [ref EXCEPT ![call[t].new].kind = "view"]
    /\ Return(t)
    /\ UNCHANGED <<hnd_cs, fs_handles, sects, events, server, leaked, mem>>

\* The entry goes first, then the reference, then the memory.
UnmapViewOfSection(t, b) ==
    /\ At(t, "idle")
    /\ Unlocked
    /\ addrs[b] # None
    /\ Unused(addrs[b].ref)
    /\ addrs' = [addrs EXCEPT ![b] = None]
    /\ Step(t, [Idle EXCEPT !.pc = "dec", !.op = "unmap", !.ref = addrs[b].ref,
                            !.handle = addrs[b].file_handle,
                            !.file = addrs[b].file_name, !.at = b])
    /\ UNCHANGED <<hnd_cs, fs_handles, sects, events, server, leaked, mem, ref>>

VirtualFree(t) ==
    /\ At(t, "free")
    /\ mem' = [a \in Pages |-> IF a \in ViewPages(call[t].at, call[t].file)
                               THEN "free" ELSE mem[a]]
    /\ Return(t)
    /\ UNCHANGED <<hnd_cs, fs_handles, sects, addrs, events, server, leaked, ref>>

-----------------------------------------------------------------------------
(* A touch of a view, and PagingVectoredHandler.                           *)

\* The first touch of a guard page raises the exception and makes the page
\* an ordinary one, full of zeros.
Touch(t, b, a) ==
    /\ At(t, "idle")
    /\ addrs[b] # None
    /\ a \in ViewPages(b, addrs[b].file_name)
    /\ mem' = IF mem[a] = "guard" THEN [mem EXCEPT ![a] = "zero"] ELSE mem
    /\ Step(t, [Idle EXCEPT !.pc = IF mem[a] = "guard" THEN "fault" ELSE "load",
                            !.op = "fault", !.ref = addrs[b].ref, !.at = a])
    /\ UNCHANGED <<hnd_cs, fs_handles, sects, addrs, events, server, leaked, ref>>

\* Slip: the end of the view is not looked at.
ViewAt_NoEnd(b, a) == addrs[b] # None /\ b <= a

\* base + size is the first address after the view; the code takes it in.
ViewAt(b, a) == addrs[b] # None /\ b <= a /\ b + PagesOf[addrs[b].file_name] >= a

\* The first entry of the map that matches, in the order of the addresses.
FaultLookup(t) ==
    /\ At(t, "fault")
    /\ Unlocked
    /\ \E b \in Bases :
          /\ ViewAt(b, call[t].at)
          /\ \A c \in Bases : ViewAt(c, call[t].at) => b <= c
          /\ Step(t, [call[t] EXCEPT !.pc = "find", !.handle = addrs[b].file_handle])
    /\ UNCHANGED <<hnd_cs, fs_handles, sects, addrs, events, server, leaked, mem, ref>>

\* The instruction reads the page.
Load(t) ==
    /\ At(t, "load")
    /\ Return(t)
    /\ UNCHANGED <<hnd_cs, fs_handles, sects, addrs, events, server, leaked, mem, ref>>

-----------------------------------------------------------------------------
\* The calls a program may make, and the steps of a call under way.
Begin(t) ==
    \/ \E file \in Files, s \in FsHandles : OpenRequest(t, file, s) \/ OpenReplyLost(t, file, s)
    \/ \E r \in Refs :
          \/ ReadFile(t, r) \/ DuplicateObject(t, r) \/ Close(t, r)
          \/ CreateSection(t, r) \/ MapViewOfSection(t, r)
    \/ \E b \in Bases : UnmapViewOfSection(t, b) \/ \E a \in Pages : Touch(t, b, a)

Locked(t) ==
    \/ FindFsHandle(t) \/ FaultLookup(t) \/ SectionInsert(t) \/ MapInsert(t)
    \/ CloseWrapperHandle(t) \/ CloseWrapperHandle_Last(t) \/ SectionsNotifyCloseHandle(t)
    \/ MapUnknownSection(t) \/ \E b \in Bases : MapAllocate(t, b)
    \/ \E n \in Refs :
          \/ \E h \in Handles : CreateWrapperHandle(t, h, n)
          \/ DuplicateIncRef(t, n) \/ SectionIncRef(t, n)
          \/ MapNoMemory(t, n) \/ MapIncRef(t, n)

Unguarded(t) ==
    \/ RequestAnswered(t) \/ RequestFails(t)
    \/ CloseFSHandle(t) \/ CloseRequestLost(t) \/ ZwCloseEvent(t)
    \/ VirtualFree(t) \/ Load(t)

Next == \E t \in Threads : Begin(t) \/ Locked(t) \/ Unguarded(t)

Spec == Init /\ [][Next]_vars

-----------------------------------------------------------------------------
(* Properties.                                                             *)

Holders(h) == {r \in Refs : ref[r] # None /\ ref[r].handle = h}

\* The count of FTPFILEWRAPPER is the number of the references the process has
\* to the value: handles and their duplicates, sections, views, calls that are
\* adding or giving back one, and those that MapNoMemory has lost; a value
\* without references is not in the map.
RefcntIsHolders ==
    \A h \in Handles :
       IF fs_handles[h] = None THEN Holders(h) = {}
       ELSE /\ Holders(h) # {}
            /\ fs_handles[h].refcnt = Cardinality(Holders(h))

\* What a handle, a section or a mapped view stands for is open at the server
\* and is the file it was made for, whatever was closed and opened since under
\* the same values.
HandleKeepsFile ==
    \A r \in Refs : ref[r] # None =>
       /\ fs_handles[ref[r].handle] # None
       /\ server[fs_handles[ref[r].handle].fs_handle] = ref[r].file

\* A request is sent with the handle FindFsHandle gave some time before, and
\* that of a page fault for the view the handler found: it still reaches the
\* file that the caller means.
RequestsReachTheirFile ==
    \A t \in Threads :
       At(t, "request") => server[call[t].fs_handle] = ref[call[t].ref].file

Closing(h) == \E t \in Threads : call[t].pc \in {"closefs", "zwclose"} /\ Handle(t) = h

\* A value the kernel has back is not in fs_handles, so a handle of another
\* kind that gets the value is not taken for a file of the drive; a value that
\* is in fs_handles or being closed is not given out again.
FreedValueIsForgotten ==
    \A h \in Handles : h \in events <=> fs_handles[h] # None \/ Closing(h)

Owners(s) ==
    {h \in Handles : fs_handles[h] # None /\ fs_handles[h].fs_handle = s}
    \cup {t \in Threads : call[t].pc \in {"create", "closefs"} /\ call[t].fs_handle = s}

\* What is open at the server for this process belongs to one wrapper, or to
\* one call that opens or closes it; only a broken pipe leaves a file open that
\* nobody has.
ServerHandleHasOneOwner ==
    \A s \in FsHandles :
       IF server[s] = None \/ s \in leaked THEN Owners(s) = {}
       ELSE \E o \in Handles \cup Threads : Owners(s) = {o}

\* "Use guard pages to emulate memory mapping" (the settings dialog,
\* src/Res/English/Script1.rc:88): a thread that reads a page of a view gets
\* the bytes of the file that is mapped there.
GuardPagesEmulateMapping ==
    \A t \in Threads : At(t, "load") => mem[call[t].at] = ref[call[t].ref].file

-----------------------------------------------------------------------------
(* The inductive invariant behind the properties.                          *)

\* hnd_cs is kept over several steps by the thread that closes a file.
LockInv == \A t \in Threads : hnd_cs = t <=> call[t].pc \in {"closefs", "zwclose"}

\* What is in a call, by the point it is at.
PointsOf(op) ==
    CASE op = "none" -> {"idle"}
      [] op = "open" -> {"create"}
      [] op = "read" -> {"find", "request"}
      [] op = "section" -> {"find", "request", "incref", "insert"}
      [] op = "map" -> {"lookup", "incref", "insert"}
      [] op = "dup" -> {"incref"}
      [] op = "close" -> {"dec", "closefs", "zwclose", "notify"}
      [] op = "unmap" -> {"dec", "closefs", "zwclose", "notify", "free"}
      [] op = "fault" -> {"fault", "find", "request", "load"}

CallInv(c) ==
    /\ c.pc \in PointsOf(c.op)
    /\ c.ref = None <=> c.pc \in {"idle", "create", "closefs", "zwclose", "notify", "free"}
    /\ c.new # None <=> c.pc = "insert"
    /\ c.handle = None => c.pc \in {"idle", "create", "fault", "load"}
    /\ c.pc \in {"closefs", "zwclose"} => fs_handles[c.handle] = None
    /\ c.pc \in {"request", "create", "closefs"} => c.fs_handle # None
    /\ c.pc = "create" => server[c.fs_handle] = c.file
    /\ c.pc \in {"create", "insert"} => c.file # None
    /\ c.op = "section" /\ c.pc = "incref" => c.file # None
    /\ c.op = "map" /\ c.pc # "lookup" => c.file # None /\ c.at \in Bases
    /\ c.op \in {"fault", "unmap"} => c.at # None

\* The reference of a call is live and of the kind the call needs.
KindsFor(op) ==
    CASE op \in {"read", "section"} -> {"file"}
      [] op = "dup" -> {"file", "section"}
      [] op = "map" -> {"section"}
      [] op = "close" -> {"taken"}
      [] op \in {"unmap", "fault"} -> {"view"}
      [] OTHER -> {}

CallRefInv(c) ==
    c.ref # None =>
       /\ ref[c.ref] # None
       /\ ref[c.ref].kind \in KindsFor(c.op)
       /\ c.op # "fault" => c.handle = ref[c.ref].handle

\* Nobody else uses the reference that a call gives back, or the one it adds.
AloneInv ==
    \A t \in Threads :
       /\ At(t, "dec") => \A u \in Threads \ {t} : call[u].ref # call[t].ref
       /\ At(t, "insert") =>
             /\ ref[call[t].new] # None
             /\ ref[call[t].new].kind = "taken"
             /\ ref[call[t].new].handle = Handle(t)
             /\ \A u \in Threads : call[u].ref # call[t].new
             /\ \A u \in Threads \ {t} : call[u].new # call[t].new

\* A view has a reference of its own.
ViewsInv ==
    \A b \in Bases : addrs[b] # None =>
       /\ ref[addrs[b].ref] # None
       /\ ref[addrs[b].ref].kind = "view"
       /\ ref[addrs[b].ref].handle = addrs[b].file_handle
       /\ \A c \in Bases \ {b} : addrs[c] # None => addrs[c].ref # addrs[b].ref
       /\ \A t \in Threads : At(t, "dec") => call[t].ref # addrs[b].ref

\* No view ends where another may begin.
ViewsApart == \A b, c \in Bases, f \in Files : b < c => b + PagesOf[f] < c

\* The page that is touched is one of the view the thread has; if views are
\* apart the handler finds that view.
FaultInv(c) ==
    /\ c.pc = "fault" =>
          \E b \in Bases : /\ addrs[b] # None
                          /\ addrs[b].ref = c.ref
                          /\ c.at \in ViewPages(b, addrs[b].file_name)
    /\ c.op = "fault" /\ c.pc \in {"find", "request"} /\ ViewsApart =>
          c.handle = ref[c.ref].handle

\* The handle a request is sent with is still the one of the wrapper.
RequestInv(c) ==
    c.pc = "request" /\ (c.op = "fault" => ViewsApart) =>
       /\ fs_handles[c.handle] # None
       /\ c.fs_handle = fs_handles[c.handle].fs_handle

CallsInv ==
    \A t \in Threads : /\ CallInv(call[t]) /\ CallRefInv(call[t])
                       /\ FaultInv(call[t]) /\ RequestInv(call[t])

\* Wrappers and calls own different handles of the server.
OwnersInv ==
    /\ \A s \in leaked : server[s] # None
    /\ \A h \in Handles : fs_handles[h] # None =>
          /\ server[fs_handles[h].fs_handle] # None
          /\ fs_handles[h].fs_handle \notin leaked
          /\ \A k \in Handles \ {h} : fs_handles[k] # None =>
                fs_handles[k].fs_handle # fs_handles[h].fs_handle
    /\ \A t \in Threads : call[t].pc \in {"create", "closefs"} =>
          /\ server[call[t].fs_handle] # None
          /\ call[t].fs_handle \notin leaked
          /\ \A h \in Handles : fs_handles[h] # None =>
                fs_handles[h].fs_handle # call[t].fs_handle
          /\ \A u \in Threads \ {t} : call[u].pc \in {"create", "closefs"} =>
                call[u].fs_handle # call[t].fs_handle
    /\ \A s \in FsHandles : server[s] # None /\ s \notin leaked => Owners(s) # {}

CHInv ==
    /\ CHTypeOK /\ LockInv /\ CallsInv /\ AloneInv /\ ViewsInv /\ OwnersInv
    /\ RefcntIsHolders /\ HandleKeepsFile /\ FreedValueIsForgotten
=============================================================================
