------------------------ MODULE ClientHandlesProofs ------------------------
(***************************************************************************)
(* The inductive invariant of ClientHandles, and what follows from it, for *)
(* any number of threads, values, files and references.                    *)
(*                                                                         *)
(* A call is a record that only its own thread changes, so CallsInv is     *)
(* shown once for the new record of the thread that steps; the calls of    *)
(* the other threads can only be disturbed by what the step changes in the *)
(* maps.  QuietStep takes care of the steps that change none of them.      *)
(***************************************************************************)
EXTENDS ClientHandles, FiniteSetTheorems, TLAPS

\* PointsOf by cases, as facts for the provers.
LEMMA PointsOfOps ==
    /\ PointsOf("none") = {"idle"}
    /\ PointsOf("open") = {"create"}
    /\ PointsOf("read") = {"find", "request"}
    /\ PointsOf("section") = {"find", "request", "incref", "insert"}
    /\ PointsOf("map") = {"lookup", "incref", "insert"}
    /\ PointsOf("dup") = {"incref"}
    /\ PointsOf("close") = {"dec", "closefs", "zwclose", "notify"}
    /\ PointsOf("unmap") = {"dec", "closefs", "zwclose", "notify", "free"}
    /\ PointsOf("fault") = {"fault", "find", "request", "load"}
  BY DEF PointsOf

\* KindsFor by cases.
LEMMA KindsForOps ==
    /\ KindsFor("none") = {}
    /\ KindsFor("open") = {}
    /\ KindsFor("read") = {"file"}
    /\ KindsFor("section") = {"file"}
    /\ KindsFor("dup") = {"file", "section"}
    /\ KindsFor("map") = {"section"}
    /\ KindsFor("close") = {"taken"}
    /\ KindsFor("unmap") = {"view"}
    /\ KindsFor("fault") = {"view"}
  BY DEF KindsFor

\* A step changes the call of its own thread only.
LEMMA StepFacts ==
    ASSUME CHTypeOK, NEW t \in Threads, NEW c \in Calls, Step(t, c)
    PROVE  /\ call' \in [Threads -> Calls]
           /\ call'[t] = c
           /\ \A u \in Threads \ {t} : call'[u] = call[u]
  BY DEF CHTypeOK, Step

\* Idle is a call, and one that says nothing.
LEMMA IdleInv == Idle \in Calls /\ CallInv(Idle) /\ CallRefInv(Idle)
                 /\ FaultInv(Idle) /\ RequestInv(Idle)
  BY PointsOfOps, ThreadsAssumption DEF Idle, Calls, Points, Ops, CallInv, CallRefInv, FaultInv, RequestInv

\* The point of a call is one of those of its operation.
LEMMA CallPoints ==
    ASSUME NEW c \in Calls, CallInv(c)
    PROVE  /\ c.pc \in {"create"} <=> c.op = "open"
           /\ c.pc = "idle" <=> c.op = "none"
           /\ c.op = "read" => c.pc \in {"find", "request"}
           /\ c.op = "section" => c.pc \in {"find", "request", "incref", "insert"}
           /\ c.op = "map" => c.pc \in {"lookup", "incref", "insert"}
           /\ c.op = "dup" => c.pc = "incref"
           /\ c.op = "close" => c.pc \in {"dec", "closefs", "zwclose", "notify"}
           /\ c.op = "unmap" => c.pc \in {"dec", "closefs", "zwclose", "notify", "free"}
           /\ c.op = "fault" => c.pc \in {"fault", "find", "request", "load"}
           /\ c.op \in {"none", "open", "read", "section", "map", "dup", "close", "unmap", "fault"}
  BY PointsOfOps DEF CallInv, Calls, Ops

-----------------------------------------------------------------------------
(* Steps that change nothing but one call, memory and sects.               *)

\* Such a step leaves alone what does not depend on the places of calls.
LEMMA QuietStep ==
    ASSUME CHInv, NEW t \in Threads, NEW c \in Calls, Step(t, c),
           UNCHANGED <<hnd_cs, fs_handles, addrs, events, server, leaked, ref>>,
           mem' \in [Pages -> Files \cup {"free", "guard", "zero"}],
           sects' \in [Handles -> Files \cup {None}],
           call[t].pc \notin {"create", "dec", "insert", "closefs", "zwclose"},
           c.pc \notin {"create", "dec", "insert", "closefs", "zwclose"},
           CallInv(c), CallRefInv(c), FaultInv(c), RequestInv(c),
           \/ c.ref = None
           \/ c.ref = call[t].ref
           \/ ref[c.ref].kind \in {"file", "section"}
           \/ \E b \in Bases : addrs[b] # None /\ c.ref = addrs[b].ref
    PROVE  CHInv'
  <1> USE DEF CHInv, At, Op, Handle
  <1>0. /\ call' \in [Threads -> Calls] /\ call'[t] = c
        /\ \A u \in Threads \ {t} : call'[u] = call[u]
    BY StepFacts
  <1>1. CHTypeOK'
    BY <1>0 DEF CHTypeOK
  <1>2. LockInv'
    BY <1>0 DEF LockInv, CHTypeOK
  <1>3. CallsInv'
    <2>1. \A u \in Threads : CallInv(call[u])' /\ CallRefInv(call[u])'
      BY <1>0 DEF CallsInv, CHTypeOK, CallInv, CallRefInv
    <2>2. \A u \in Threads : FaultInv(call[u])' /\ RequestInv(call[u])'
      BY <1>0 DEF CallsInv, CHTypeOK, FaultInv, RequestInv
    <2>3. QED
      BY <2>1, <2>2 DEF CallsInv
  <1>4. AloneInv'
    <2>1. \A u \in Threads : (At(u, "dec") <=> At(u, "dec")') /\ (At(u, "insert") <=> At(u, "insert")')
      BY <1>0
    <2>2. \A u \in Threads \ {t} : At(u, "dec") => c.ref # call[u].ref
      <3> TAKE u \in Threads \ {t}
      <3> HAVE At(u, "dec")
      <3>1. call[u].ref # None /\ call[u].ref # call[t].ref
        BY DEF AloneInv, CallsInv, CallInv
      <3>2. ref[call[u].ref].kind \notin {"file", "section"}
        BY <3>1, CallPoints, KindsForOps DEF CallsInv, CallRefInv, CHTypeOK
      <3>3. QED
        BY <3>1, <3>2 DEF ViewsInv
    <2>3. \A u \in Threads \ {t} : At(u, "insert") => c.ref # call[u].new
      BY ValuesAssumption DEF AloneInv, CallsInv, CallInv, ViewsInv, CHTypeOK, Calls
    <2>4. \A u \in Threads \ {t} : At(u, "insert") => c.new # call[u].new
      BY DEF CallsInv, CallInv
    <2>5. QED
      BY <1>0, <2>1, <2>2, <2>3, <2>4 DEF AloneInv
  <1>5. ViewsInv'
    BY <1>0 DEF ViewsInv, CHTypeOK
  <1>6. OwnersInv'
    <2>1. \A u \in Threads : call'[u].pc \in {"create", "closefs"} <=> call[u].pc \in {"create", "closefs"}
      BY <1>0
    <2>2. \A u \in Threads : call[u].pc \in {"create", "closefs"} => call'[u].fs_handle = call[u].fs_handle
      BY <1>0
    <2>3. \A s \in FsHandles : Owners(s)' = Owners(s)
      BY <2>1, <2>2 DEF Owners
    <2>4. QED
      BY <2>1, <2>2, <2>3 DEF OwnersInv
  <1>7. RefcntIsHolders' /\ HandleKeepsFile'
    BY DEF RefcntIsHolders, HandleKeepsFile, Holders
  <1>8. FreedValueIsForgotten'
    BY <1>0 DEF FreedValueIsForgotten, Closing, CHTypeOK
  <1>9. QED
    BY <1>1, <1>2, <1>3, <1>4, <1>5, <1>6, <1>7, <1>8

\* A quiet step that ends a call.
LEMMA QuietReturn ==
    ASSUME CHInv, NEW t \in Threads, Return(t),
           UNCHANGED <<hnd_cs, fs_handles, addrs, events, server, leaked, ref>>,
           mem' \in [Pages -> Files \cup {"free", "guard", "zero"}],
           sects' \in [Handles -> Files \cup {None}],
           call[t].pc \notin {"create", "dec", "insert", "closefs", "zwclose"}
    PROVE  CHInv'
  <1>1. Idle.pc = "idle" /\ Idle.ref = None
    BY DEF Idle
  <1>2. QED
    BY <1>1, IdleInv, QuietStep DEF Return

\* A step of a page fault that goes on to the load.
LEMMA QuietLoad ==
    ASSUME CHInv, NEW t \in Threads, Goto(t, "load"), Op(t) = "fault",
           UNCHANGED <<hnd_cs, fs_handles, addrs, events, server, leaked, ref>>,
           mem' \in [Pages -> Files \cup {"free", "guard", "zero"}],
           sects' \in [Handles -> Files \cup {None}]
    PROVE  CHInv'
  <1> USE DEF CHInv, Op
  <1> DEFINE c == call[t]
             d == [c EXCEPT !.pc = "load"]
  <1>1. /\ c \in Calls /\ CallInv(c) /\ CallRefInv(c)
        /\ c.pc \in {"fault", "find", "request", "load"}
    BY CallPoints DEF CHTypeOK, CallsInv
  <1>2. /\ d \in Calls
        /\ d.pc = "load" /\ d.op = "fault" /\ d.ref = c.ref /\ d.new = c.new
        /\ d.handle = c.handle /\ d.at = c.at
    BY <1>1 DEF Calls, Points
  <1>3. Step(t, d)
    BY DEF Goto
  <1> HIDE DEF d
  <1>4. CallInv(d) /\ CallRefInv(d) /\ FaultInv(d) /\ RequestInv(d)
    BY <1>1, <1>2, PointsOfOps DEF CallInv, CallRefInv, FaultInv, RequestInv
  <1>5. QED
    BY <1>1, <1>2, <1>3, <1>4, QuietStep

\* The first step of a call on an owned reference.
LEMMA QuietStart ==
    ASSUME CHInv, NEW t \in Threads, At(t, "idle"), NEW r \in Refs, ref[r] # None,
           NEW op \in {"read", "dup", "section", "map"},
           NEW p \in {"find", "incref", "lookup"}, p \in PointsOf(op),
           ref[r].kind \in KindsFor(op),
           op = "section" => p = "find", op = "map" => p = "lookup",
           Start(t, op, p, r),
           UNCHANGED <<hnd_cs, fs_handles, sects, addrs, events, server, leaked, mem, ref>>
    PROVE  CHInv'
  <1> USE DEF CHInv, At
  <1> DEFINE d == [Idle EXCEPT !.pc = p, !.op = op, !.ref = r, !.handle = ref[r].handle]
  <1>1. ref[r].handle \in Handles
    BY DEF CHTypeOK
  <1>2. /\ d \in Calls
        /\ d.pc = p /\ d.op = op /\ d.ref = r /\ d.new = None
        /\ d.handle = ref[r].handle
    BY <1>1 DEF Idle, Calls, Points, Ops
  <1>3. Step(t, d)
    BY DEF Start
  <1> HIDE DEF d
  <1>4. CallInv(d)
    BY <1>1, <1>2, ValuesAssumption DEF CallInv
  <1>5. CallRefInv(d) /\ FaultInv(d) /\ RequestInv(d)
    BY <1>1, <1>2 DEF CallRefInv, FaultInv, RequestInv
  <1>6. ref[r].kind \in {"file", "section"}
    BY KindsForOps
  <1>7. mem' \in [Pages -> Files \cup {"free", "guard", "zero"}] /\ sects' \in [Handles -> Files \cup {None}]
    BY DEF CHTypeOK
  <1>8. QED
    BY <1>2, <1>3, <1>4, <1>5, <1>6, <1>7, QuietStep

\* The calls that begin with a reference they use.
LEMMA QuietBegin ==
    ASSUME CHInv, NEW t \in Threads, NEW r \in Refs,
           \/ ReadFile(t, r) \/ DuplicateObject(t, r)
           \/ CreateSection(t, r) \/ MapViewOfSection(t, r)
    PROVE  CHInv'
  <1>1. CASE ReadFile(t, r)
    BY <1>1, QuietStart, PointsOfOps, KindsForOps DEF ReadFile, OwnedRefs
  <1>2. CASE DuplicateObject(t, r)
    BY <1>2, QuietStart, PointsOfOps, KindsForOps DEF DuplicateObject, OwnedRefs
  <1>3. CASE CreateSection(t, r)
    BY <1>3, QuietStart, PointsOfOps, KindsForOps DEF CreateSection, OwnedRefs
  <1>4. CASE MapViewOfSection(t, r)
    BY <1>4, QuietStart, PointsOfOps, KindsForOps DEF MapViewOfSection, OwnedRefs
  <1>5. QED
    BY <1>1, <1>2, <1>3, <1>4

\* FindFsHandle reads the handle of the server that the call will use.
LEMMA FindFsHandleStep ==
    ASSUME CHInv, NEW t \in Threads, FindFsHandle(t)
    PROVE  CHInv'
  <1> USE DEF CHInv, FindFsHandle, At, Op, Handle
  <1> DEFINE c == call[t]
             s == fs_handles[c.handle].fs_handle
             d == [c EXCEPT !.pc = "request", !.fs_handle = s]
  <1>1. /\ c \in Calls /\ c.pc = "find" /\ c.handle \in Handles /\ c.ref # None
        /\ CallInv(c) /\ CallRefInv(c) /\ FaultInv(c)
    BY ValuesAssumption DEF CHTypeOK, CallsInv, CallInv, Calls
  <1>2. mem' \in [Pages -> Files \cup {"free", "guard", "zero"}] /\ sects' \in [Handles -> Files \cup {None}]
    BY DEF CHTypeOK
  <1>3. CASE fs_handles[c.handle] # None
    <2>1. s \in FsHandles
      BY <1>1, <1>3 DEF CHTypeOK
    <2>2. /\ d \in Calls
          /\ d.pc = "request" /\ d.fs_handle = s /\ d.op = c.op /\ d.ref = c.ref
          /\ d.new = c.new /\ d.handle = c.handle /\ d.file = c.file /\ d.at = c.at
      BY <1>1, <2>1 DEF Calls, Points
    <2>3. Step(t, d)
      BY <1>3
    <2> HIDE DEF d
    <2>4. d.op \in {"read", "section", "fault"}
      BY <1>1, <2>2, CallPoints
    <2>5. CallInv(d)
      BY <1>1, <2>1, <2>2, <2>4, PointsOfOps, ValuesAssumption DEF CallInv
    <2>6. CallRefInv(d) /\ FaultInv(d) /\ RequestInv(d)
      BY <1>1, <1>3, <2>2, <2>4 DEF CallRefInv, FaultInv, RequestInv
    <2>7. QED
      BY <1>1, <1>2, <2>2, <2>3, <2>5, <2>6, QuietStep
  <1>4. CASE fs_handles[c.handle] = None /\ Op(t) = "fault"
    BY <1>1, <1>2, <1>4, QuietLoad
  <1>5. CASE fs_handles[c.handle] = None /\ Op(t) # "fault"
    BY <1>1, <1>2, <1>5, QuietReturn
  <1>6. QED
    BY <1>3, <1>4, <1>5

\* The handle of a request, and the file of a handle that is asked about.
LEMMA RequestHandle ==
    ASSUME CHInv, NEW t \in Threads, At(t, "request")
    PROVE  /\ call[t].fs_handle \in FsHandles
           /\ call[t].ref \in Refs /\ ref[call[t].ref] # None
           /\ (Op(t) = "fault" => ViewsApart) =>
                 server[call[t].fs_handle] = ref[call[t].ref].file
  <1> USE DEF CHInv, At, Op, Handle
  <1> DEFINE c == call[t]
  <1>1. /\ c \in Calls /\ c.pc = "request"
        /\ CallInv(c) /\ CallRefInv(c) /\ FaultInv(c) /\ RequestInv(c)
    BY DEF CHTypeOK, CallsInv
  <1>2. c.fs_handle \in FsHandles /\ c.ref \in Refs /\ ref[c.ref] # None
    BY <1>1, ValuesAssumption DEF CallInv, CallRefInv, Calls
  <1>3. ASSUME c.op = "fault" => ViewsApart
        PROVE  server[c.fs_handle] = ref[c.ref].file
    <2>1. c.handle = ref[c.ref].handle
      <3>1. CASE c.op = "fault"
        BY <1>1, <1>3, <3>1 DEF FaultInv
      <3>2. CASE c.op # "fault"
        BY <1>1, <1>2, <3>2, ValuesAssumption DEF CallRefInv
      <3>3. QED
        BY <3>1, <3>2
    <2>2. c.fs_handle = fs_handles[ref[c.ref].handle].fs_handle
      BY <1>1, <1>3, <2>1 DEF RequestInv
    <2>3. QED
      BY <1>2, <2>2 DEF HandleKeepsFile
  <1>4. QED
    BY <1>2, <1>3

\* An answer ends a READ, tells the file of a section, or fills the page.
LEMMA RequestAnsweredStep ==
    ASSUME CHInv, NEW t \in Threads, RequestAnswered(t)
    PROVE  CHInv'
  <1> USE DEF CHInv, RequestAnswered, At, Op, Handle
  <1> DEFINE c == call[t]
             file == server[c.fs_handle]
             d == [c EXCEPT !.pc = "incref", !.file = file]
  <1>1. /\ c \in Calls /\ c.pc = "request" /\ c.handle \in Handles /\ c.ref # None
        /\ CallInv(c) /\ CallRefInv(c) /\ FaultInv(c)
    BY ValuesAssumption DEF CHTypeOK, CallsInv, CallInv, Calls
  <1>2. sects' \in [Handles -> Files \cup {None}]
    BY DEF CHTypeOK
  <1>3. file \in Files \cup {None}
    BY RequestHandle DEF CHTypeOK
  <1>4. CASE Op(t) = "read"
    BY <1>1, <1>2, <1>4, QuietReturn DEF CHTypeOK
  <1>5. CASE Op(t) = "section"
    <2>1. /\ d \in Calls
          /\ d.pc = "incref" /\ d.fs_handle = c.fs_handle /\ d.op = "section" /\ d.ref = c.ref
          /\ d.new = c.new /\ d.handle = c.handle /\ d.file = file /\ d.at = c.at
      BY <1>1, <1>3, <1>5 DEF Calls, Points
    <2>2. Step(t, d) /\ UNCHANGED mem
      BY <1>5
    <2> HIDE DEF d
    <2>3. file # None
      BY <1>5, RequestHandle, ValuesAssumption DEF CHTypeOK
    <2>4. CallInv(d)
      BY <1>1, <2>1, <2>3, PointsOfOps, ValuesAssumption DEF CallInv
    <2>5. CallRefInv(d) /\ FaultInv(d) /\ RequestInv(d)
      BY <1>1, <1>5, <2>1 DEF CallRefInv, FaultInv, RequestInv
    <2>6. QED
      BY <1>1, <1>2, <2>1, <2>2, <2>4, <2>5, QuietStep DEF CHTypeOK
  <1>6. CASE Op(t) = "fault"
    <2>1. mem' \in [Pages -> Files \cup {"free", "guard", "zero"}]
      BY <1>3, <1>6 DEF CHTypeOK
    <2>2. QED
      BY <1>2, <1>6, <2>1, QuietLoad
  <1>7. QED
    BY <1>4, <1>5, <1>6

\* A broken pipe ends the call, or the page stays as it is.
LEMMA RequestFailsStep ==
    ASSUME CHInv, NEW t \in Threads, RequestFails(t)
    PROVE  CHInv'
  <1>1. mem' \in [Pages -> Files \cup {"free", "guard", "zero"}] /\ sects' \in [Handles -> Files \cup {None}]
    BY DEF CHInv, CHTypeOK, RequestFails
  <1>2. QED
    BY <1>1, QuietLoad, QuietReturn DEF RequestFails, At

\* A section that is not known is left to the kernel.
LEMMA MapUnknownSectionStep ==
    ASSUME CHInv, NEW t \in Threads, MapUnknownSection(t)
    PROVE  CHInv'
  BY QuietReturn DEF CHInv, CHTypeOK, MapUnknownSection, At

\* The memory of a view is freed last, when nothing names it.
LEMMA VirtualFreeStep ==
    ASSUME CHInv, NEW t \in Threads, VirtualFree(t)
    PROVE  CHInv'
  BY QuietReturn DEF CHInv, CHTypeOK, VirtualFree, At

\* The load of a page ends the touch.
LEMMA LoadStep ==
    ASSUME CHInv, NEW t \in Threads, Load(t)
    PROVE  CHInv'
  BY QuietReturn DEF CHInv, CHTypeOK, Load, At

\* The memory of a view comes before its reference and its entry.
LEMMA MapAllocateStep ==
    ASSUME CHInv, NEW t \in Threads, NEW b \in Bases, MapAllocate(t, b)
    PROVE  CHInv'
  <1> USE DEF CHInv, MapAllocate, At, Op, Handle
  <1> DEFINE c == call[t]
             file == sects[c.handle]
             d == [c EXCEPT !.pc = "incref", !.at = b, !.file = file]
  <1>1. /\ c \in Calls /\ c.pc = "lookup" /\ c.handle \in Handles /\ c.ref # None
        /\ CallInv(c) /\ CallRefInv(c)
    BY ValuesAssumption DEF CHTypeOK, CallsInv, CallInv, Calls
  <1>2. c.op = "map"
    BY <1>1, CallPoints
  <1>3. file \in Files /\ file # None /\ b \in Pages /\ b # None
    BY <1>1, MemoryAssumption, ValuesAssumption DEF CHTypeOK, Pages
  <1>4. /\ d \in Calls
        /\ d.pc = "incref" /\ d.fs_handle = c.fs_handle /\ d.op = "map" /\ d.ref = c.ref
        /\ d.new = c.new /\ d.handle = c.handle /\ d.file = file /\ d.at = b
    BY <1>1, <1>2, <1>3 DEF Calls, Points
  <1>5. Step(t, d)
    OBVIOUS
  <1> HIDE DEF d
  <1>6. CallInv(d)
    BY <1>1, <1>2, <1>3, <1>4, PointsOfOps, ValuesAssumption DEF CallInv
  <1>7. CallRefInv(d) /\ FaultInv(d) /\ RequestInv(d)
    BY <1>1, <1>2, <1>4 DEF CallRefInv, FaultInv, RequestInv
  <1>8. mem' \in [Pages -> Files \cup {"free", "guard", "zero"}] /\ sects' \in [Handles -> Files \cup {None}]
    BY DEF CHTypeOK
  <1>9. QED
    BY <1>1, <1>4, <1>5, <1>6, <1>7, <1>8, QuietStep

\* A touch starts with the reference of the view.
LEMMA TouchStep ==
    ASSUME CHInv, NEW t \in Threads, NEW b \in Bases, NEW a \in Pages, Touch(t, b, a)
    PROVE  CHInv'
  <1> USE DEF CHInv, Touch, At, Op, Handle
  <1> DEFINE p == IF mem[a] = "guard" THEN "fault" ELSE "load"
             d == [Idle EXCEPT !.pc = p, !.op = "fault", !.ref = addrs[b].ref, !.at = a]
  <1>1. addrs[b].ref \in Refs /\ ref[addrs[b].ref] # None /\ ref[addrs[b].ref].kind = "view"
    BY DEF CHTypeOK, ViewsInv
  <1>2. /\ d \in Calls
        /\ d.pc = p /\ d.op = "fault" /\ d.ref = addrs[b].ref
        /\ d.new = None /\ d.at = a
    BY <1>1 DEF Idle, Calls, Points, Ops
  <1>3. Step(t, d)
    OBVIOUS
  <1>4. a \in ViewPages(b, addrs[b].file_name) /\ a # None
    BY MemoryAssumption DEF Pages
  <1> HIDE DEF d
  <1>5. CallInv(d)
    BY <1>1, <1>2, <1>4, PointsOfOps, ValuesAssumption DEF CallInv
  <1>6. CallRefInv(d) /\ FaultInv(d) /\ RequestInv(d)
    BY <1>1, <1>2, <1>4, KindsForOps DEF CallRefInv, FaultInv, RequestInv
  <1>7. mem' \in [Pages -> Files \cup {"free", "guard", "zero"}] /\ sects' \in [Handles -> Files \cup {None}]
    BY DEF CHTypeOK
  <1>8. QED
    BY <1>2, <1>3, <1>5, <1>6, <1>7, QuietStep

\* If views are apart, the view found for a page is the one the page is in.
LEMMA FaultLookupFinds ==
    ASSUME CHTypeOK, ViewsApart, NEW b \in Bases, NEW c \in Bases, NEW a \in Pages,
           ViewAt(b, a), \A e \in Bases : ViewAt(e, a) => b <= e,
           addrs[c] # None, a \in ViewPages(c, addrs[c].file_name)
    PROVE  b = c
  <1>1. /\ b \in Nat /\ c \in Nat /\ a \in Nat
        /\ addrs[b] # None /\ addrs[b].file_name \in Files /\ addrs[c].file_name \in Files
        /\ PagesOf[addrs[b].file_name] \in Nat /\ PagesOf[addrs[c].file_name] \in Nat
    BY MemoryAssumption DEF CHTypeOK, Pages, ViewAt
  <1>2. c <= a /\ a <= c + PagesOf[addrs[c].file_name]
    BY <1>1 DEF ViewPages
  <1>3. b <= c
    BY <1>2 DEF ViewAt
  <1>4. CASE b < c
    BY <1>1, <1>2, <1>4 DEF ViewsApart, ViewAt
  <1>5. QED
    BY <1>1, <1>3, <1>4

\* The handler takes the first view that the page may be in.
LEMMA FaultLookupStep ==
    ASSUME CHInv, NEW t \in Threads, FaultLookup(t)
    PROVE  CHInv'
  <1> USE DEF CHInv, FaultLookup, At, Op, Handle
  <1>1. PICK b \in Bases :
          /\ ViewAt(b, call[t].at)
          /\ \A e \in Bases : ViewAt(e, call[t].at) => b <= e
          /\ Step(t, [call[t] EXCEPT !.pc = "find", !.handle = addrs[b].file_handle])
    OBVIOUS
  <1> DEFINE c == call[t]
             d == [c EXCEPT !.pc = "find", !.handle = addrs[b].file_handle]
  <1>2. /\ c \in Calls /\ c.pc = "fault"
        /\ CallInv(c) /\ CallRefInv(c) /\ FaultInv(c)
    BY DEF CHTypeOK, CallsInv
  <1>3. c.op = "fault" /\ c.ref # None /\ c.at \in Pages
    BY <1>2, CallPoints DEF CallInv, Calls
  <1>4. addrs[b].file_handle \in Handles
    BY <1>1 DEF CHTypeOK, ViewAt
  <1>5. /\ d \in Calls
        /\ d.pc = "find" /\ d.fs_handle = c.fs_handle /\ d.op = "fault" /\ d.ref = c.ref
        /\ d.new = c.new /\ d.handle = addrs[b].file_handle /\ d.at = c.at
    BY <1>2, <1>3, <1>4 DEF Calls, Points
  <1>6. Step(t, d)
    BY <1>1
  <1> HIDE DEF d
  <1>7. CallInv(d)
    BY <1>2, <1>3, <1>4, <1>5, PointsOfOps, ValuesAssumption DEF CallInv
  <1>8. CallRefInv(d) /\ RequestInv(d)
    BY <1>2, <1>3, <1>5 DEF CallRefInv, RequestInv
  <1>9. FaultInv(d)
    <2>1. ASSUME ViewsApart  PROVE addrs[b].file_handle = ref[c.ref].handle
      <3>1. PICK v \in Bases : /\ addrs[v] # None /\ addrs[v].ref = c.ref
                              /\ c.at \in ViewPages(v, addrs[v].file_name)
        BY <1>2 DEF FaultInv
      <3>2. b = v
        BY <1>1, <1>3, <2>1, <3>1, FaultLookupFinds
      <3>3. QED
        BY <3>1, <3>2 DEF ViewsInv
    <2>2. QED
      BY <1>5, <2>1 DEF FaultInv
  <1>10. mem' \in [Pages -> Files \cup {"free", "guard", "zero"}] /\ sects' \in [Handles -> Files \cup {None}]
    BY DEF CHTypeOK
  <1>11. QED
    BY <1>2, <1>5, <1>6, <1>7, <1>8, <1>9, <1>10, QuietStep

\* The other threads keep what they have to themselves when a thread takes a
\* step after which its call names no reference.
LEMMA AloneKept ==
    ASSUME CHInv, NEW t \in Threads, NEW d \in Calls,
           call'[t] = d, \A u \in Threads \ {t} : call'[u] = call[u],
           d.ref = None, d.new = None, d.pc \notin {"dec", "insert"},
           \A u \in Threads \ {t} :
              At(u, "insert") => ref'[call[u].new] = ref[call[u].new]
    PROVE  AloneInv'
  <1> USE DEF CHInv, At, Op, Handle
  <1> SUFFICES ASSUME NEW u \in Threads \ {t}
               PROVE  /\ At(u, "dec") => \A v \in Threads \ {u} : call'[v].ref # call[u].ref
                      /\ At(u, "insert") =>
                            /\ ref'[call[u].new] # None
                            /\ ref'[call[u].new].kind = "taken"
                            /\ ref'[call[u].new].handle = call[u].handle
                            /\ \A v \in Threads : call'[v].ref # call[u].new
                            /\ \A v \in Threads \ {u} : call'[v].new # call[u].new
    BY DEF AloneInv
  <1>1. CallInv(call[u])
    BY DEF CallsInv
  <1>2. ASSUME At(u, "dec"), NEW v \in Threads \ {u}
        PROVE  call'[v].ref # call[u].ref
    BY <1>1, <1>2 DEF AloneInv, CallInv
  <1>3. ASSUME At(u, "insert")
        PROVE  /\ ref'[call[u].new] # None
               /\ ref'[call[u].new].kind = "taken"
               /\ ref'[call[u].new].handle = call[u].handle
               /\ \A v \in Threads : call'[v].ref # call[u].new
               /\ \A v \in Threads \ {u} : call'[v].new # call[u].new
    <2>1. call[u].new # None
      BY <1>1, <1>3 DEF CallInv
    <2>2. ref'[call[u].new] = ref[call[u].new]
      BY <1>3
    <2>3. \A v \in Threads : call'[v].ref # call[u].new
      BY <1>3, <2>1 DEF AloneInv
    <2>4. \A v \in Threads \ {u} : call'[v].new # call[u].new
      BY <1>3, <2>1 DEF AloneInv
    <2>5. QED
      BY <1>3, <2>2, <2>3, <2>4 DEF AloneInv
  <1>4. QED
    BY <1>2, <1>3

-----------------------------------------------------------------------------
(* Steps at the server: OPEN and CLOSE.                                    *)

\* An owner is a wrapper or a call.
LEMMA OwnersMember ==
    ASSUME NEW s \in FsHandles
    PROVE  Owners(s) # {} <=>
             \/ \E h \in Handles : fs_handles[h] # None /\ fs_handles[h].fs_handle = s
             \/ \E t \in Threads : call[t].pc \in {"create", "closefs"} /\ call[t].fs_handle = s
  BY DEF Owners

\* The handle that the server opens belongs to the call that opens it.
LEMMA OpenRequestStep ==
    ASSUME CHInv, NEW t \in Threads, NEW file \in Files, NEW s \in FsHandles,
           OpenRequest(t, file, s)
    PROVE  CHInv'
  <1> USE DEF CHInv, OpenRequest, At, Op, Handle
  <1> DEFINE d == [Idle EXCEPT !.pc = "create", !.op = "open", !.fs_handle = s, !.file = file]
  <1>1. /\ d \in Calls
        /\ d.pc = "create" /\ d.op = "open" /\ d.fs_handle = s /\ d.file = file
        /\ d.ref = None /\ d.new = None /\ d.handle = None
    BY DEF Idle, Calls, Points, Ops
  <1>2. Step(t, d)
    OBVIOUS
  <1> HIDE DEF d
  <1>3. /\ call' \in [Threads -> Calls] /\ call'[t] = d
        /\ \A u \in Threads \ {t} : call'[u] = call[u]
    BY <1>1, <1>2, StepFacts
  <1>4. CHTypeOK'
    BY <1>3 DEF CHTypeOK
  <1>5. LockInv'
    BY <1>1, <1>3 DEF LockInv, CHTypeOK
  <1>6. CallsInv'
    <2>1. CallInv(d)' /\ CallRefInv(d)' /\ FaultInv(d)' /\ RequestInv(d)'
      BY <1>1, PointsOfOps, ValuesAssumption DEF CallInv, CallRefInv, FaultInv, RequestInv, CHTypeOK
    <2>2. ASSUME NEW u \in Threads \ {t}
          PROVE  CallInv(call[u])' /\ CallRefInv(call[u])' /\ FaultInv(call[u])' /\ RequestInv(call[u])'
      <3>1. CallInv(call[u]) /\ CallRefInv(call[u]) /\ FaultInv(call[u]) /\ RequestInv(call[u])
            /\ call[u] \in Calls
        BY DEF CallsInv, CHTypeOK
      <3>2. call[u].pc = "create" => call[u].fs_handle # s
        BY DEF OwnersInv
      <3>3. CallInv(call[u])'
        BY <1>3, <3>1, <3>2 DEF CallInv, CHTypeOK, Calls
      <3>4. CallRefInv(call[u])' /\ FaultInv(call[u])' /\ RequestInv(call[u])'
        BY <1>3, <3>1 DEF CallRefInv, FaultInv, RequestInv
      <3>5. QED
        BY <3>3, <3>4
    <2>3. QED
      BY <1>3, <2>1, <2>2 DEF CallsInv, CallInv, CallRefInv, FaultInv, RequestInv
  <1>7. AloneInv'
    BY <1>1, <1>3, AloneKept
  <1>8. ViewsInv'
    BY <1>1, <1>3 DEF ViewsInv
  <1>9. OwnersInv'
    <2>1. s \notin leaked /\ server'[s] = file /\ file # None
          /\ \A z \in FsHandles \ {s} : server'[z] = server[z]
      BY ValuesAssumption DEF OwnersInv, CHTypeOK
    <2>2. (\A z \in leaked : server[z] # None)'
      BY <2>1 DEF OwnersInv, CHTypeOK
    <2>3. \A h \in Handles : fs_handles[h] # None => fs_handles[h].fs_handle # s /\ fs_handles[h].fs_handle \in FsHandles
      BY DEF OwnersInv, CHTypeOK
    <2>4. \A u \in Threads : call[u].pc \in {"create", "closefs"} =>
             call[u].fs_handle # s /\ call[u].fs_handle \in FsHandles
      BY DEF OwnersInv, CHTypeOK, CallsInv, CallInv, Calls
    <2>5. \A z \in FsHandles : (server[z] # None /\ z \notin leaked => Owners(z) # {})'
      BY <1>1, <1>3, <2>1 DEF OwnersInv, Owners
    <2>6. QED
      BY <1>1, <1>3, <2>1, <2>2, <2>3, <2>4, <2>5 DEF OwnersInv
  <1>10. RefcntIsHolders'
    BY DEF RefcntIsHolders, Holders
  <1>11. HandleKeepsFile'
    BY DEF HandleKeepsFile, OwnersInv, CHTypeOK
  <1>12. FreedValueIsForgotten'
    BY <1>1, <1>3 DEF FreedValueIsForgotten, Closing
  <1>13. QED
    BY <1>4, <1>5, <1>6, <1>7, <1>8, <1>9, <1>10, <1>11, <1>12

\* A file whose OPEN is not answered is open and belongs to nobody.
LEMMA OpenReplyLostStep ==
    ASSUME CHInv, NEW t \in Threads, NEW file \in Files, NEW s \in FsHandles,
           OpenReplyLost(t, file, s)
    PROVE  CHInv'
  <1> USE DEF CHInv, OpenReplyLost, At, Op, Handle
  <1>1. CHTypeOK' /\ LockInv'
    BY DEF CHTypeOK, LockInv
  <1>2. server'[s] = file /\ file # None /\ \A z \in FsHandles \ {s} : server'[z] = server[z]
    BY ValuesAssumption DEF CHTypeOK
  <1>3. \A h \in Handles : fs_handles[h] # None => fs_handles[h].fs_handle # s /\ fs_handles[h].fs_handle \in FsHandles
    BY DEF OwnersInv, CHTypeOK
  <1>4. \A u \in Threads : call[u].pc \in {"create", "closefs"} =>
             call[u].fs_handle # s /\ call[u].fs_handle \in FsHandles
    BY DEF OwnersInv, CHTypeOK, CallsInv, CallInv, Calls
  <1>5. CallsInv'
    <2> SUFFICES ASSUME NEW u \in Threads
                 PROVE  CallInv(call[u])' /\ CallRefInv(call[u])' /\ FaultInv(call[u])' /\ RequestInv(call[u])'
      BY DEF CallsInv
    <2>1. CallInv(call[u]) /\ CallRefInv(call[u]) /\ FaultInv(call[u]) /\ RequestInv(call[u])
      BY DEF CallsInv
    <2>2. CallInv(call[u])'
      BY <1>2, <1>4, <2>1 DEF CallInv
    <2>3. QED
      BY <2>1, <2>2 DEF CallRefInv, FaultInv, RequestInv
  <1>6. AloneInv' /\ ViewsInv'
    BY DEF AloneInv, ViewsInv
  <1>7. OwnersInv'
    <2>1. (\A z \in leaked : server[z] # None)'
      BY <1>2 DEF OwnersInv, CHTypeOK
    <2>2. \A z \in FsHandles : (server[z] # None /\ z \notin leaked => Owners(z) # {})'
      BY <1>2 DEF OwnersInv, Owners
    <2>3. QED
      BY <1>2, <1>3, <1>4, <2>1, <2>2 DEF OwnersInv
  <1>8. RefcntIsHolders' /\ HandleKeepsFile'
    <2>1. RefcntIsHolders'
      BY DEF RefcntIsHolders, Holders
    <2>2. HandleKeepsFile'
      BY <1>3 DEF HandleKeepsFile, CHTypeOK
    <2>3. QED
      BY <2>1, <2>2
  <1>9. FreedValueIsForgotten'
    BY DEF FreedValueIsForgotten, Closing
  <1>10. QED
    BY <1>1, <1>5, <1>6, <1>7, <1>8, <1>9

\* The server closes the file of the wrapper that is gone.
LEMMA CloseFSHandleStep ==
    ASSUME CHInv, NEW t \in Threads, CloseFSHandle(t)
    PROVE  CHInv'
  <1> USE DEF CHInv, CloseFSHandle, At, Op, Handle
  <1> DEFINE c == call[t]
             s == c.fs_handle
  <1>1. /\ c \in Calls /\ c.pc = "closefs" /\ c.op \in {"close", "unmap"}
        /\ CallInv(c) /\ s \in FsHandles
    BY CallPoints DEF CHTypeOK, CallsInv, CallInv, Calls
  <1>0. PICK d \in Calls : d = [c EXCEPT !.pc = "zwclose"]
    BY <1>1 DEF Calls, Points
  <1>2. /\ d.pc = "zwclose" /\ d.op = c.op /\ d.fs_handle = s /\ d.file = c.file
        /\ d.ref = c.ref /\ d.new = c.new /\ d.handle = c.handle /\ d.at = c.at
    BY <1>0, <1>1 DEF Calls
  <1>3. Step(t, d)
    BY <1>0 DEF Goto
  <1>4. /\ call' \in [Threads -> Calls] /\ call'[t] = d
        /\ \A u \in Threads \ {t} : call'[u] = call[u]
    BY <1>2, <1>3, StepFacts
  <1>5. CHTypeOK'
    BY <1>4 DEF CHTypeOK
  <1>6. LockInv'
    BY <1>1, <1>2, <1>4 DEF LockInv
  <1>7. /\ server'[s] = None /\ \A z \in FsHandles \ {s} : server'[z] = server[z]
        /\ s \notin leaked
        /\ \A h \in Handles : fs_handles[h] # None =>
              fs_handles[h].fs_handle # s /\ fs_handles[h].fs_handle \in FsHandles
        /\ \A u \in Threads \ {t} : call[u].pc \in {"create", "closefs"} =>
              call[u].fs_handle # s /\ call[u].fs_handle \in FsHandles
    BY <1>1 DEF OwnersInv, CHTypeOK, CallsInv, CallInv, Calls
  <1>8. CallsInv'
    <2>1. CallInv(d)' /\ CallRefInv(d)' /\ FaultInv(d)' /\ RequestInv(d)'
      BY <1>1, <1>2, PointsOfOps DEF CallInv, CallRefInv, FaultInv, RequestInv
    <2>2. ASSUME NEW u \in Threads \ {t}
          PROVE  CallInv(call[u])' /\ CallRefInv(call[u])' /\ FaultInv(call[u])' /\ RequestInv(call[u])'
      <3>1. CallInv(call[u]) /\ CallRefInv(call[u]) /\ FaultInv(call[u]) /\ RequestInv(call[u])
        BY DEF CallsInv
      <3>2. CallInv(call[u])'
        BY <1>4, <1>7, <3>1 DEF CallInv
      <3>3. CallRefInv(call[u])' /\ FaultInv(call[u])' /\ RequestInv(call[u])'
        BY <1>4, <3>1 DEF CallRefInv, FaultInv, RequestInv
      <3>4. QED
        BY <3>2, <3>3
    <2>3. QED
      BY <1>4, <2>1, <2>2 DEF CallsInv, CallInv, CallRefInv, FaultInv, RequestInv
  <1>9. AloneInv'
    BY <1>1, <1>2, <1>4, AloneKept DEF CallInv
  <1>10. ViewsInv'
    BY <1>1, <1>2, <1>4 DEF ViewsInv
  <1>11. OwnersInv'
    <2>1. (\A z \in leaked : server[z] # None)'
      BY <1>7 DEF OwnersInv, CHTypeOK
    <2>2. \A z \in FsHandles : (server[z] # None /\ z \notin leaked => Owners(z) # {})'
      BY <1>4, <1>7 DEF OwnersInv, Owners
    <2>3. QED
      BY <1>2, <1>4, <1>7, <2>1, <2>2 DEF OwnersInv
  <1>12. RefcntIsHolders'
    BY DEF RefcntIsHolders, Holders
  <1>13. HandleKeepsFile'
    BY <1>7 DEF HandleKeepsFile, CHTypeOK
  <1>14. FreedValueIsForgotten'
    BY <1>1, <1>2, <1>4 DEF FreedValueIsForgotten, Closing
  <1>15. QED
    BY <1>5, <1>6, <1>8, <1>9, <1>10, <1>11, <1>12, <1>13, <1>14

\* A file whose CLOSE is lost stays open and belongs to nobody.
LEMMA CloseRequestLostStep ==
    ASSUME CHInv, NEW t \in Threads, CloseRequestLost(t)
    PROVE  CHInv'
  <1> USE DEF CHInv, CloseRequestLost, At, Op, Handle
  <1> DEFINE c == call[t]
             s == c.fs_handle
  <1>1. /\ c \in Calls /\ c.pc = "closefs" /\ c.op \in {"close", "unmap"}
        /\ CallInv(c) /\ s \in FsHandles
    BY CallPoints DEF CHTypeOK, CallsInv, CallInv, Calls
  <1>0. PICK d \in Calls : d = [c EXCEPT !.pc = "zwclose"]
    BY <1>1 DEF Calls, Points
  <1>2. /\ d.pc = "zwclose" /\ d.op = c.op /\ d.fs_handle = s /\ d.file = c.file
        /\ d.ref = c.ref /\ d.new = c.new /\ d.handle = c.handle /\ d.at = c.at
    BY <1>0, <1>1 DEF Calls
  <1>3. Step(t, d)
    BY <1>0 DEF Goto
  <1>4. /\ call' \in [Threads -> Calls] /\ call'[t] = d
        /\ \A u \in Threads \ {t} : call'[u] = call[u]
    BY <1>2, <1>3, StepFacts
  <1>5. CHTypeOK'
    BY <1>1, <1>4 DEF CHTypeOK
  <1>6. LockInv'
    BY <1>1, <1>2, <1>4 DEF LockInv
  <1>7. /\ \A h \in Handles : fs_handles[h] # None => fs_handles[h].fs_handle # s
        /\ \A u \in Threads \ {t} : call[u].pc \in {"create", "closefs"} => call[u].fs_handle # s
    BY <1>1 DEF OwnersInv
  <1>8. CallsInv'
    <2>1. CallInv(d)' /\ CallRefInv(d)' /\ FaultInv(d)' /\ RequestInv(d)'
      BY <1>1, <1>2, PointsOfOps DEF CallInv, CallRefInv, FaultInv, RequestInv
    <2>2. \A u \in Threads \ {t} : CallInv(call[u])' /\ CallRefInv(call[u])' /\ FaultInv(call[u])' /\ RequestInv(call[u])'
      BY <1>4 DEF CallsInv, CallInv, CallRefInv, FaultInv, RequestInv
    <2>3. QED
      BY <1>4, <2>1, <2>2 DEF CallsInv, CallInv, CallRefInv, FaultInv, RequestInv
  <1>9. AloneInv'
    BY <1>1, <1>2, <1>4, AloneKept DEF CallInv
  <1>10. ViewsInv'
    BY <1>1, <1>2, <1>4 DEF ViewsInv
  <1>11. OwnersInv'
    <2>1. (\A z \in leaked : server[z] # None)'
      BY <1>1 DEF OwnersInv, CHTypeOK
    <2>2. \A z \in FsHandles : (server[z] # None /\ z \notin leaked => Owners(z) # {})'
      BY <1>4, <1>7 DEF OwnersInv, Owners
    <2>3. QED
      BY <1>2, <1>4, <1>7, <2>1, <2>2 DEF OwnersInv
  <1>12. RefcntIsHolders' /\ HandleKeepsFile'
    BY DEF RefcntIsHolders, Holders, HandleKeepsFile
  <1>13. FreedValueIsForgotten'
    BY <1>1, <1>2, <1>4 DEF FreedValueIsForgotten, Closing
  <1>14. QED
    BY <1>5, <1>6, <1>8, <1>9, <1>10, <1>11, <1>12, <1>13

\* The section entry of the value is erased, no reference with it.
LEMMA SectionsNotifyCloseHandleStep ==
    ASSUME CHInv, NEW t \in Threads, SectionsNotifyCloseHandle(t)
    PROVE  CHInv'
  <1> USE DEF CHInv, SectionsNotifyCloseHandle, AfterClose, At, Op, Handle
  <1> DEFINE c == call[t]
             d == [c EXCEPT !.pc = "free"]
  <1>1. c \in Calls /\ c.pc = "notify" /\ CallInv(c)
    BY DEF CHTypeOK, CallsInv
  <1>2. mem' \in [Pages -> Files \cup {"free", "guard", "zero"}] /\ sects' \in [Handles -> Files \cup {None}]
    BY DEF CHTypeOK
  <1>3. CASE c.op = "unmap"
    <2>1. /\ d \in Calls
          /\ d.pc = "free" /\ d.op = "unmap"
          /\ d.ref = c.ref /\ d.new = c.new /\ d.handle = c.handle /\ d.at = c.at
      BY <1>1, <1>3 DEF Calls, Points
    <2>2. Step(t, d)
      BY <1>3 DEF Goto
    <2> HIDE DEF d
    <2>3. CallInv(d) /\ CallRefInv(d) /\ FaultInv(d) /\ RequestInv(d)
      BY <1>1, <1>3, <2>1, PointsOfOps DEF CallInv, CallRefInv, FaultInv, RequestInv
    <2>4. QED
      BY <1>1, <1>2, <2>1, <2>2, <2>3, QuietStep DEF CallInv
  <1>4. CASE c.op # "unmap"
    BY <1>1, <1>2, <1>4, QuietReturn
  <1>5. QED
    BY <1>3, <1>4

\* The value goes back to the kernel when no entry names it.
LEMMA ZwCloseEventStep ==
    ASSUME CHInv, NEW t \in Threads, ZwCloseEvent(t)
    PROVE  CHInv'
  <1> USE DEF CHInv, ZwCloseEvent, AfterClose, At, Op, Handle
  <1> DEFINE c == call[t]
  <1>1. /\ c \in Calls /\ c.pc = "zwclose" /\ c.op \in {"close", "unmap"} /\ CallInv(c)
    BY CallPoints DEF CHTypeOK, CallsInv
  <1>0. PICK d \in Calls : d = IF c.op = "unmap" THEN [c EXCEPT !.pc = "free"] ELSE Idle
    BY <1>1, IdleInv DEF Calls, Points
  <1>2. /\ d.pc \in {"free", "idle"} /\ d.ref = None /\ d.new = None
        /\ CallInv(d) /\ CallRefInv(d) /\ FaultInv(d) /\ RequestInv(d)
    <2>1. CASE c.op = "unmap"
      <3>1. /\ d.pc = "free" /\ d.op = "unmap"
            /\ d.ref = c.ref /\ d.new = c.new /\ d.handle = c.handle /\ d.at = c.at
        BY <1>0, <1>1, <2>1 DEF Calls
      <3>2. QED
        BY <1>1, <2>1, <3>1, PointsOfOps DEF CallInv, CallRefInv, FaultInv, RequestInv
    <2>2. CASE c.op # "unmap"
      <3>1. d = Idle /\ d.pc = "idle" /\ d.ref = None /\ d.new = None
        BY <1>0, <2>2 DEF Idle
      <3>2. QED
        BY <3>1, IdleInv
    <2>3. QED
      BY <2>1, <2>2
  <1>3. Step(t, d)
    BY <1>0 DEF Goto, Return
  <1>4. /\ call' \in [Threads -> Calls] /\ call'[t] = d
        /\ \A u \in Threads \ {t} : call'[u] = call[u]
    BY <1>2, <1>3, StepFacts
  <1>5. CHTypeOK'
    BY <1>4 DEF CHTypeOK
  <1>6. LockInv'
    BY <1>1, <1>2, <1>4, ThreadsAssumption DEF LockInv
  <1>7. CallsInv'
    BY <1>2, <1>4 DEF CallsInv, CallInv, CallRefInv, FaultInv, RequestInv
  <1>8. AloneInv'
    BY <1>1, <1>2, <1>4, AloneKept DEF CallInv
  <1>9. ViewsInv'
    BY <1>1, <1>2, <1>4 DEF ViewsInv
  <1>10. OwnersInv'
    <2>1. \A z \in FsHandles : (server[z] # None /\ z \notin leaked => Owners(z) # {})'
      BY <1>1, <1>4 DEF OwnersInv, Owners
    <2>2. QED
      BY <1>1, <1>2, <1>4, <2>1 DEF OwnersInv
  <1>11. RefcntIsHolders' /\ HandleKeepsFile'
    BY DEF RefcntIsHolders, Holders, HandleKeepsFile
  <1>12. FreedValueIsForgotten'
    <2>1. fs_handles[c.handle] = None
      BY <1>1 DEF CallInv
    <2>2. QED
      BY <1>1, <1>2, <1>4, <2>1 DEF FreedValueIsForgotten, Closing, LockInv
  <1>13. QED
    BY <1>5, <1>6, <1>7, <1>8, <1>9, <1>10, <1>11, <1>12

-----------------------------------------------------------------------------
(* Steps that add a reference.                                             *)

\* The references to a value are finitely many, and at most Refs.
LEMMA HoldersFinite ==
    ASSUME NEW h \in Handles
    PROVE  IsFiniteSet(Holders(h)) /\ Cardinality(Holders(h)) \in Nat
  <1>1. Holders(h) \subseteq Refs
    BY DEF Holders
  <1>2. IsFiniteSet(Holders(h))
    BY <1>1, ValuesAssumption, FS_Subset
  <1>3. QED
    BY <1>2, FS_CardinalityType

\* A new value has one reference and the handle the call has opened.
LEMMA CreateWrapperHandleStep ==
    ASSUME CHInv, NEW t \in Threads, NEW h \in Handles, NEW n \in Refs,
           CreateWrapperHandle(t, h, n)
    PROVE  CHInv'
  <1> USE DEF CHInv, CreateWrapperHandle, At, Op, Handle, Unlocked, FreeRefs
  <1> DEFINE c == call[t]
             s == c.fs_handle
  <1>1. /\ c \in Calls /\ c.pc = "create" /\ CallInv(c)
        /\ s \in FsHandles /\ c.file \in Files /\ server[s] = c.file
    BY DEF CHTypeOK, CallsInv, CallInv, Calls
  <1>2. Step(t, Idle) /\ Idle.pc = "idle" /\ Idle.ref = None /\ Idle.new = None
    BY DEF Idle, Return
  <1>3. /\ call' \in [Threads -> Calls] /\ call'[t] = Idle
        /\ \A u \in Threads \ {t} : call'[u] = call[u]
    BY <1>2, IdleInv, StepFacts
  <1>4. /\ fs_handles'[h] = [fs_handle |-> s, refcnt |-> 1] /\ fs_handles'[h] # None
        /\ fs_handles'[h].fs_handle = s /\ fs_handles'[h].refcnt = 1
        /\ \A k \in Handles \ {h} : fs_handles'[k] = fs_handles[k]
        /\ ref'[n] = [kind |-> "file", handle |-> h, file |-> c.file] /\ ref'[n] # None
        /\ ref'[n].kind = "file" /\ ref'[n].handle = h /\ ref'[n].file = c.file
        /\ \A r \in Refs \ {n} : ref'[r] = ref[r]
        /\ ref[n] = None /\ events' = events \cup {h}
    BY <1>1, EntriesAssumption DEF CHTypeOK, Kinds
  <1>5. fs_handles[h] = None /\ ~Closing(h) /\ h \notin events
    BY DEF FreedValueIsForgotten
  <1>6. \A u \in Threads : call[u].pc \notin {"closefs", "zwclose"}
    BY ThreadsAssumption DEF LockInv
  <1>7. CHTypeOK'
    <2>1. [fs_handle |-> s, refcnt |-> 1] \in [fs_handle : FsHandles, refcnt : Nat]
      BY <1>1
    <2>2. [kind |-> "file", handle |-> h, file |-> c.file] \in [kind : Kinds, handle : Handles, file : Files]
      BY <1>1 DEF Kinds
    <2>3. QED
      BY <1>3, <2>1, <2>2 DEF CHTypeOK
  <1>8. LockInv'
    BY <1>2, <1>3, <1>6, ThreadsAssumption DEF LockInv
  <1>9. CallsInv'
    <2>1. \A u \in Threads : CallInv(call[u]) /\ CallRefInv(call[u]) /\ FaultInv(call[u]) /\ RequestInv(call[u])
                             /\ call[u] \in Calls
      BY DEF CallsInv, CHTypeOK
    <2>2. ASSUME NEW u \in Threads \ {t}
          PROVE  CallInv(call[u])' /\ CallRefInv(call[u])' /\ FaultInv(call[u])' /\ RequestInv(call[u])'
      <3>1. CallInv(call[u])'
        BY <1>3, <1>6, <2>1 DEF CallInv
      <3>2. CallRefInv(call[u])'
        BY <1>3, <1>4, <2>1 DEF CallRefInv, Calls
      <3>3. call[u].op = "fault" /\ call[u].pc \in {"find", "request"} => call[u].ref # None /\ call[u].ref # n /\ call[u].ref \in Refs
        BY <1>4, <2>1 DEF CallInv, CallRefInv, Calls
      <3>4. FaultInv(call[u])'
        BY <1>3, <1>4, <2>1, <3>3 DEF FaultInv
      <3>5. call[u].pc = "request" => call[u].handle \in Handles
        BY <2>1 DEF CallInv, Calls
      <3>6. RequestInv(call[u])'
        BY <1>3, <1>4, <1>5, <2>1, <3>5 DEF RequestInv
      <3>7. QED
        BY <3>1, <3>2, <3>4, <3>6
    <2>3. CallInv(Idle)' /\ CallRefInv(Idle)' /\ FaultInv(Idle)' /\ RequestInv(Idle)'
      BY PointsOfOps DEF Idle, CallInv, CallRefInv, FaultInv, RequestInv
    <2>4. QED
      BY <1>3, <2>2, <2>3 DEF CallsInv, CallInv, CallRefInv, FaultInv, RequestInv
  <1>10. AloneInv'
    <2>1. \A u \in Threads \ {t} : At(u, "insert") => ref'[call[u].new] = ref[call[u].new]
      BY <1>4 DEF AloneInv, CallsInv, CallInv, CHTypeOK, Calls
    <2>2. QED
      BY <1>2, <1>3, <2>1, IdleInv, AloneKept
  <1>11. ViewsInv'
    BY <1>2, <1>3, <1>4 DEF ViewsInv, CHTypeOK
  <1>12. OwnersInv'
    <2>1. \A z \in FsHandles : (server[z] # None /\ z \notin leaked => Owners(z) # {})'
      BY <1>1, <1>3, <1>4, <1>5 DEF OwnersInv, Owners
    <2>2. /\ server[s] # None /\ s \notin leaked
          /\ \A k \in Handles : fs_handles[k] # None => fs_handles[k].fs_handle # s
          /\ \A u \in Threads \ {t} : call[u].pc \in {"create", "closefs"} => call[u].fs_handle # s
      BY <1>1 DEF OwnersInv
    <2>3. QED
      BY <1>2, <1>3, <1>4, <2>1, <2>2 DEF OwnersInv
  <1>13. RefcntIsHolders'
    <2>0. Holders(h) = {}
      BY <1>5 DEF RefcntIsHolders
    <2>1. Holders(h)' = {n}
      BY <1>4, <2>0 DEF Holders
    <2>2. Cardinality({n}) = 1
      BY FS_Singleton
    <2>3. \A k \in Handles \ {h} : Holders(k)' = Holders(k)
      BY <1>4 DEF Holders
    <2>4. SUFFICES ASSUME NEW k \in Handles
                   PROVE  (IF fs_handles[k] = None THEN Holders(k) = {}
                           ELSE Holders(k) # {} /\ fs_handles[k].refcnt = Cardinality(Holders(k)))'
      BY DEF RefcntIsHolders
    <2>5. CASE k = h
      BY <1>4, <2>1, <2>2, <2>5
    <2>6. CASE k # h
      BY <1>4, <2>3, <2>6 DEF RefcntIsHolders
    <2>7. QED
      BY <2>5, <2>6
  <1>14. HandleKeepsFile'
    BY <1>1, <1>4, <1>5 DEF HandleKeepsFile, CHTypeOK
  <1>15. FreedValueIsForgotten'
    BY <1>1, <1>2, <1>3, <1>4, <1>5 DEF FreedValueIsForgotten, Closing
  <1>16. QED
    BY <1>7, <1>8, <1>9, <1>10, <1>11, <1>12, <1>13, <1>14, <1>15

\* A call counts one more reference to the value that it works on, and either
\* returns or goes on to put it in a map.
LEMMA AddRefStep ==
    ASSUME CHInv, NEW t \in Threads, Unlocked,
           NEW c \in Calls, c = call[t], c.pc \in {"lookup", "incref"},
           NEW n \in Refs, NEW kind \in {"file", "section", "taken", "lost"},
           AddRef(t, n, kind), IncRefWrapperHandle(t),
           NEW d \in Calls, Step(t, d), CallInv(d), CallRefInv(d),
           \/ d = Idle
           \/ /\ d.pc = "insert" /\ d.op # "fault" /\ d.new = n /\ kind = "taken"
              /\ d.handle = c.handle /\ d.ref = c.ref,
           UNCHANGED <<hnd_cs, sects, addrs, events, server, leaked, mem>>
    PROVE  CHInv'
  <1> USE DEF CHInv, At, Op, Handle, Unlocked, FreeRefs
  <1> DEFINE h == c.handle
             file == ref[c.ref].file
  <1>1. /\ CallInv(c) /\ CallRefInv(c) /\ c.op \in {"section", "map", "dup"}
        /\ c.ref \in Refs /\ ref[c.ref] # None /\ h \in Handles
        /\ h = ref[c.ref].handle /\ file \in Files
    <2>1. CallInv(c) /\ CallRefInv(c)
      BY DEF CallsInv
    <2>2. c.op \in {"section", "map", "dup"}
      BY <2>1, CallPoints
    <2>3. c.ref \in Refs /\ h \in Handles
      BY <2>1 DEF CallInv, Calls
    <2>4. ref[c.ref] # None /\ h = ref[c.ref].handle
      BY <2>1, <2>2, <2>3, ValuesAssumption DEF CallRefInv
    <2>5. file \in Files
      BY <2>3, <2>4 DEF CHTypeOK
    <2>6. QED
      BY <2>1, <2>2, <2>3, <2>4, <2>5
  <1>2. fs_handles[h] # None /\ server[fs_handles[h].fs_handle] = file
    BY <1>1 DEF HandleKeepsFile
  <1>3. /\ call' \in [Threads -> Calls] /\ call'[t] = d
        /\ \A u \in Threads \ {t} : call'[u] = call[u]
    BY StepFacts
  <1>4. /\ d.pc \in {"idle", "insert"} /\ d.op # "fault"
    BY DEF Idle
  <1>5. /\ fs_handles'[h] # None /\ fs_handles[h].refcnt \in Nat
        /\ fs_handles'[h].fs_handle = fs_handles[h].fs_handle
        /\ fs_handles'[h].refcnt = fs_handles[h].refcnt + 1
        /\ fs_handles' \in [Handles -> [fs_handle : FsHandles, refcnt : Nat] \cup {None}]
        /\ \A k \in Handles \ {h} : fs_handles'[k] = fs_handles[k]
    <2>1. fs_handles[h] \in [fs_handle : FsHandles, refcnt : Nat]
      BY <1>1, <1>2 DEF CHTypeOK
    <2> DEFINE e == [fs_handles[h] EXCEPT !.refcnt = fs_handles[h].refcnt + 1]
    <2>2. /\ e \in [fs_handle : FsHandles, refcnt : Nat]
          /\ e.fs_handle = fs_handles[h].fs_handle /\ e.refcnt = fs_handles[h].refcnt + 1
      BY <2>1
    <2>3. fs_handles' = [fs_handles EXCEPT ![h] = e]
      BY DEF IncRefWrapperHandle
    <2> HIDE DEF e
    <2>4. QED
      BY <1>1, <2>1, <2>2, <2>3, EntriesAssumption DEF CHTypeOK
  <1>6. /\ ref'[n] # None
        /\ ref'[n].kind = kind /\ ref'[n].handle = h /\ ref'[n].file = file
        /\ \A r \in Refs \ {n} : ref'[r] = ref[r]
        /\ ref[n] = None
        /\ ref' \in [Refs -> [kind : Kinds, handle : Handles, file : Files] \cup {None}]
    BY <1>1, EntriesAssumption DEF AddRef, CHTypeOK, Kinds
  <1>7. \A k \in Handles : /\ fs_handles'[k] = None <=> fs_handles[k] = None
                           /\ fs_handles[k] # None => fs_handles'[k].fs_handle = fs_handles[k].fs_handle
    BY <1>2, <1>5
  <1>8. CHTypeOK'
    BY <1>3, <1>5, <1>6 DEF CHTypeOK
  <1>9. LockInv'
    BY <1>3, <1>4 DEF LockInv
  <1>10. CallsInv'
    <2>1. \A u \in Threads : CallInv(call[u]) /\ CallRefInv(call[u]) /\ FaultInv(call[u]) /\ RequestInv(call[u])
                             /\ call[u] \in Calls
      BY DEF CallsInv, CHTypeOK
    <2>2. \A u \in Threads : call[u].pc \notin {"closefs", "zwclose"}
      BY ThreadsAssumption DEF LockInv
    <2>3. ASSUME NEW u \in Threads \ {t}
          PROVE  CallInv(call[u])' /\ CallRefInv(call[u])' /\ FaultInv(call[u])' /\ RequestInv(call[u])'
      <3>1. CallInv(call[u])'
        BY <1>3, <2>1, <2>2 DEF CallInv
      <3>2. CallRefInv(call[u])'
        BY <1>3, <1>6, <2>1 DEF CallRefInv, Calls
      <3>3. call[u].op = "fault" /\ call[u].pc \in {"find", "request"} => call[u].ref # None /\ call[u].ref # n /\ call[u].ref \in Refs
        BY <1>6, <2>1 DEF CallInv, CallRefInv, Calls
      <3>4. FaultInv(call[u])'
        BY <1>3, <1>6, <2>1, <3>3 DEF FaultInv
      <3>5. call[u].pc = "request" => call[u].handle \in Handles
        BY <2>1 DEF CallInv, Calls
      <3>6. RequestInv(call[u])'
        BY <1>3, <1>7, <2>1, <3>5 DEF RequestInv
      <3>7. QED
        BY <3>1, <3>2, <3>4, <3>6
    <2>4. CallInv(d)' /\ CallRefInv(d)'
      BY <1>1, <1>4, <1>6 DEF CallInv, CallRefInv, Calls
    <2>5. FaultInv(d)' /\ RequestInv(d)'
      BY <1>4 DEF FaultInv, RequestInv
    <2>6. QED
      BY <1>3, <2>3, <2>4, <2>5 DEF CallsInv, CallInv, CallRefInv, FaultInv, RequestInv
  <1>11. AloneInv'
    <2>1. \A u \in Threads \ {t} : At(u, "insert") => ref'[call[u].new] = ref[call[u].new]
      BY <1>6 DEF AloneInv, CallsInv, CallInv, CHTypeOK, Calls
    <2>2. CASE d = Idle
      BY <1>3, <2>1, <2>2, AloneKept DEF Idle
    <2>3. CASE d # Idle
      <3>1. \A u \in Threads \ {t} : At(u, "dec") => \A v \in Threads \ {u} : call'[v].ref # call'[u].ref
        BY <1>3, <2>3 DEF AloneInv
      <3>2. \A u \in Threads : call[u].ref # n
        BY <1>6, ValuesAssumption DEF CallsInv, CallRefInv
      <3>3. \A u \in Threads \ {t} : At(u, "insert") => call[u].new # n
        BY <1>6 DEF AloneInv
      <3>4. \A u \in Threads \ {t} : call[u].new # n
        BY <3>3, ValuesAssumption DEF CallsInv, CallInv
      <3>5. \A v \in Threads : call'[v].ref # n
        BY <1>3, <2>3, <3>2
      <3>6. \A u \in Threads \ {t} : At(u, "insert") =>
              \A v \in Threads \ {u} : call'[v].ref # call'[u].new /\ call'[v].new # call'[u].new
        BY <1>3, <2>3, <3>3 DEF AloneInv
      <3>7. QED
        BY <1>3, <1>6, <2>1, <2>3, <3>1, <3>4, <3>5, <3>6 DEF AloneInv
    <2>4. QED
      BY <2>2, <2>3
  <1>12. ViewsInv'
    BY <1>3, <1>4, <1>6 DEF ViewsInv, CHTypeOK
  <1>13. OwnersInv'
    <2>1. \A z \in FsHandles : (server[z] # None /\ z \notin leaked => Owners(z) # {})'
      BY <1>3, <1>7 DEF OwnersInv, Owners
    <2>2. QED
      BY <1>3, <1>4, <1>7, <2>1 DEF OwnersInv
  <1>14. RefcntIsHolders'
    <2>1. Holders(h)' = Holders(h) \cup {n} /\ n \notin Holders(h)
      BY <1>6 DEF Holders
    <2>2. Cardinality(Holders(h) \cup {n}) = Cardinality(Holders(h)) + 1
      BY <1>1, <2>1, HoldersFinite, FS_AddElement
    <2>3. \A k \in Handles \ {h} : Holders(k)' = Holders(k)
      BY <1>6 DEF Holders
    <2>4. SUFFICES ASSUME NEW k \in Handles
                   PROVE  (IF fs_handles[k] = None THEN Holders(k) = {}
                           ELSE Holders(k) # {} /\ fs_handles[k].refcnt = Cardinality(Holders(k)))'
      BY DEF RefcntIsHolders
    <2>5. CASE k = h
      BY <1>1, <1>2, <1>5, <2>1, <2>2, <2>5 DEF RefcntIsHolders
    <2>6. CASE k # h
      BY <1>5, <2>3, <2>6 DEF RefcntIsHolders
    <2>7. QED
      BY <2>5, <2>6
  <1>15. HandleKeepsFile'
    BY <1>1, <1>2, <1>6, <1>7 DEF HandleKeepsFile, CHTypeOK
  <1>16. FreedValueIsForgotten'
    BY <1>3, <1>4, <1>7 DEF FreedValueIsForgotten, Closing
  <1>17. QED
    BY <1>8, <1>9, <1>10, <1>11, <1>12, <1>13, <1>14, <1>15, <1>16

\* What a call is about to count is in fs_handles.
LEMMA CountedHandle ==
    ASSUME CHInv, NEW t \in Threads, call[t].pc \in {"lookup", "incref", "insert", "dec"}
    PROVE  /\ call[t] \in Calls /\ CallInv(call[t]) /\ CallRefInv(call[t])
           /\ call[t].op \in {"section", "map", "dup", "close", "unmap"}
           /\ call[t].ref \in Refs /\ ref[call[t].ref] # None
           /\ Handle(t) \in Handles /\ Handle(t) = ref[call[t].ref].handle
           /\ fs_handles[Handle(t)] # None
  <1> USE DEF CHInv, Handle
  <1>1. call[t] \in Calls /\ CallInv(call[t]) /\ CallRefInv(call[t])
    BY DEF CHTypeOK, CallsInv
  <1>2. call[t].op \in {"section", "map", "dup", "close", "unmap"}
    BY <1>1, CallPoints
  <1>3. call[t].ref \in Refs /\ call[t].ref # None /\ Handle(t) \in Handles
    BY <1>1 DEF CallInv, Calls
  <1>4. ref[call[t].ref] # None /\ Handle(t) = ref[call[t].ref].handle
    BY <1>1, <1>2, <1>3 DEF CallRefInv
  <1>5. fs_handles[Handle(t)] # None
    BY <1>3, <1>4 DEF HandleKeepsFile
  <1>6. QED
    BY <1>1, <1>2, <1>3, <1>4, <1>5

\* A duplicate is one more reference of the same kind.
LEMMA DuplicateIncRefStep ==
    ASSUME CHInv, NEW t \in Threads, NEW n \in Refs, DuplicateIncRef(t, n)
    PROVE  CHInv'
  <1> USE DEF DuplicateIncRef, At, Op
  <1>1. /\ call[t] \in Calls /\ CallRefInv(call[t]) /\ call[t].ref \in Refs
        /\ fs_handles[Handle(t)] # None
    BY CountedHandle
  <1>2. ref[call[t].ref].kind \in {"file", "section"}
    BY <1>1, KindsForOps, ValuesAssumption DEF CallRefInv
  <1>3. QED
    BY <1>1, <1>2, AddRefStep, IdleInv DEF Return

\* The reference of a view that has no memory is counted and lost.
LEMMA MapNoMemoryStep ==
    ASSUME CHInv, NEW t \in Threads, NEW n \in Refs, MapNoMemory(t, n)
    PROVE  CHInv'
  BY CountedHandle, AddRefStep, IdleInv DEF MapNoMemory, At, Return

\* The call that goes on to insert what it has counted.
LEMMA InsertCall ==
    ASSUME CHInv, NEW t \in Threads, NEW n \in Refs, At(t, "incref"), Op(t) \in {"section", "map"}
    PROVE  \E d \in Calls :
              /\ d = [call[t] EXCEPT !.pc = "insert", !.new = n]
              /\ CallInv(d) /\ CallRefInv(d)
              /\ d.pc = "insert" /\ d.op # "fault" /\ d.new = n
              /\ d.handle = call[t].handle /\ d.ref = call[t].ref
  <1> DEFINE c == call[t]
             d == [c EXCEPT !.pc = "insert", !.new = n]
  <1>1. c \in Calls /\ CallInv(c) /\ CallRefInv(c) /\ c.pc = "incref" /\ c.op \in {"section", "map"}
        /\ c.ref \in Refs
    BY CountedHandle DEF At, Op
  <1>2. /\ d \in Calls
        /\ d.pc = "insert" /\ d.op = c.op /\ d.fs_handle = c.fs_handle /\ d.file = c.file
        /\ d.ref = c.ref /\ d.new = n /\ d.handle = c.handle /\ d.at = c.at
    BY <1>1 DEF Calls, Points
  <1> HIDE DEF d
  <1>3. CallInv(d)
    BY <1>1, <1>2, PointsOfOps, ValuesAssumption DEF CallInv
  <1>4. CallRefInv(d)
    BY <1>1, <1>2 DEF CallRefInv
  <1>5. d.op # "fault"
    BY <1>1, <1>2
  <1>6. QED
    BY <1>2, <1>3, <1>4, <1>5 DEF d

\* A section counts its reference before it is inserted.
LEMMA SectionIncRefStep ==
    ASSUME CHInv, NEW t \in Threads, NEW n \in Refs, SectionIncRef(t, n)
    PROVE  CHInv'
  <1>1. At(t, "incref") /\ Op(t) = "section" /\ fs_handles[Handle(t)] # None /\ call[t] \in Calls
    BY CountedHandle DEF SectionIncRef, At
  <1>2. PICK d \in Calls :
              /\ d = [call[t] EXCEPT !.pc = "insert", !.new = n]
              /\ CallInv(d) /\ CallRefInv(d)
              /\ d.pc = "insert" /\ d.op # "fault" /\ d.new = n
              /\ d.handle = call[t].handle /\ d.ref = call[t].ref
    BY <1>1, InsertCall
  <1>3. /\ Unlocked /\ AddRef(t, n, "taken") /\ IncRefWrapperHandle(t) /\ Step(t, d)
        /\ UNCHANGED <<hnd_cs, sects, addrs, events, server, leaked, mem>>
    BY <1>1, <1>2 DEF SectionIncRef
  <1>4. QED
    BY <1>1, <1>2, <1>3, AddRefStep DEF At

\* So does a view.
LEMMA MapIncRefStep ==
    ASSUME CHInv, NEW t \in Threads, NEW n \in Refs, MapIncRef(t, n)
    PROVE  CHInv'
  <1>1. At(t, "incref") /\ Op(t) = "map" /\ fs_handles[Handle(t)] # None /\ call[t] \in Calls
    BY CountedHandle DEF MapIncRef, At
  <1>2. PICK d \in Calls :
              /\ d = [call[t] EXCEPT !.pc = "insert", !.new = n]
              /\ CallInv(d) /\ CallRefInv(d)
              /\ d.pc = "insert" /\ d.op # "fault" /\ d.new = n
              /\ d.handle = call[t].handle /\ d.ref = call[t].ref
    BY <1>1, InsertCall
  <1>3. /\ Unlocked /\ AddRef(t, n, "taken") /\ IncRefWrapperHandle(t) /\ Step(t, d)
        /\ UNCHANGED <<hnd_cs, sects, addrs, events, server, leaked, mem>>
    BY <1>1, <1>2 DEF MapIncRef
  <1>4. QED
    BY <1>1, <1>2, <1>3, AddRefStep DEF At

-----------------------------------------------------------------------------
(* Steps that change the kind of a reference.                              *)

\* A thread changes the kind of a reference that no other thread works on:
\* it closes it, or has put it in a map and returns.
LEMMA RetypeStep ==
    ASSUME CHInv, NEW t \in Threads, call[t].pc \in {"idle", "insert"},
           NEW r \in Refs, ref[r] # None, NEW k \in Kinds,
           ref' = [ref EXCEPT ![r].kind = k],
           \A u \in Threads \ {t} : call[u].ref # r /\ call[u].new # r,
           NEW d \in Calls, Step(t, d), CallInv(d),
           \/ d = Idle
           \/ /\ d.pc = "dec" /\ d.op = "close" /\ k = "taken" /\ d.new = None
              /\ d.ref = r /\ d.handle = ref[r].handle,
           UNCHANGED <<hnd_cs, fs_handles, events, server, leaked, mem>>,
           sects' \in [Handles -> Files \cup {None}],
           addrs' \in [Bases -> [file_handle : Handles, file_name : Files, ref : Refs]
                                \cup {None}],
           \A b \in Bases : addrs[b] # None => addrs'[b] = addrs[b],
           ViewsInv'
    PROVE  CHInv'
  <1> USE DEF CHInv, At, Op, Handle
  <1>1. /\ call' \in [Threads -> Calls] /\ call'[t] = d
        /\ \A u \in Threads \ {t} : call'[u] = call[u]
    BY StepFacts
  <1>2. d.pc \in {"idle", "dec"} /\ d.new = None /\ d.op # "fault"
    BY DEF Idle
  <1>3. /\ ref'[r] # None /\ ref'[r].kind = k
        /\ ref'[r].handle = ref[r].handle /\ ref'[r].file = ref[r].file
        /\ \A q \in Refs \ {r} : ref'[q] = ref[q]
        /\ ref' \in [Refs -> [kind : Kinds, handle : Handles, file : Files] \cup {None}]
    <2>1. ref[r] \in [kind : Kinds, handle : Handles, file : Files]
      BY DEF CHTypeOK
    <2> DEFINE e == [ref[r] EXCEPT !.kind = k]
    <2>2. /\ e \in [kind : Kinds, handle : Handles, file : Files]
          /\ e.kind = k /\ e.handle = ref[r].handle /\ e.file = ref[r].file
      BY <2>1
    <2>3. ref' = [ref EXCEPT ![r] = e]
      OBVIOUS
    <2> HIDE DEF e
    <2>4. QED
      BY <2>2, <2>3, EntriesAssumption DEF CHTypeOK, Kinds
  <1>4. CHTypeOK'
    BY <1>1, <1>3 DEF CHTypeOK
  <1>5. LockInv'
    BY <1>1, <1>2 DEF LockInv
  <1>6. CallsInv'
    <2>1. ASSUME NEW u \in Threads \ {t}
          PROVE  CallInv(call[u])' /\ CallRefInv(call[u])' /\ FaultInv(call[u])' /\ RequestInv(call[u])'
      <3>1. CallInv(call[u]) /\ CallRefInv(call[u]) /\ FaultInv(call[u]) /\ RequestInv(call[u])
            /\ call[u] \in Calls
        BY DEF CallsInv, CHTypeOK
      <3>2. CallInv(call[u])' /\ RequestInv(call[u])'
        BY <1>1, <3>1 DEF CallInv, RequestInv
      <3>3. CallRefInv(call[u])'
        BY <1>1, <1>3, <3>1 DEF CallRefInv, Calls
      <3>4. call[u].op = "fault" /\ call[u].pc \in {"find", "request"} => call[u].ref \in Refs
        BY <3>1 DEF CallInv, Calls
      <3>5. FaultInv(call[u])'
        BY <1>1, <1>3, <3>1, <3>4 DEF FaultInv
      <3>6. QED
        BY <3>2, <3>3, <3>5
    <2>2. CallInv(d)' /\ FaultInv(d)' /\ RequestInv(d)'
      BY <1>2 DEF CallInv, FaultInv, RequestInv
    <2>3. CallRefInv(d)'
      BY <1>3, KindsForOps DEF CallRefInv, Idle
    <2>4. QED
      BY <1>1, <2>1, <2>2, <2>3 DEF CallsInv, CallInv, CallRefInv, FaultInv, RequestInv
  <1>7. AloneInv'
    <2>1. \A u \in Threads \ {t} : At(u, "insert") => ref'[call[u].new] = ref[call[u].new]
      BY <1>3 DEF AloneInv, CallsInv, CallInv, CHTypeOK, Calls
    <2>2. CASE d = Idle
      BY <1>1, <2>1, <2>2, AloneKept DEF Idle
    <2>3. CASE d # Idle
      <3>1. \A u \in Threads \ {t} : At(u, "dec") => \A v \in Threads \ {u} : call'[v].ref # call'[u].ref
        BY <1>1, <2>3 DEF AloneInv
      <3>2. \A u \in Threads \ {t} : At(u, "insert") => call[u].new # None
        BY DEF CallsInv, CallInv
      <3>3. \A u \in Threads \ {t} : At(u, "insert") =>
              \A v \in Threads : call'[v].ref # call'[u].new
        BY <1>1, <2>3 DEF AloneInv
      <3>4. \A u \in Threads \ {t} : At(u, "insert") =>
              \A v \in Threads \ {u} : call'[v].new # call'[u].new
        BY <1>1, <2>3, <3>2 DEF AloneInv
      <3>5. QED
        BY <1>1, <1>3, <2>1, <2>3, <3>1, <3>3, <3>4 DEF AloneInv
    <2>4. QED
      BY <2>2, <2>3
  <1>8. OwnersInv'
    <2>1. \A z \in FsHandles : (server[z] # None /\ z \notin leaked => Owners(z) # {})'
      BY <1>1 DEF OwnersInv, Owners
    <2>2. QED
      BY <1>1, <1>2, <2>1 DEF OwnersInv
  <1>9. RefcntIsHolders'
    <2>1. \A h \in Handles : Holders(h)' = Holders(h)
      BY <1>3 DEF Holders
    <2>2. SUFFICES ASSUME NEW h \in Handles
                   PROVE  (IF fs_handles[h] = None THEN Holders(h) = {}
                           ELSE Holders(h) # {} /\ fs_handles[h].refcnt = Cardinality(Holders(h)))'
      BY DEF RefcntIsHolders
    <2>3. QED
      BY <2>1 DEF RefcntIsHolders
  <1>10. HandleKeepsFile'
    BY <1>3 DEF HandleKeepsFile
  <1>11. FreedValueIsForgotten'
    BY <1>1, <1>2 DEF FreedValueIsForgotten, Closing
  <1>12. QED
    BY <1>4, <1>5, <1>6, <1>7, <1>8, <1>9, <1>10, <1>11

\* A close takes a reference that no other call is using.
LEMMA CloseStep ==
    ASSUME CHInv, NEW t \in Threads, NEW r \in Refs, Close(t, r)
    PROVE  CHInv'
  <1> USE DEF CHInv, Close, At, Op, Handle, OwnedRefs
  <1> DEFINE h == ref[r].handle
  <1>1. ref[r] # None /\ ref[r].kind \in {"file", "section"} /\ h \in Handles
    BY DEF CHTypeOK
  <1>2. PICK d \in Calls : d = [Idle EXCEPT !.pc = "dec", !.op = "close", !.ref = r, !.handle = h]
    BY <1>1 DEF Idle, Calls, Points, Ops
  <1>3. /\ d.pc = "dec" /\ d.op = "close" /\ d.ref = r /\ d.new = None /\ d.handle = h
    BY <1>2 DEF Idle
  <1>4. Step(t, d)
    BY <1>2 DEF Start
  <1>5. CallInv(d)
    BY <1>1, <1>3, PointsOfOps, ValuesAssumption DEF CallInv
  <1>6. \A u \in Threads \ {t} : call[u].ref # r /\ call[u].new # r
    BY <1>1, ValuesAssumption DEF Unused, AloneInv, CallsInv, CallInv
  <1>7. ViewsInv'
    <2>1. \A b \in Bases : addrs[b] # None => addrs[b].ref # r /\ addrs[b].ref \in Refs
      BY <1>1 DEF ViewsInv, CHTypeOK
    <2>2. \A u \in Threads : call'[u] = IF u = t THEN d ELSE call[u]
      BY <1>4, StepFacts
    <2>3. \A q \in Refs \ {r} : ref'[q] = ref[q]
      BY DEF CHTypeOK
    <2>4. QED
      BY <1>3, <2>1, <2>2, <2>3 DEF ViewsInv
  <1>8. /\ sects' \in [Handles -> Files \cup {None}]
        /\ addrs' \in [Bases -> [file_handle : Handles, file_name : Files, ref : Refs] \cup {None}]
    BY DEF CHTypeOK
  <1>9. QED
    BY <1>1, <1>3, <1>4, <1>5, <1>6, <1>7, <1>8, RetypeStep DEF Kinds

\* The reference that a call is putting in a map.
LEMMA InsertRef ==
    ASSUME CHInv, NEW t \in Threads, At(t, "insert")
    PROVE  /\ call[t].new \in Refs /\ ref[call[t].new] # None
           /\ ref[call[t].new].kind = "taken" /\ ref[call[t].new].handle = Handle(t)
           /\ \A u \in Threads : call[u].ref # call[t].new
           /\ \A u \in Threads \ {t} : call[u].new # call[t].new
           /\ \A b \in Bases : addrs[b] # None =>
                 addrs[b].ref \in Refs /\ addrs[b].ref # call[t].new
           /\ call[t].file \in Files /\ Handle(t) \in Handles
           /\ Op(t) = "map" => call[t].at \in Bases
  <1> USE DEF CHInv, At, Op, Handle
  <1>1. call[t] \in Calls /\ CallInv(call[t])
    BY DEF CHTypeOK, CallsInv
  <1>2. call[t].new \in Refs /\ call[t].file \in Files /\ Handle(t) \in Handles
        /\ (Op(t) = "map" => call[t].at \in Bases)
    BY <1>1 DEF CallInv, Calls
  <1>3. ref[call[t].new].kind = "taken"
    BY DEF AloneInv
  <1>4. \A b \in Bases : addrs[b] # None =>
                 addrs[b].ref \in Refs /\ addrs[b].ref # call[t].new
    BY <1>3 DEF ViewsInv, CHTypeOK
  <1>5. QED
    BY <1>2, <1>4 DEF AloneInv

\* The reference of a section that is inserted is owned by the program.
LEMMA SectionInsertStep ==
    ASSUME CHInv, NEW t \in Threads, SectionInsert(t)
    PROVE  CHInv'
  <1> USE DEF CHInv, SectionInsert, At, Op, Handle
  <1> DEFINE r == call[t].new
  <1>1. /\ r \in Refs /\ ref[r] # None
        /\ \A u \in Threads : call[u].ref # r
        /\ \A u \in Threads \ {t} : call[u].new # r
        /\ \A b \in Bases : addrs[b] # None => addrs[b].ref \in Refs /\ addrs[b].ref # r
        /\ call[t].file \in Files /\ Handle(t) \in Handles
    BY InsertRef
  <1>2. Step(t, Idle) /\ Idle.pc = "idle"
    BY DEF Idle, Return
  <1>3. ViewsInv'
    <2>1. \A u \in Threads : call'[u] = IF u = t THEN Idle ELSE call[u]
      BY <1>2, IdleInv, StepFacts
    <2>2. \A q \in Refs \ {r} : ref'[q] = ref[q]
      BY DEF CHTypeOK
    <2>3. QED
      BY <1>1, <1>2, <2>1, <2>2 DEF ViewsInv
  <1>4. /\ sects' \in [Handles -> Files \cup {None}]
        /\ addrs' \in [Bases -> [file_handle : Handles, file_name : Files, ref : Refs] \cup {None}]
    BY <1>1 DEF CHTypeOK
  <1>5. QED
    BY <1>1, <1>2, <1>3, <1>4, IdleInv, RetypeStep DEF Kinds

\* The reference of a view that is inserted is that of the view.
LEMMA MapInsertStep ==
    ASSUME CHInv, NEW t \in Threads, MapInsert(t)
    PROVE  CHInv'
  <1> USE DEF CHInv, MapInsert, At, Op, Handle
  <1> DEFINE r == call[t].new
             b == call[t].at
             e == [file_handle |-> Handle(t), file_name |-> call[t].file, ref |-> r]
  <1>1. /\ r \in Refs /\ ref[r] # None /\ ref[r].handle = Handle(t)
        /\ \A u \in Threads : call[u].ref # r
        /\ \A u \in Threads \ {t} : call[u].new # r
        /\ \A v \in Bases : addrs[v] # None => addrs[v].ref \in Refs /\ addrs[v].ref # r
        /\ call[t].file \in Files /\ Handle(t) \in Handles /\ b \in Bases
    BY InsertRef
  <1>2. Step(t, Idle) /\ Idle.pc = "idle"
    BY DEF Idle, Return
  <1>3. \A u \in Threads : call'[u] = IF u = t THEN Idle ELSE call[u]
    BY <1>2, IdleInv, StepFacts
  <1>4. /\ e \in [file_handle : Handles, file_name : Files, ref : Refs]
        /\ e.file_handle = Handle(t) /\ e.ref = r
    BY <1>1
  <1>5. /\ addrs'[b] = IF addrs[b] # None THEN addrs[b] ELSE e
        /\ \A v \in Bases \ {b} : addrs'[v] = addrs[v]
        /\ addrs' \in [Bases -> [file_handle : Handles, file_name : Files, ref : Refs] \cup {None}]
    BY <1>1, <1>4 DEF CHTypeOK
  <1> HIDE DEF e
  <1>6. /\ ref'[r] # None /\ ref'[r].kind = "view" /\ ref'[r].handle = Handle(t)
        /\ \A q \in Refs \ {r} : ref'[q] = ref[q]
    <2>1. ref[r] \in [kind : Kinds, handle : Handles, file : Files]
      BY <1>1 DEF CHTypeOK
    <2> DEFINE f == [ref[r] EXCEPT !.kind = "view"]
    <2>2. /\ f \in [kind : Kinds, handle : Handles, file : Files]
          /\ f.kind = "view" /\ f.handle = ref[r].handle
      BY <2>1 DEF Kinds
    <2>3. ref' = [ref EXCEPT ![r] = f]
      OBVIOUS
    <2> HIDE DEF f
    <2>4. QED
      BY <1>1, <2>2, <2>3, EntriesAssumption DEF CHTypeOK, Kinds
  <1>7. ViewsInv'
    <2> SUFFICES ASSUME NEW v \in Bases, addrs'[v] # None
                 PROVE  /\ ref'[addrs'[v].ref] # None
                        /\ ref'[addrs'[v].ref].kind = "view"
                        /\ ref'[addrs'[v].ref].handle = addrs'[v].file_handle
                        /\ \A w \in Bases \ {v} : addrs'[w] # None => addrs'[w].ref # addrs'[v].ref
                        /\ \A u \in Threads : call'[u].pc = "dec" => call'[u].ref # addrs'[v].ref
      BY DEF ViewsInv
    <2>1. CASE v = b /\ addrs[b] = None
      <3>1. addrs'[v] = e
        BY <1>5, <2>1
      <3>2. \A w \in Bases \ {v} : addrs'[w] # None => addrs'[w].ref # r
        BY <1>1, <1>5, <2>1
      <3>3. \A u \in Threads : call'[u].pc = "dec" => call'[u].ref # r
        BY <1>1, <1>2, <1>3
      <3>4. QED
        BY <1>4, <1>6, <3>1, <3>2, <3>3
    <2>2. CASE v # b \/ addrs[b] # None
      <3>1. addrs'[v] = addrs[v] /\ addrs[v] # None
        BY <1>5, <2>2
      <3>2. \A w \in Bases \ {v} : addrs'[w] # None => addrs'[w].ref # addrs[v].ref
        BY <1>1, <1>4, <1>5, <3>1 DEF ViewsInv
      <3>3. \A u \in Threads : call'[u].pc = "dec" => call'[u].ref # addrs[v].ref
        BY <1>2, <1>3, <3>1 DEF ViewsInv
      <3>4. addrs[v].ref \in Refs \ {r} /\ ref'[addrs[v].ref] = ref[addrs[v].ref]
        BY <1>1, <1>6, <3>1
      <3>5. ref[addrs[v].ref] # None /\ ref[addrs[v].ref].kind = "view"
            /\ ref[addrs[v].ref].handle = addrs[v].file_handle
        BY <3>1 DEF ViewsInv
      <3> HIDE DEF MapInsert, CHInv
      <3>6. QED
        BY <3>1, <3>2, <3>3, <3>4, <3>5
    <2>3. QED
      BY <2>1, <2>2
  <1>8. sects' \in [Handles -> Files \cup {None}]
    BY DEF CHTypeOK
  <1>9. /\ ref' = [ref EXCEPT ![r].kind = "view"]
        /\ \A v \in Bases : addrs[v] # None => addrs'[v] = addrs[v]
        /\ call[t].pc = "insert"
        /\ UNCHANGED <<hnd_cs, fs_handles, events, server, leaked, mem>>
    BY <1>1, <1>5
  <1> HIDE DEF MapInsert, CHInv, At, Op, Handle
  <1>10. QED
    BY <1>1, <1>2, <1>5, <1>7, <1>8, <1>9, IdleInv, RetypeStep DEF Kinds

-----------------------------------------------------------------------------
(* Steps that give a reference back.                                       *)

\* The reference a call gives back is used by no other call and no view.
LEMMA DecRef ==
    ASSUME CHInv, NEW t \in Threads, At(t, "dec")
    PROVE  /\ call[t].ref \in Refs /\ ref[call[t].ref] # None
           /\ \A u \in Threads \ {t} : call[u].ref # call[t].ref
           /\ \A u \in Threads : call[u].new # call[t].ref
           /\ \A b \in Bases : addrs[b] # None =>
                 addrs[b].ref \in Refs /\ addrs[b].ref # call[t].ref
  <1> USE DEF CHInv, At
  <1>1. call[t].ref \in Refs /\ ref[call[t].ref] # None
    BY CountedHandle
  <1>2. \A u \in Threads : call[u].new # call[t].ref
    BY <1>1, ValuesAssumption DEF AloneInv, CallsInv, CallInv
  <1>3. QED
    BY <1>1, <1>2 DEF AloneInv, ViewsInv, CHTypeOK

\* What giving back a reference means for the calls and the views.
LEMMA GiveBack ==
    ASSUME CHInv, NEW t \in Threads, At(t, "dec"), Unlocked, NEW r \in Refs, r = call[t].ref,
           ref' = [ref EXCEPT ![r] = None],
           NEW d \in Calls, Step(t, d), d.ref = None, d.new = None,
           d.pc \notin {"dec", "insert", "request", "find", "fault"},
           UNCHANGED <<addrs, server>>,
           NEW h \in Handles, h = Handle(t),
           \A k \in Handles \ {h} : fs_handles'[k] = fs_handles[k],
           CallInv(d)',
           \/ fs_handles'[h] # None /\ fs_handles'[h].fs_handle = fs_handles[h].fs_handle
           \/ Holders(h) = {r}
    PROVE  /\ CallsInv' /\ AloneInv' /\ ViewsInv'
           /\ call' \in [Threads -> Calls] /\ call'[t] = d
           /\ \A u \in Threads \ {t} : call'[u] = call[u]
           /\ ref' \in [Refs -> [kind : Kinds, handle : Handles, file : Files] \cup {None}]
           /\ Holders(h)' = Holders(h) \ {r} /\ r \in Holders(h)
           /\ \A k \in Handles \ {h} : Holders(k)' = Holders(k)
           /\ \A q \in Refs \ {r} : ref'[q] = ref[q]
           /\ ref'[r] = None
  <1> USE DEF CHInv, At, Op, Handle, Unlocked
  <1>1. /\ call' \in [Threads -> Calls] /\ call'[t] = d
        /\ \A u \in Threads \ {t} : call'[u] = call[u]
    BY StepFacts
  <1>2. /\ ref' \in [Refs -> [kind : Kinds, handle : Handles, file : Files] \cup {None}]
        /\ \A q \in Refs \ {r} : ref'[q] = ref[q]
        /\ ref'[r] = None
    BY DEF CHTypeOK
  <1>3. /\ ref[r] # None /\ ref[r].handle = h
        /\ \A u \in Threads \ {t} : call[u].ref # r
        /\ \A u \in Threads : call[u].new # r
        /\ \A b \in Bases : addrs[b] # None => addrs[b].ref \in Refs /\ addrs[b].ref # r
    BY DecRef, CountedHandle
  <1>4. /\ Holders(h)' = Holders(h) \ {r} /\ r \in Holders(h)
        /\ \A k \in Handles \ {h} : Holders(k)' = Holders(k)
    BY <1>2, <1>3 DEF Holders
  <1>5. CallsInv'
    <2>1. \A u \in Threads : call[u].pc \notin {"closefs", "zwclose"}
      BY ThreadsAssumption DEF LockInv
    <2>2. ASSUME NEW u \in Threads \ {t}
          PROVE  CallInv(call[u])' /\ CallRefInv(call[u])' /\ FaultInv(call[u])' /\ RequestInv(call[u])'
      <3>1. CallInv(call[u]) /\ CallRefInv(call[u]) /\ FaultInv(call[u]) /\ RequestInv(call[u])
            /\ call[u] \in Calls
        BY DEF CallsInv, CHTypeOK
      <3>2. CallInv(call[u])'
        BY <1>1, <2>1, <3>1 DEF CallInv
      <3>3. CallRefInv(call[u])'
        BY <1>1, <1>2, <1>3, <3>1 DEF CallRefInv, Calls
      <3>4. call[u].pc \in {"find", "request"} => call[u].ref \in Refs \ {r} /\ call[u].handle \in Handles
        BY <1>3, <3>1 DEF CallInv, Calls
      <3>5. FaultInv(call[u])'
        BY <1>1, <1>2, <3>1, <3>4 DEF FaultInv
      <3>6. RequestInv(call[u])'
        <4>1. CASE call[u].pc = "request" /\ (call[u].op = "fault" => ViewsApart)
          <5>1. call[u].handle = ref[call[u].ref].handle /\ ref[call[u].ref] # None
            BY <3>1, <3>4, <4>1, ValuesAssumption DEF CallRefInv, FaultInv
          <5>2. call[u].ref \in Holders(call[u].handle)
            BY <3>4, <4>1, <5>1 DEF Holders
          <5>3. call[u].handle = h => Holders(h) # {r}
            BY <3>4, <4>1, <5>2
          <5>4. QED
            BY <1>1, <3>1, <3>4, <4>1, <5>3 DEF RequestInv
        <4>2. CASE ~(call[u].pc = "request" /\ (call[u].op = "fault" => ViewsApart))
          BY <1>1, <4>2 DEF RequestInv
        <4>3. QED
          BY <4>1, <4>2
      <3>7. QED
        BY <3>2, <3>3, <3>5, <3>6
    <2>3. CallRefInv(d)' /\ FaultInv(d)' /\ RequestInv(d)'
      BY DEF CallRefInv, FaultInv, RequestInv
    <2>4. QED
      BY <1>1, <2>2, <2>3 DEF CallsInv, CallInv, CallRefInv, FaultInv, RequestInv
  <1>6. AloneInv'
    <2>1. \A u \in Threads \ {t} : At(u, "insert") => ref'[call[u].new] = ref[call[u].new]
      BY <1>2, <1>3 DEF AloneInv, CallsInv, CallInv, CHTypeOK, Calls
    <2>2. QED
      BY <1>1, <2>1, AloneKept
  <1>7. ViewsInv'
    BY <1>1, <1>2, <1>3 DEF ViewsInv
  <1>8. QED
    BY <1>1, <1>2, <1>4, <1>5, <1>6, <1>7

\* A close that is not the last one counts one reference less.
LEMMA CloseWrapperHandleStep ==
    ASSUME CHInv, NEW t \in Threads, CloseWrapperHandle(t)
    PROVE  CHInv'
  <1> USE DEF CHInv, CloseWrapperHandle, At, Op, Handle
  <1> DEFINE c == call[t]
  <1>0. PICK h \in Handles, r \in Refs : h = Handle(t) /\ r = c.ref
    BY CountedHandle
  <1>1. /\ c \in Calls /\ CallInv(c) /\ c.pc = "dec" /\ c.op \in {"close", "unmap"}
        /\ fs_handles[h] # None
    BY <1>0, CallPoints, CountedHandle
  <1>2. PICK d \in Calls : d = [c EXCEPT !.pc = "notify", !.ref = None]
    BY <1>1 DEF Calls, Points
  <1>3. /\ d.pc = "notify" /\ d.op = c.op /\ d.fs_handle = c.fs_handle /\ d.file = c.file
        /\ d.ref = None /\ d.new = None /\ d.handle = c.handle /\ d.at = c.at
    BY <1>1, <1>2 DEF Calls, CallInv
  <1>4. Step(t, d)
    BY <1>2
  <1>5. /\ fs_handles'[h] # None /\ fs_handles[h].refcnt \in Nat
        /\ fs_handles'[h].fs_handle = fs_handles[h].fs_handle
        /\ fs_handles'[h].refcnt = fs_handles[h].refcnt - 1
        /\ fs_handles' \in [Handles -> [fs_handle : FsHandles, refcnt : Nat] \cup {None}]
        /\ \A k \in Handles \ {h} : fs_handles'[k] = fs_handles[k]
        /\ r \in Holders(h)
        /\ fs_handles[h].refcnt = Cardinality(Holders(h))
        /\ fs_handles[h].refcnt \notin {0, 1}
    <2>1. fs_handles[h] \in [fs_handle : FsHandles, refcnt : Nat]
      BY <1>1 DEF CHTypeOK
    <2>2. r \in Holders(h) /\ fs_handles[h].refcnt = Cardinality(Holders(h))
      BY <1>0, <1>1, CountedHandle DEF Holders, RefcntIsHolders
    <2>3. fs_handles[h].refcnt \notin {0, 1}
      BY <1>0, <2>2, HoldersFinite, FS_EmptySet
    <2> DEFINE e == [fs_handles[h] EXCEPT !.refcnt = fs_handles[h].refcnt - 1]
    <2>4. /\ e \in [fs_handle : FsHandles, refcnt : Nat]
          /\ e.fs_handle = fs_handles[h].fs_handle /\ e.refcnt = fs_handles[h].refcnt - 1
      BY <2>1, <2>3
    <2>5. fs_handles' = [fs_handles EXCEPT ![h] = e]
      BY <1>0
    <2> HIDE DEF e
    <2>6. QED
      BY <1>1, <2>1, <2>2, <2>3, <2>4, <2>5, EntriesAssumption DEF CHTypeOK
  <1>6. CallInv(d)'
    BY <1>1, <1>3, PointsOfOps DEF CallInv
  <1>7. /\ ref' = [ref EXCEPT ![r] = None]
        /\ Unlocked /\ UNCHANGED <<addrs, server>> /\ c.pc = "dec"
        /\ d.pc \notin {"dec", "insert", "request", "find", "fault"}
    BY <1>0, <1>3
  <1>8. /\ CallsInv' /\ AloneInv' /\ ViewsInv'
        /\ call' \in [Threads -> Calls] /\ call'[t] = d
        /\ \A u \in Threads \ {t} : call'[u] = call[u]
        /\ ref' \in [Refs -> [kind : Kinds, handle : Handles, file : Files] \cup {None}]
        /\ Holders(h)' = Holders(h) \ {r} /\ r \in Holders(h)
        /\ \A k \in Handles \ {h} : Holders(k)' = Holders(k)
        /\ \A q \in Refs \ {r} : ref'[q] = ref[q]
        /\ ref'[r] = None
    <2>1. /\ \/ fs_handles'[h] # None /\ fs_handles'[h].fs_handle = fs_handles[h].fs_handle
             \/ Holders(h) = {r}
          /\ \A k \in Handles \ {h} : fs_handles'[k] = fs_handles[k]
      BY <1>5
    <2>2. d.ref = None /\ d.new = None
      BY <1>3
    <2> HIDE DEF CloseWrapperHandle, CHInv, At, Op, Handle
    <2>3. At(t, "dec") /\ h = Handle(t) /\ r = call[t].ref
      BY <1>0, <1>7 DEF At
    <2>4. QED
      BY <1>0, <1>3, <1>4, <1>5, <1>6, <1>7, <2>1, <2>3, GiveBack
  <1>9. CHTypeOK' /\ LockInv'
    BY <1>1, <1>3, <1>5, <1>8 DEF CHTypeOK, LockInv
  <1>10. \A k \in Handles : /\ fs_handles'[k] = None <=> fs_handles[k] = None
                            /\ fs_handles[k] # None => fs_handles'[k].fs_handle = fs_handles[k].fs_handle
    BY <1>1, <1>5
  <1>11. OwnersInv'
    <2>1. \A z \in FsHandles : (server[z] # None /\ z \notin leaked => Owners(z) # {})'
      BY <1>1, <1>3, <1>8, <1>10 DEF OwnersInv, Owners
    <2>2. QED
      BY <1>1, <1>3, <1>8, <1>10, <2>1 DEF OwnersInv
  <1>12. RefcntIsHolders'
    <2>1. Cardinality(Holders(h) \ {r}) = Cardinality(Holders(h)) - 1
      BY <1>5, HoldersFinite, FS_RemoveElement
    <2>2. Holders(h) \ {r} # {}
      <3>1. Cardinality(Holders(h) \ {r}) # 0
        BY <1>5, <2>1
      <3>2. QED
        BY <3>1, FS_EmptySet
    <2>3. SUFFICES ASSUME NEW k \in Handles
                   PROVE  (IF fs_handles[k] = None THEN Holders(k) = {}
                           ELSE Holders(k) # {} /\ fs_handles[k].refcnt = Cardinality(Holders(k)))'
      BY DEF RefcntIsHolders
    <2>4. CASE k = h
      BY <1>5, <1>8, <2>1, <2>2, <2>4
    <2>5. CASE k # h
      BY <1>5, <1>8, <2>5 DEF RefcntIsHolders
    <2>6. QED
      BY <2>4, <2>5
  <1>13. HandleKeepsFile'
    BY <1>8, <1>10 DEF HandleKeepsFile, CHTypeOK
  <1>14. FreedValueIsForgotten'
    BY <1>1, <1>3, <1>8, <1>10 DEF FreedValueIsForgotten, Closing
  <1>15. QED
    BY <1>8, <1>9, <1>11, <1>12, <1>13, <1>14

\* The last close erases the wrapper and takes over its handle of the server.
LEMMA CloseWrapperHandle_LastStep ==
    ASSUME CHInv, NEW t \in Threads, CloseWrapperHandle_Last(t)
    PROVE  CHInv'
  <1> USE DEF CHInv, CloseWrapperHandle_Last, At, Op, Handle
  <1> DEFINE c == call[t]
  <1>0. PICK h \in Handles, r \in Refs : h = Handle(t) /\ r = c.ref
    BY CountedHandle
  <1>1. /\ c \in Calls /\ CallInv(c) /\ c.pc = "dec" /\ c.op \in {"close", "unmap"}
        /\ fs_handles[h] # None /\ fs_handles[h].refcnt = 1
    BY <1>0, CallPoints, CountedHandle
  <1>s. PICK s \in FsHandles : s = fs_handles[h].fs_handle
    BY <1>1 DEF CHTypeOK
  <1>2. PICK d \in Calls : d = [c EXCEPT !.pc = "closefs", !.ref = None, !.fs_handle = s]
    BY <1>1 DEF Calls, Points
  <1>3. /\ d.pc = "closefs" /\ d.op = c.op /\ d.fs_handle = s /\ d.file = c.file
        /\ d.ref = None /\ d.new = None /\ d.handle = h /\ d.at = c.at
    BY <1>0, <1>1, <1>2 DEF Calls, CallInv
  <1>4. Step(t, d)
    BY <1>0, <1>s, <1>2
  <1>5. /\ fs_handles'[h] = None
        /\ fs_handles' \in [Handles -> [fs_handle : FsHandles, refcnt : Nat] \cup {None}]
        /\ \A k \in Handles \ {h} : fs_handles'[k] = fs_handles[k]
    BY <1>0 DEF CHTypeOK
  <1>6. Holders(h) = {r}
    <2>1. r \in Holders(h) /\ Cardinality(Holders(h)) = 1
      BY <1>0, <1>1, CountedHandle DEF Holders, RefcntIsHolders
    <2>2. QED
      BY <2>1, HoldersFinite, FS_Singleton
  <1>7. CallInv(d)'
    BY <1>1, <1>3, <1>5, PointsOfOps, ValuesAssumption DEF CallInv
  <1>8. /\ ref' = [ref EXCEPT ![r] = None]
        /\ Unlocked /\ UNCHANGED <<addrs, server>> /\ c.pc = "dec"
        /\ d.pc \notin {"dec", "insert", "request", "find", "fault"}
    BY <1>0, <1>3
  <1>9. /\ CallsInv' /\ AloneInv' /\ ViewsInv'
        /\ call' \in [Threads -> Calls] /\ call'[t] = d
        /\ \A u \in Threads \ {t} : call'[u] = call[u]
        /\ ref' \in [Refs -> [kind : Kinds, handle : Handles, file : Files] \cup {None}]
        /\ Holders(h)' = Holders(h) \ {r} /\ r \in Holders(h)
        /\ \A k \in Handles \ {h} : Holders(k)' = Holders(k)
        /\ \A q \in Refs \ {r} : ref'[q] = ref[q]
        /\ ref'[r] = None
    <2> HIDE DEF CloseWrapperHandle_Last, CHInv
    <2>1. QED
      BY <1>0, <1>3, <1>4, <1>5, <1>6, <1>7, <1>8, GiveBack
  <1>10. CHTypeOK'
    BY <1>5, <1>9 DEF CHTypeOK
  <1>11. LockInv'
    BY <1>3, <1>9, ThreadsAssumption DEF LockInv, Unlocked
  <1>12. OwnersInv'
    <2>1. /\ server[s] # None /\ s \notin leaked
          /\ \A k \in Handles \ {h} : fs_handles[k] # None => fs_handles[k].fs_handle # s
          /\ \A u \in Threads : call[u].pc \in {"create", "closefs"} => call[u].fs_handle # s
      BY <1>1, <1>s DEF OwnersInv
    <2>2. ASSUME NEW z \in FsHandles, server[z] # None, z \notin leaked
          PROVE  Owners(z)' # {}
      <3>1. CASE z = s
        <4>1. t \in Owners(z)'
          BY <1>3, <1>9, <3>1 DEF Owners
        <4>2. QED
          BY <4>1
      <3>2. CASE z # s
        <4>1. PICK o : o \in Owners(z)
          BY <2>2 DEF OwnersInv
        <4>2. CASE o \in Handles /\ fs_handles[o] # None /\ fs_handles[o].fs_handle = z
          <5>1. o # h
            BY <1>s, <3>2, <4>2
          <5>2. o \in Owners(z)'
            BY <1>5, <4>2, <5>1 DEF Owners
          <5>3. QED
            BY <5>2
        <4>3. CASE o \in Threads /\ call[o].pc \in {"create", "closefs"} /\ call[o].fs_handle = z
          <5>1. o # t
            BY <1>1, <4>3
          <5>2. o \in Owners(z)'
            BY <1>9, <4>3, <5>1 DEF Owners
          <5>3. QED
            BY <5>2
        <4>4. QED
          BY <4>1, <4>2, <4>3 DEF Owners
      <3>3. QED
        BY <3>1, <3>2
    <2>3. QED
      BY <1>3, <1>5, <1>9, <2>1, <2>2 DEF OwnersInv
  <1>13. RefcntIsHolders'
    <2>1. SUFFICES ASSUME NEW k \in Handles
                   PROVE  (IF fs_handles[k] = None THEN Holders(k) = {}
                           ELSE Holders(k) # {} /\ fs_handles[k].refcnt = Cardinality(Holders(k)))'
      BY DEF RefcntIsHolders
    <2>2. CASE k = h
      BY <1>5, <1>6, <1>9, <2>2
    <2>3. CASE k # h
      BY <1>5, <1>9, <2>3 DEF RefcntIsHolders
    <2>4. QED
      BY <2>2, <2>3
  <1>14. HandleKeepsFile'
    <2>1. \A q \in Refs \ {r} : ref[q] # None => ref[q].handle # h /\ ref[q].handle \in Handles
      BY <1>6 DEF Holders, CHTypeOK
    <2>2. QED
      BY <1>5, <1>9, <2>1 DEF HandleKeepsFile
  <1>15. FreedValueIsForgotten'
    <2>1. SUFFICES ASSUME NEW k \in Handles
                   PROVE  (k \in events <=> fs_handles[k] # None \/ Closing(k))'
      BY DEF FreedValueIsForgotten
    <2>2. CASE k = h
      BY <1>1, <1>3, <1>9, <2>2 DEF FreedValueIsForgotten, Closing
    <2>3. CASE k # h
      BY <1>1, <1>3, <1>5, <1>9, <2>3 DEF FreedValueIsForgotten, Closing
    <2>4. QED
      BY <2>2, <2>3
  <1>16. QED
    BY <1>9, <1>10, <1>11, <1>12, <1>13, <1>14, <1>15

\* A view that is unmapped leaves the map first; its reference is given back
\* by the same call.
LEMMA UnmapViewOfSectionStep ==
    ASSUME CHInv, NEW t \in Threads, NEW b \in Bases, UnmapViewOfSection(t, b)
    PROVE  CHInv'
  <1> USE DEF CHInv, UnmapViewOfSection, At, Op, Handle
  <1>1. /\ addrs[b] # None /\ addrs[b].ref \in Refs /\ addrs[b].file_handle \in Handles
        /\ addrs[b].file_name \in Files /\ b \in Pages /\ b # None
    BY MemoryAssumption DEF CHTypeOK, Pages
  <1>2. PICK r \in Refs, h \in Handles, f \in Files :
           r = addrs[b].ref /\ h = addrs[b].file_handle /\ f = addrs[b].file_name
    BY <1>1
  <1>3. PICK d \in Calls : d = [Idle EXCEPT !.pc = "dec", !.op = "unmap", !.ref = r,
                                            !.handle = h, !.file = f, !.at = b]
    BY <1>1 DEF Idle, Calls, Points, Ops
  <1>4. /\ d.pc = "dec" /\ d.op = "unmap" /\ d.ref = r /\ d.new = None
        /\ d.handle = h /\ d.file = f /\ d.at = b
    BY <1>3 DEF Idle
  <1>5. Step(t, d)
    BY <1>2, <1>3
  <1>6. /\ call' \in [Threads -> Calls] /\ call'[t] = d
        /\ \A u \in Threads \ {t} : call'[u] = call[u]
    BY <1>5, StepFacts
  <1>7. /\ addrs'[b] = None /\ \A v \in Bases \ {b} : addrs'[v] = addrs[v]
        /\ addrs' \in [Bases -> [file_handle : Handles, file_name : Files, ref : Refs] \cup {None}]
    BY DEF CHTypeOK
  <1>8. /\ ref[r] # None /\ ref[r].kind = "view" /\ ref[r].handle = h
        /\ \A v \in Bases \ {b} : addrs[v] # None => addrs[v].ref # r
        /\ \A u \in Threads : call[u].ref # r
        /\ \A u \in Threads : At(u, "insert") => call[u].new # r
    BY <1>1, <1>2 DEF ViewsInv, Unused, AloneInv
  <1>9. CHTypeOK' /\ LockInv'
    BY <1>4, <1>6, <1>7 DEF CHTypeOK, LockInv
  <1>10. CallsInv'
    <2>1. ASSUME NEW u \in Threads \ {t}
          PROVE  CallInv(call[u])' /\ CallRefInv(call[u])' /\ FaultInv(call[u])' /\ RequestInv(call[u])'
      <3>1. CallInv(call[u]) /\ CallRefInv(call[u]) /\ FaultInv(call[u]) /\ RequestInv(call[u])
        BY DEF CallsInv
      <3>2. CallInv(call[u])' /\ CallRefInv(call[u])' /\ RequestInv(call[u])'
        BY <1>6, <3>1 DEF CallInv, CallRefInv, RequestInv
      <3>3. FaultInv(call[u])'
        <4>1. CASE call[u].pc = "fault"
          <5>1. PICK v \in Bases : /\ addrs[v] # None /\ addrs[v].ref = call[u].ref
                                  /\ call[u].at \in ViewPages(v, addrs[v].file_name)
            BY <3>1, <4>1 DEF FaultInv
          <5>2. v # b
            BY <1>2, <1>8, <5>1
          <5>3. QED
            BY <1>6, <1>7, <4>1, <5>1, <5>2 DEF FaultInv
        <4>2. CASE call[u].pc # "fault"
          BY <1>6, <3>1, <4>2 DEF FaultInv
        <4>3. QED
          BY <4>1, <4>2
      <3>4. QED
        BY <3>2, <3>3
    <2>2. CallInv(d)'
      BY <1>1, <1>4, PointsOfOps, ValuesAssumption DEF CallInv
    <2>3. CallRefInv(d)' /\ FaultInv(d)' /\ RequestInv(d)'
      BY <1>4, <1>8, KindsForOps DEF CallRefInv, FaultInv, RequestInv
    <2>4. QED
      BY <1>6, <2>1, <2>2, <2>3 DEF CallsInv, CallInv, CallRefInv, FaultInv, RequestInv
  <1>11. AloneInv'
    <2>1. \A u \in Threads \ {t} : At(u, "dec") => \A v \in Threads \ {u} : call'[v].ref # call'[u].ref
      BY <1>4, <1>6, <1>8 DEF AloneInv
    <2>2. \A u \in Threads \ {t} : At(u, "insert") =>
            \A v \in Threads : call'[v].ref # call'[u].new
      BY <1>4, <1>6, <1>8 DEF AloneInv
    <2>3. \A u \in Threads \ {t} : At(u, "insert") => call[u].new # None
      BY DEF CallsInv, CallInv
    <2>4. \A u \in Threads \ {t} : At(u, "insert") =>
            \A v \in Threads \ {u} : call'[v].new # call'[u].new
      BY <1>4, <1>6, <2>3 DEF AloneInv
    <2>5. QED
      BY <1>4, <1>6, <1>8, <2>1, <2>2, <2>4 DEF AloneInv
  <1>12. ViewsInv'
    BY <1>4, <1>6, <1>7, <1>8 DEF ViewsInv
  <1>13. OwnersInv'
    <2>1. \A z \in FsHandles : (server[z] # None /\ z \notin leaked => Owners(z) # {})'
      BY <1>6 DEF OwnersInv, Owners
    <2>2. QED
      BY <1>4, <1>6, <2>1 DEF OwnersInv
  <1>14. RefcntIsHolders' /\ HandleKeepsFile'
    BY DEF RefcntIsHolders, Holders, HandleKeepsFile
  <1>15. FreedValueIsForgotten'
    BY <1>4, <1>6 DEF FreedValueIsForgotten, Closing
  <1>16. QED
    BY <1>9, <1>10, <1>11, <1>12, <1>13, <1>14, <1>15

-----------------------------------------------------------------------------
(* The theorems.                                                           *)

\* The initial state has the invariant: the process has nothing yet.
LEMMA CHInit == Init => CHInv
  <1> SUFFICES ASSUME Init PROVE CHInv
    OBVIOUS
  <1> USE DEF Init
  <1>1. /\ \A t \in Threads : call[t] = Idle
        /\ Idle.pc = "idle" /\ Idle.op = "none" /\ Idle.ref = None /\ Idle.new = None
    BY DEF Idle
  <1>2. CHTypeOK
    BY IdleInv DEF CHTypeOK
  <1>3. LockInv /\ CallsInv
    BY <1>1, IdleInv, ThreadsAssumption DEF LockInv, CallsInv
  <1>4. AloneInv /\ ViewsInv
    BY <1>1 DEF AloneInv, ViewsInv, At
  <1>5. OwnersInv
    BY <1>1 DEF OwnersInv
  <1>6. \A h \in Handles : Holders(h) = {}
    BY DEF Holders
  <1>7. RefcntIsHolders /\ HandleKeepsFile
    BY <1>6 DEF RefcntIsHolders, HandleKeepsFile
  <1>8. FreedValueIsForgotten
    BY <1>1 DEF FreedValueIsForgotten, Closing
  <1>9. QED
    BY <1>2, <1>3, <1>4, <1>5, <1>7, <1>8 DEF CHInv

\* Every step keeps it.
LEMMA CHNext == CHInv /\ [Next]_vars => CHInv'
  <1> SUFFICES ASSUME CHInv, [Next]_vars PROVE CHInv'
    OBVIOUS
  <1>1. ASSUME NEW t \in Threads, Begin(t)
        PROVE  CHInv'
    BY <1>1, OpenRequestStep, OpenReplyLostStep, QuietBegin, CloseStep,
       UnmapViewOfSectionStep, TouchStep DEF Begin
  <1>2. ASSUME NEW t \in Threads, Locked(t)
        PROVE  CHInv'
    BY <1>2, FindFsHandleStep, FaultLookupStep, SectionInsertStep, MapInsertStep,
       CloseWrapperHandleStep, CloseWrapperHandle_LastStep, SectionsNotifyCloseHandleStep,
       MapUnknownSectionStep, MapAllocateStep, CreateWrapperHandleStep,
       DuplicateIncRefStep, SectionIncRefStep, MapNoMemoryStep, MapIncRefStep DEF Locked
  <1>3. ASSUME NEW t \in Threads, Unguarded(t)
        PROVE  CHInv'
    BY <1>3, RequestAnsweredStep, RequestFailsStep, CloseFSHandleStep, CloseRequestLostStep,
       ZwCloseEventStep, VirtualFreeStep, LoadStep DEF Unguarded
  <1>4. CASE UNCHANGED vars
    <2> USE <1>4 DEF vars, At, Op, Handle, CHInv
    <2>1. CHTypeOK' /\ LockInv' /\ CallsInv'
      BY DEF CHTypeOK, LockInv, CallsInv, CallInv, CallRefInv, FaultInv, RequestInv
    <2>2. AloneInv' /\ ViewsInv' /\ HandleKeepsFile'
      BY DEF AloneInv, ViewsInv, HandleKeepsFile
    <2>3. OwnersInv'
      BY DEF OwnersInv, Owners
    <2>4. RefcntIsHolders'
      BY DEF RefcntIsHolders, Holders
    <2>5. FreedValueIsForgotten'
      BY DEF FreedValueIsForgotten, Closing
    <2>6. QED
      BY <2>1, <2>2, <2>3, <2>4, <2>5
  <1>5. QED
    BY <1>1, <1>2, <1>3, <1>4 DEF Next

\* The tables of the client process are consistent at all times: CHInv is an
\* invariant of the client side (FtpFsWrappers.cpp, FtpFsSections.cpp).
THEOREM InductiveInvariant == Spec => []CHInv
  BY CHInit, CHNext, PTL DEF Spec

\* The count of a handle is the number of references to its value.
THEOREM RefcntIsHoldersHolds == Spec => []RefcntIsHolders
  <1>1. CHInv => RefcntIsHolders
    BY DEF CHInv
  <1>2. QED
    BY <1>1, InductiveInvariant, PTL

\* What a reference stands for stays open at the server.
THEOREM HandleKeepsFileHolds == Spec => []HandleKeepsFile
  <1>1. CHInv => HandleKeepsFile
    BY DEF CHInv
  <1>2. QED
    BY <1>1, InductiveInvariant, PTL

\* A value that the kernel has back is not taken for a file of the drive.
THEOREM FreedValueIsForgottenHolds == Spec => []FreedValueIsForgotten
  <1>1. CHInv => FreedValueIsForgotten
    BY DEF CHInv
  <1>2. QED
    BY <1>1, InductiveInvariant, PTL

\* What is open at the server has one owner in the process, unless a broken
\* pipe has lost it.
THEOREM ServerHandleHasOneOwnerHolds == Spec => []ServerHandleHasOneOwner
  <1>1. CHInv => ServerHandleHasOneOwner
    <2> SUFFICES ASSUME CHInv, NEW s \in FsHandles
                 PROVE  IF server[s] = None \/ s \in leaked THEN Owners(s) = {}
                        ELSE \E o \in Handles \cup Threads : Owners(s) = {o}
      BY DEF ServerHandleHasOneOwner
    <2> USE DEF CHInv
    <2>1. CASE server[s] = None \/ s \in leaked
      BY <2>1 DEF OwnersInv, Owners
    <2>2. CASE server[s] # None /\ s \notin leaked
      <3>1. PICK o : o \in Owners(s)
        BY <2>2 DEF OwnersInv
      <3>2. o \in Handles \cup Threads
        BY <3>1 DEF Owners
      <3>3. ASSUME NEW p \in Owners(s)  PROVE p = o
        BY <3>1 DEF Owners, OwnersInv
      <3>4. QED
        BY <2>2, <3>1, <3>2, <3>3
    <2>3. QED
      BY <2>1, <2>2
  <1>2. QED
    BY <1>1, InductiveInvariant, PTL

\* If no view ends where another begins, every request reaches the file that
\* the caller means, that of a page fault too.
THEOREM RequestsReachTheirFileHolds ==
    ASSUME ViewsApart
    PROVE  Spec => []RequestsReachTheirFile
  <1>1. CHInv => RequestsReachTheirFile
    BY RequestHandle DEF RequestsReachTheirFile
  <1>2. QED
    BY <1>1, InductiveInvariant, PTL
=============================================================================
