--------------------------- MODULE DirCacheProofs ---------------------------
(***************************************************************************)
(* For any number of threads and names: the cached listing and the marks   *)
(* of missing names are wrong only about the names that excused and unsure *)
(* name.  The invariant is made of what each request knows of its own      *)
(* record and file, and of two statements about the tables that name, for  *)
(* each place where a request can be between the server and a table, the   *)
(* table that it still has to visit.                                       *)
(***************************************************************************)
EXTENDS DirCache, TLAPS

\* What a request knows of its own record and of its file.
Knows(t) ==
    /\ call[t].pc \in {"enum", "put"} => call[t].op \in Dispositions \cup {"list"}
    /\ call[t].pc \in {"found", "missing", "mkd", "add", "remove", "mark"} =>
           call[t].op \in Dispositions
    /\ call[t].pc # "idle" /\ call[t].op \in Dispositions => call[t].name \in Names
    /\ call[t].pc \in {"enum", "put", "found", "missing", "mkd"} /\ call[t].op \in Dispositions =>
           file[t] = None
    /\ call[t].pc = "add" => file[t] # None /\ file[t].name = call[t].name /\ file[t].changed
    /\ call[t].pc \in OnFile =>
           call[t].op \in {"write", "delete", "rename", "close"}
    /\ call[t].pc # "idle" /\ call[t].op = "rename" => call[t].to \in Names

\* The names that a request changes.
Changes(t) == {call[t].name} \cup (IF call[t].op = "rename" THEN {call[t].to} ELSE {})

\* The listing need not have a change that its request has not brought to it,
\* nor a name whose handle will have it brought up to date.
ToRefresh(n) ==
    \E t \in Threads : call[t].pc \in {"clean", "refresh"} /\ n \in Changes(t)
ToClose(n) ==
    \E t \in Threads :
        file[t] # None /\ file[t].name = n /\ file[t].changed /\ call[t].pc # "close"

ListingInv ==
    cache # None =>
        \A n \in Names \ excused : ~ToRefresh(n) /\ ~ToClose(n) => (n \in cache <=> n \in server)

\* A mark may stand until the request that made the name has removed it.
ToUnmark(n) ==
    \E t \in Threads : call[t].pc \in {"add", "remove", "clean"} /\ n \in Changes(t)

MarkInv ==
    \A n \in Names \ unsure : ~ToUnmark(n) /\ inaccessible[n] = "marked" => n \notin server

\* The request goes on at another point, its record otherwise unchanged.
LEMMA GotoCalls ==
    ASSUME call \in [Threads -> Calls], NEW t \in Threads, NEW p \in Points, Goto(t, p)
    PROVE  /\ call' \in [Threads -> Calls]
           /\ call'[t].pc = p /\ call'[t].op = call[t].op /\ call'[t].name = call[t].name
           /\ call'[t].to = call[t].to /\ call'[t].dir = call[t].dir
           /\ \A u \in Threads \ {t} : call'[u] = call[u]
  BY DEF Goto, Calls, Points

\* The request is answered, and its thread has none.
LEMMA ReturnCalls ==
    ASSUME call \in [Threads -> Calls], NEW t \in Threads, Return(t)
    PROVE  /\ call' \in [Threads -> Calls]
           /\ call'[t] = Idle /\ call'[t].pc = "idle"
           /\ \A u \in Threads \ {t} : call'[u] = call[u]
  BY DEF Return, Calls, Idle, Points

\* A request on the open file starts with the name of that file.
LEMMA StartCalls ==
    ASSUME call \in [Threads -> Calls], NEW t \in Threads, NEW o \in {"write", "delete", "close"},
           NEW p \in Points, Start(t, o, p), file \in [Threads -> OpenFiles \cup {None}]
    PROVE  /\ call' \in [Threads -> Calls]
           /\ call'[t].pc = p /\ call'[t].op = o /\ call'[t].name = file[t].name
           /\ call'[t].name \in Names
           /\ \A u \in Threads \ {t} : call'[u] = call[u]
           /\ call[t].pc = "idle" /\ file[t] # None
<1>1. file[t].name \in Names
  BY DEF Start, OpenFiles
<1>2. [Idle EXCEPT !.pc = p, !.op = o, !.name = file[t].name] \in Calls
  BY <1>1 DEF Calls, Idle
<1>3. call' = [call EXCEPT ![t] = [Idle EXCEPT !.pc = p, !.op = o, !.name = file[t].name]]
  BY DEF Start
<1> QED
  BY <1>1, <1>2, <1>3 DEF Start, At, Calls, Idle

\* A lookup goes on to find its name, and a listing is answered.
LEMMA ListedCalls ==
    ASSUME call \in [Threads -> Calls], NEW t \in Threads, NEW list, Listed(t, list)
    PROVE  /\ call' \in [Threads -> Calls]
           /\ call[t].op = "list" => call'[t].pc = "idle"
           /\ call[t].op # "list" =>
                 /\ call'[t].pc \in {"found", "missing"}
                 /\ call'[t].op = call[t].op /\ call'[t].name = call[t].name
                 /\ call'[t].to = call[t].to
           /\ \A u \in Threads \ {t} : call'[u] = call[u]
<1>1. CASE call[t].op = "list"
  BY <1>1, ReturnCalls DEF Listed, Op
<1>2. CASE call[t].op # "list"
  <2> DEFINE p == IF Name(t) \in list THEN "found" ELSE "missing"
  <2>1. call' = [call EXCEPT ![t].pc = p, ![t].list = {}]
    BY <1>2 DEF Listed, Op
  <2>2. p \in Points /\ p \in {"found", "missing"}
    BY DEF Points
  <2> HIDE DEF p
  <2>3. [call[t] EXCEPT !.pc = p, !.list = {}] \in Calls
    BY <2>2 DEF Calls
  <2> QED
    BY <2>1, <2>2, <2>3, <1>2 DEF Calls
<1> QED
  BY <1>1, <1>2

\* An open is answered at once or starts with what its client asked for.
LEMMA OpenCalls ==
    ASSUME call \in [Threads -> Calls], NEW t \in Threads, NEW n \in Names,
           NEW d \in Dispositions, NEW dir \in BOOLEAN, OpenFile(t, n, d, dir)
    PROVE  /\ call' \in [Threads -> Calls]
           /\ call[t].pc = "idle"
           /\ \/ call' = call
              \/ /\ call'[t].pc \in {"enum", "missing"} /\ call'[t].op = d
                 /\ call'[t].name = n
           /\ \A u \in Threads \ {t} : call'[u] = call[u]
<1> DEFINE p == IF WantCheckExist(d) \/ dir THEN "enum" ELSE "missing"
           c == [Idle EXCEPT !.pc = p, !.op = d, !.name = n, !.dir = dir]
<1>1. c \in Calls /\ c.pc \in {"enum", "missing"} /\ c.op = d /\ c.name = n
  BY DEF Calls, Idle, Points
<1>2. call' = call \/ call' = [call EXCEPT ![t] = c]
  BY DEF OpenFile
<1> HIDE DEF c
<1> QED
  BY <1>1, <1>2 DEF OpenFile, At

\* A renaming has both names.
LEMMA RenameCalls ==
    ASSUME call \in [Threads -> Calls], NEW t \in Threads, NEW n \in Names,
           RenameFile(t, n), file \in [Threads -> OpenFiles \cup {None}]
    PROVE  /\ call' \in [Threads -> Calls]
           /\ call[t].pc = "idle" /\ file[t] # None
           /\ call'[t].pc = "clean" /\ call'[t].op = "rename"
           /\ call'[t].name = file[t].name /\ call'[t].to = n /\ call'[t].name \in Names
           /\ \A u \in Threads \ {t} : call'[u] = call[u]
<1> DEFINE c == [Idle EXCEPT !.pc = "clean", !.op = "rename", !.name = file[t].name, !.to = n]
<1>1. file[t].name \in Names
  BY DEF RenameFile, OpenFiles
<1>2. c \in Calls /\ c.pc = "clean" /\ c.op = "rename" /\ c.name = file[t].name /\ c.to = n
  BY <1>1 DEF Calls, Idle, Points
<1>3. call' = [call EXCEPT ![t] = c]
  BY DEF RenameFile
<1> HIDE DEF c
<1> QED
  BY <1>1, <1>2, <1>3 DEF RenameFile, At

\* A listing asks for no name.
LEMMA ListCalls ==
    ASSUME call \in [Threads -> Calls], NEW t \in Threads, ListDirectory(t)
    PROVE  /\ call' \in [Threads -> Calls]
           /\ call'[t].pc = "enum" /\ call'[t].op = "list"
           /\ \A u \in Threads \ {t} : call'[u] = call[u]
<1> DEFINE c == [Idle EXCEPT !.pc = "enum", !.op = "list"]
<1>1. c \in Calls /\ c.pc = "enum" /\ c.op = "list"
  BY DEF Calls, Idle, Points
<1>2. call' = [call EXCEPT ![t] = c]
  BY DEF ListDirectory
<1> HIDE DEF c
<1> QED
  BY <1>1, <1>2

\* The listing is kept until it is put into the cache.
LEMMA ReceivedCalls ==
    ASSUME call \in [Threads -> Calls], NEW t \in Threads, FtpEnum_Received(t),
           server \subseteq Names
    PROVE  /\ call' \in [Threads -> Calls]
           /\ call[t].pc = "enum" /\ call'[t].pc = "put" /\ call'[t].op = call[t].op
           /\ call'[t].name = call[t].name /\ call'[t].to = call[t].to
           /\ \A u \in Threads \ {t} : call'[u] = call[u]
<1> DEFINE c == [call[t] EXCEPT !.pc = "put", !.list = server]
<1>1. /\ c \in Calls /\ c.pc = "put" /\ c.op = call[t].op
      /\ c.name = call[t].name /\ c.to = call[t].to
  BY DEF Calls, Points
<1>2. call' = [call EXCEPT ![t] = c]
  BY DEF FtpEnum_Received
<1> HIDE DEF c
<1> QED
  BY <1>1, <1>2 DEF FtpEnum_Received, At

-----------------------------------------------------------------------------
Tables ==
    /\ server \subseteq Names
    /\ cache \in (SUBSET Names) \cup {None}
    /\ inaccessible \in [Names -> {"absent", "marked", "locked"}]
    /\ excused \subseteq Names
    /\ unsure \subseteq {n \in Names : inaccessible[n] = "marked"}

\* A command changes no names but its own.
LEMMA CommandNames ==
    ASSUME NEW from \in Names \cup {None}, NEW to \in Names \cup {None},
           server \subseteq Names,
           server' \in {server, Done(Command(from, to), server)}
    PROVE  /\ server' \subseteq Names
           /\ \A n \in Names \ {from, to} : n \in server' <=> n \in server
  BY DEF Done, Command

\* A change that no request waits for is noted where it makes a table wrong.
LEMMA UnnoticedTables ==
    ASSUME Tables, server' \subseteq Names, Unnoticed,
           cache' = cache, inaccessible' = inaccessible
    PROVE  /\ Tables'
           /\ cache # None => \A n \in Names \ excused' :
                  n \notin excused /\ (n \in server' <=> n \in server)
           /\ \A n \in Names \ unsure' : inaccessible[n] = "marked" =>
                  n \notin unsure /\ (n \in server' => n \in server)
<1>1. /\ excused' = IF cache = None THEN {}
                    ELSE excused \cup (server' \ server) \cup (server \ server')
      /\ unsure' = unsure \cup {n \in server' \ server : inaccessible[n] = "marked"}
  BY DEF Unnoticed, MarksStand
<1>2. Tables'
  BY <1>1 DEF Tables
<1> QED
  BY <1>1, <1>2

\* The same for a command that is taken for refused.
LEMMA RefusedTables ==
    ASSUME Tables, NEW from \in Names \cup {None}, NEW to \in Names \cup {None},
           Refused(Command(from, to)), cache' = cache, inaccessible' = inaccessible
    PROVE  /\ Tables'
           /\ cache # None => \A n \in Names \ excused' :
                  n \notin excused /\ (n \in server' <=> n \in server)
           /\ \A n \in Names \ unsure' : inaccessible[n] = "marked" =>
                  n \notin unsure /\ (n \in server' => n \in server)
<1>1. server' \subseteq Names
  BY CommandNames DEF Refused, Tables
<1> QED
  BY <1>1, UnnoticedTables DEF Refused

UsesItsFile(t) ==
    call[t].pc \in OnFile => file[t] # None /\ file[t].name = call[t].name
TypeInv == DirTypeOK /\ \A t \in Threads : Knows(t)

\* The parts of the type invariant.
LEMMA TypeInvParts ==
    TypeInv <=> /\ Tables
                /\ file \in [Threads -> OpenFiles \cup {None}]
                /\ call \in [Threads -> Calls]
                /\ \A t \in Threads : Knows(t) /\ UsesItsFile(t)
  BY DEF TypeInv, DirTypeOK, Tables, UsesItsFile

\* A step of thread t concerns no other thread.
LEMMA TypeInvOthers ==
    ASSUME TypeInv, NEW t \in Threads,
           Tables', file' \in [Threads -> OpenFiles \cup {None}], call' \in [Threads -> Calls],
           \A u \in Threads \ {t} : call'[u] = call[u],
           \A u \in Threads \ {t} : file'[u] = file[u],
           Knows(t)', UsesItsFile(t)'
    PROVE  TypeInv'
<1>1. \A u \in Threads \ {t} : Knows(u)' /\ UsesItsFile(u)'
  BY TypeInvParts DEF Knows, UsesItsFile
<1> QED
  BY <1>1 DEF TypeInv, DirTypeOK, Tables, UsesItsFile

\* The steps of a request keep the types and what the request knows.
LEMMA TypeStep ==
    ASSUME TypeInv, NEW t \in Threads, Begin(t) \/ Step(t)
    PROVE  TypeInv'
<1> USE NoneAssumption, DispositionsAssumption DEF OnFile, Idle, At, Op, Name
<1>0. /\ Tables
      /\ file \in [Threads -> OpenFiles \cup {None}]
      /\ call \in [Threads -> Calls]
      /\ Knows(t) /\ UsesItsFile(t)
  BY TypeInvParts
<1>1. CASE \E n \in Names, d \in Dispositions, dir \in BOOLEAN : OpenFile(t, n, d, dir)
  <2>1. call' \in [Threads -> Calls] /\ \A u \in Threads \ {t} : call'[u] = call[u]
    BY <1>0, <1>1, OpenCalls DEF OpenFile, Points
  <2>2. /\ file' \in [Threads -> OpenFiles \cup {None}]
        /\ \A u \in Threads \ {t} : file'[u] = file[u]
    BY <1>0, <1>1 DEF OpenFile, OpenFiles, Knows, UsesItsFile
  <2>3. Tables'
    BY <1>0, <1>1 DEF OpenFile, InaccessibleRemove, Tables, Knows, OpenFiles, Calls
  <2>4. Knows(t)' /\ UsesItsFile(t)'
    <3>1. PICK n \in Names, d \in Dispositions, dir \in BOOLEAN : OpenFile(t, n, d, dir)
      BY <1>1
    <3>2. file' = file /\ file[t] = None
      BY <3>1 DEF OpenFile
    <3>3. CASE call' = call
      BY <1>0, <3>2, <3>3 DEF Knows, UsesItsFile
    <3>4. CASE call' # call
      BY <1>0, <3>1, <3>2, <3>4, OpenCalls DEF Knows, UsesItsFile
    <3> QED
      BY <3>3, <3>4
  <2> QED
    BY <2>1, <2>2, <2>3, <2>4, TypeInvOthers
<1>2. CASE \E n \in Names : RenameFile(t, n)
  <2>1. call' \in [Threads -> Calls] /\ \A u \in Threads \ {t} : call'[u] = call[u]
    BY <1>0, <1>2, RenameCalls DEF RenameFile, Points
  <2>2. /\ file' \in [Threads -> OpenFiles \cup {None}]
        /\ \A u \in Threads \ {t} : file'[u] = file[u]
    BY <1>0, <1>2 DEF RenameFile, OpenFiles, Knows, UsesItsFile
  <2>3. Tables'
    <3>1. PICK n \in Names : RenameFile(t, n)
      BY <1>2
    <3>2. file[t].name \in Names
      BY <1>0, <3>1 DEF RenameFile, OpenFiles
    <3>3. server' \subseteq Names
      BY <1>0, <3>1, <3>2, CommandNames DEF RenameFile, TakenForDone, Tables
    <3> QED
      BY <1>0, <3>1, <3>3 DEF RenameFile, TakenForDone, Tables
  <2>4. Knows(t)' /\ UsesItsFile(t)'
    <3>1. PICK n \in Names : RenameFile(t, n)
      BY <1>2
    <3>2. file' = file
      BY <3>1 DEF RenameFile
    <3> QED
      BY <1>0, <3>1, <3>2, RenameCalls DEF Knows, UsesItsFile
  <2> QED
    BY <2>1, <2>2, <2>3, <2>4, TypeInvOthers
<1>3. CASE \E n \in Names : RenameRefused(t, n)
  <2>1. call' \in [Threads -> Calls] /\ \A u \in Threads \ {t} : call'[u] = call[u]
    BY <1>0, <1>3, Zenon DEF RenameRefused, Points
  <2>2. /\ file' \in [Threads -> OpenFiles \cup {None}]
        /\ \A u \in Threads \ {t} : file'[u] = file[u]
    BY <1>0, <1>3 DEF RenameRefused, OpenFiles, Knows, UsesItsFile
  <2>3. Tables'
    <3>1. PICK n \in Names : RenameRefused(t, n)
      BY <1>3
    <3>2. file[t].name \in Names
      BY <1>0, <3>1 DEF RenameRefused, OpenFiles
    <3> QED
      BY <1>0, <3>1, <3>2, RefusedTables DEF RenameRefused
  <2>4. Knows(t)' /\ UsesItsFile(t)'
    BY <1>0, <1>3, <2>2, Zenon DEF RenameRefused, Knows, UsesItsFile, Points,
       WantCreateFile, OpenFiles
  <2> QED
    BY <2>1, <2>2, <2>3, <2>4, TypeInvOthers
<1>4. CASE \E offset \in {0, 1} : WriteFile(t, offset)
  <2>1. call' \in [Threads -> Calls] /\ \A u \in Threads \ {t} : call'[u] = call[u]
    BY <1>0, <1>4, StartCalls DEF WriteFile, Points
  <2>2. /\ file' \in [Threads -> OpenFiles \cup {None}]
        /\ \A u \in Threads \ {t} : file'[u] = file[u]
    BY <1>0, <1>4 DEF WriteFile, OpenFiles, Knows, UsesItsFile
  <2>3. Tables'
    BY <1>0, <1>4 DEF WriteFile, Tables, Knows, OpenFiles, Calls
  <2>4. Knows(t)' /\ UsesItsFile(t)'
    BY <1>0, <1>4, <2>2, StartCalls DEF WriteFile, Knows, UsesItsFile, Points,
       WantCreateFile, OpenFiles
  <2> QED
    BY <2>1, <2>2, <2>3, <2>4, TypeInvOthers
<1>5. CASE DeleteFile(t)
  <2>1. call' \in [Threads -> Calls] /\ \A u \in Threads \ {t} : call'[u] = call[u]
    BY <1>0, <1>5, StartCalls DEF DeleteFile, Points
  <2>2. /\ file' \in [Threads -> OpenFiles \cup {None}]
        /\ \A u \in Threads \ {t} : file'[u] = file[u]
    BY <1>0, <1>5 DEF DeleteFile, OpenFiles, Knows, UsesItsFile
  <2>3. Tables'
    BY <1>0, <1>5 DEF DeleteFile, Tables, Knows, OpenFiles, Calls
  <2>4. Knows(t)' /\ UsesItsFile(t)'
    BY <1>0, <1>5, <2>2, StartCalls DEF DeleteFile, Knows, UsesItsFile, Points,
       WantCreateFile, OpenFiles
  <2> QED
    BY <2>1, <2>2, <2>3, <2>4, TypeInvOthers
<1>6. CASE CloseHandle(t)
  <2>1. call' \in [Threads -> Calls] /\ \A u \in Threads \ {t} : call'[u] = call[u]
    BY <1>0, <1>6, StartCalls DEF CloseHandle, Points
  <2>2. /\ file' \in [Threads -> OpenFiles \cup {None}]
        /\ \A u \in Threads \ {t} : file'[u] = file[u]
    BY <1>0, <1>6 DEF CloseHandle, OpenFiles, Knows, UsesItsFile
  <2>3. Tables'
    BY <1>0, <1>6 DEF CloseHandle, Tables, Knows, OpenFiles, Calls
  <2>4. Knows(t)' /\ UsesItsFile(t)'
    BY <1>0, <1>6, <2>2, StartCalls DEF CloseHandle, Knows, UsesItsFile, Points,
       WantCreateFile, OpenFiles
  <2> QED
    BY <2>1, <2>2, <2>3, <2>4, TypeInvOthers
<1>7. CASE ListDirectory(t)
  <2>1. call' \in [Threads -> Calls] /\ \A u \in Threads \ {t} : call'[u] = call[u]
    BY <1>0, <1>7, ListCalls DEF ListDirectory, Points
  <2>2. /\ file' \in [Threads -> OpenFiles \cup {None}]
        /\ \A u \in Threads \ {t} : file'[u] = file[u]
    BY <1>0, <1>7 DEF ListDirectory, OpenFiles, Knows, UsesItsFile
  <2>3. Tables'
    BY <1>0, <1>7 DEF ListDirectory, Tables, Knows, OpenFiles, Calls
  <2>4. Knows(t)' /\ UsesItsFile(t)'
    BY <1>0, <1>7, <2>2, ListCalls DEF ListDirectory, Knows, UsesItsFile, Points,
       WantCreateFile, OpenFiles
  <2> QED
    BY <2>1, <2>2, <2>3, <2>4, TypeInvOthers
<1>8. CASE FtpEnum_Cached(t)
  <2>1. call' \in [Threads -> Calls] /\ \A u \in Threads \ {t} : call'[u] = call[u]
    BY <1>0, <1>8, ListedCalls DEF FtpEnum_Cached, Points
  <2>2. /\ file' \in [Threads -> OpenFiles \cup {None}]
        /\ \A u \in Threads \ {t} : file'[u] = file[u]
    BY <1>0, <1>8 DEF FtpEnum_Cached, OpenFiles, Knows, UsesItsFile
  <2>3. Tables'
    BY <1>0, <1>8 DEF FtpEnum_Cached, Tables, Knows, OpenFiles, Calls
  <2>4. Knows(t)' /\ UsesItsFile(t)'
    BY <1>0, <1>8, <2>2, ListedCalls DEF FtpEnum_Cached, Knows, UsesItsFile, Points,
       WantCreateFile, OpenFiles
  <2> QED
    BY <2>1, <2>2, <2>3, <2>4, TypeInvOthers
<1>9. CASE FtpEnum_Failed(t)
  <2>1. call' \in [Threads -> Calls] /\ \A u \in Threads \ {t} : call'[u] = call[u]
    BY <1>0, <1>9, ListedCalls DEF FtpEnum_Failed, Points
  <2>2. /\ file' \in [Threads -> OpenFiles \cup {None}]
        /\ \A u \in Threads \ {t} : file'[u] = file[u]
    BY <1>0, <1>9 DEF FtpEnum_Failed, OpenFiles, Knows, UsesItsFile
  <2>3. Tables'
    BY <1>0, <1>9 DEF FtpEnum_Failed, Tables, Knows, OpenFiles, Calls
  <2>4. Knows(t)' /\ UsesItsFile(t)'
    BY <1>0, <1>9, <2>2, ListedCalls DEF FtpEnum_Failed, Knows, UsesItsFile, Points,
       WantCreateFile, OpenFiles
  <2> QED
    BY <2>1, <2>2, <2>3, <2>4, TypeInvOthers
<1>10. CASE FtpEnum_Put(t)
  <2>1. call' \in [Threads -> Calls] /\ \A u \in Threads \ {t} : call'[u] = call[u]
    BY <1>0, <1>10, ListedCalls DEF FtpEnum_Put, Points
  <2>2. /\ file' \in [Threads -> OpenFiles \cup {None}]
        /\ \A u \in Threads \ {t} : file'[u] = file[u]
    BY <1>0, <1>10 DEF FtpEnum_Put, OpenFiles, Knows, UsesItsFile
  <2>3. Tables'
    BY <1>0, <1>10 DEF FtpEnum_Put, Tables, Knows, OpenFiles, Calls
  <2>4. Knows(t)' /\ UsesItsFile(t)'
    BY <1>0, <1>10, <2>2, ListedCalls DEF FtpEnum_Put, Knows, UsesItsFile, Points,
       WantCreateFile, OpenFiles
  <2> QED
    BY <2>1, <2>2, <2>3, <2>4, TypeInvOthers
<1>11. CASE FtpEnum_Received(t)
  <2>1. call' \in [Threads -> Calls] /\ \A u \in Threads \ {t} : call'[u] = call[u]
    BY <1>0, <1>11, ReceivedCalls DEF Tables
  <2>2. /\ file' \in [Threads -> OpenFiles \cup {None}]
        /\ \A u \in Threads \ {t} : file'[u] = file[u]
    BY <1>0, <1>11 DEF FtpEnum_Received, OpenFiles, Knows, UsesItsFile
  <2>3. Tables'
    BY <1>0, <1>11 DEF FtpEnum_Received, Tables, Knows, OpenFiles, Calls
  <2>4. Knows(t)' /\ UsesItsFile(t)'
    <3>1. file' = file
      BY <1>11 DEF FtpEnum_Received
    <3> QED
      BY <1>0, <1>11, <3>1, ReceivedCalls DEF Tables, Knows, UsesItsFile
  <2> QED
    BY <2>1, <2>2, <2>3, <2>4, TypeInvOthers
<1>12. CASE OpenFound(t)
  <2>1. call' \in [Threads -> Calls] /\ \A u \in Threads \ {t} : call'[u] = call[u]
    BY <1>0, <1>12, GotoCalls DEF OpenFound, Points
  <2>2. /\ file' \in [Threads -> OpenFiles \cup {None}]
        /\ \A u \in Threads \ {t} : file'[u] = file[u]
    BY <1>0, <1>12 DEF OpenFound, OpenFiles, Knows, UsesItsFile
  <2>3. Tables'
    BY <1>0, <1>12 DEF OpenFound, Tables, Knows, OpenFiles, Calls
  <2>4. Knows(t)' /\ UsesItsFile(t)'
    BY <1>0, <1>12, <2>2, GotoCalls DEF OpenFound, Knows, UsesItsFile, Points,
       WantCreateFile, OpenFiles
  <2> QED
    BY <2>1, <2>2, <2>3, <2>4, TypeInvOthers
<1>13. CASE OpenMissing(t)
  <2>1. call' \in [Threads -> Calls] /\ \A u \in Threads \ {t} : call'[u] = call[u]
    BY <1>0, <1>13, GotoCalls DEF OpenMissing, Points
  <2>2. /\ file' \in [Threads -> OpenFiles \cup {None}]
        /\ \A u \in Threads \ {t} : file'[u] = file[u]
    <3>1. Name(t) \in Names /\ file[t] = None
      BY <1>0, <1>13 DEF OpenMissing, Knows
    <3>2. [name |-> Name(t), changed |-> TRUE] \in OpenFiles
      BY <3>1 DEF OpenFiles
    <3> HIDE DEF Name
    <3> QED
      BY <1>0, <1>13, <3>2 DEF OpenMissing
  <2>3. Tables'
    BY <1>0, <1>13 DEF OpenMissing, Tables, Knows, OpenFiles, Calls
  <2>4. Knows(t)' /\ UsesItsFile(t)'
    <3>1. /\ call'[t].pc \in {"mark", "mkd", "add"} /\ call'[t].op = call[t].op
          /\ call'[t].name = call[t].name /\ call'[t].to = call[t].to
      BY <1>0, <1>13, GotoCalls DEF OpenMissing, Points
    <3>2. /\ call[t].pc = "missing" /\ Name(t) \in Names /\ call[t].op \in Dispositions
          /\ file[t] = None
      BY <1>0, <1>13 DEF OpenMissing, Knows
    <3>3. CASE call'[t].pc \in {"mark", "mkd"}
      <4>1. file' = file
        BY <1>0, <1>13, <3>3, GotoCalls DEF OpenMissing, Points
      <4> QED
        BY <3>1, <3>2, <3>3, <4>1 DEF Knows, UsesItsFile
    <3>4. CASE call'[t].pc = "add"
      <4>1. file'[t] = [name |-> Name(t), changed |-> TRUE]
        BY <1>0, <1>13, <3>4, GotoCalls DEF OpenMissing, Points
      <4>2. file'[t] \in OpenFiles
        BY <3>2, <4>1 DEF OpenFiles
      <4>3. file'[t] # None
        BY <4>2 DEF OpenFiles
      <4> QED
        BY <3>1, <3>2, <3>4, <4>1, <4>3 DEF Knows, UsesItsFile
    <3> QED
      BY <3>1, <3>3, <3>4
  <2> QED
    BY <2>1, <2>2, <2>3, <2>4, TypeInvOthers
<1>14. CASE MakeDirectory(t)
  <2>1. call' \in [Threads -> Calls] /\ \A u \in Threads \ {t} : call'[u] = call[u]
    BY <1>0, <1>14, GotoCalls DEF MakeDirectory, Points
  <2>2. /\ file' \in [Threads -> OpenFiles \cup {None}]
        /\ \A u \in Threads \ {t} : file'[u] = file[u]
    BY <1>0, <1>14 DEF MakeDirectory, OpenFiles, Knows, UsesItsFile
  <2>3. Tables'
    <3>1. Name(t) \in Names
      BY <1>0, <1>14 DEF MakeDirectory, Knows
    <3> HIDE DEF Name
    <3>2. server' \subseteq Names
      BY <1>0, <1>14, <3>1, CommandNames DEF MakeDirectory, TakenForDone, Make, Tables
    <3> QED
      BY <1>0, <1>14, <3>2 DEF MakeDirectory, TakenForDone, Tables
  <2>4. Knows(t)' /\ UsesItsFile(t)'
    BY <1>0, <1>14, <2>2, GotoCalls DEF MakeDirectory, Knows, UsesItsFile, Points,
       WantCreateFile, OpenFiles
  <2> QED
    BY <2>1, <2>2, <2>3, <2>4, TypeInvOthers
<1>15. CASE AddFileToDirCache(t)
  <2>1. call' \in [Threads -> Calls] /\ \A u \in Threads \ {t} : call'[u] = call[u]
    BY <1>0, <1>15, GotoCalls DEF AddFileToDirCache, Points
  <2>2. /\ file' \in [Threads -> OpenFiles \cup {None}]
        /\ \A u \in Threads \ {t} : file'[u] = file[u]
    BY <1>0, <1>15 DEF AddFileToDirCache, OpenFiles, Knows, UsesItsFile
  <2>3. Tables'
    BY <1>0, <1>15 DEF AddFileToDirCache, Tables, Knows, OpenFiles, Calls
  <2>4. Knows(t)' /\ UsesItsFile(t)'
    BY <1>0, <1>15, <2>2, GotoCalls DEF AddFileToDirCache, Knows, UsesItsFile, Points,
       WantCreateFile, OpenFiles
  <2> QED
    BY <2>1, <2>2, <2>3, <2>4, TypeInvOthers
<1>16. CASE Dele(t)
  <2>1. call' \in [Threads -> Calls] /\ \A u \in Threads \ {t} : call'[u] = call[u]
    BY <1>0, <1>16, GotoCalls DEF Dele, Points
  <2>2. /\ file' \in [Threads -> OpenFiles \cup {None}]
        /\ \A u \in Threads \ {t} : file'[u] = file[u]
    BY <1>0, <1>16 DEF Dele, OpenFiles, Knows, UsesItsFile
  <2>3. Tables'
    <3>1. Name(t) \in Names
      BY <1>0, <1>16 DEF Dele, UsesItsFile, OpenFiles
    <3> HIDE DEF Name
    <3>2. server' \subseteq Names
      BY <1>0, <1>16, <3>1, CommandNames DEF Dele, TakenForDone, Delete, Tables
    <3> QED
      BY <1>0, <1>16, <3>2 DEF Dele, TakenForDone, Tables
  <2>4. Knows(t)' /\ UsesItsFile(t)'
    BY <1>0, <1>16, <2>2, GotoCalls DEF Dele, Knows, UsesItsFile, Points,
       WantCreateFile, OpenFiles
  <2> QED
    BY <2>1, <2>2, <2>3, <2>4, TypeInvOthers
<1>17. CASE InaccessibleClean(t)
  <2>1. call' \in [Threads -> Calls] /\ \A u \in Threads \ {t} : call'[u] = call[u]
    BY <1>0, <1>17, GotoCalls DEF InaccessibleClean, Points
  <2>2. /\ file' \in [Threads -> OpenFiles \cup {None}]
        /\ \A u \in Threads \ {t} : file'[u] = file[u]
    BY <1>0, <1>17 DEF InaccessibleClean, OpenFiles, Knows, UsesItsFile
  <2>3. Tables'
    BY <1>0, <1>17 DEF InaccessibleClean, Tables, Knows, OpenFiles, Calls
  <2>4. Knows(t)' /\ UsesItsFile(t)'
    BY <1>0, <1>17, <2>2, GotoCalls DEF InaccessibleClean, Knows, UsesItsFile, Points,
       WantCreateFile, OpenFiles
  <2> QED
    BY <2>1, <2>2, <2>3, <2>4, TypeInvOthers
<1>18. CASE OpenFound_Conflict(t)
  <2>1. call' \in [Threads -> Calls] /\ \A u \in Threads \ {t} : call'[u] = call[u]
    BY <1>0, <1>18, ReturnCalls DEF OpenFound_Conflict, Points
  <2>2. /\ file' \in [Threads -> OpenFiles \cup {None}]
        /\ \A u \in Threads \ {t} : file'[u] = file[u]
    BY <1>0, <1>18 DEF OpenFound_Conflict, OpenFiles, Knows, UsesItsFile
  <2>3. Tables'
    BY <1>0, <1>18 DEF OpenFound_Conflict, Tables, Knows, OpenFiles, Calls
  <2>4. Knows(t)' /\ UsesItsFile(t)'
    BY <1>0, <1>18, <2>2, ReturnCalls DEF OpenFound_Conflict, Knows, UsesItsFile, Points,
       WantCreateFile, OpenFiles
  <2> QED
    BY <2>1, <2>2, <2>3, <2>4, TypeInvOthers
<1>19. CASE MakeDirectory_Refused(t)
  <2>1. call' \in [Threads -> Calls] /\ \A u \in Threads \ {t} : call'[u] = call[u]
    BY <1>0, <1>19, ReturnCalls DEF MakeDirectory_Refused, Points
  <2>2. /\ file' \in [Threads -> OpenFiles \cup {None}]
        /\ \A u \in Threads \ {t} : file'[u] = file[u]
    BY <1>0, <1>19 DEF MakeDirectory_Refused, OpenFiles, Knows, UsesItsFile
  <2>3. Tables'
    <3>1. Name(t) \in Names
      BY <1>0, <1>19 DEF MakeDirectory_Refused, Knows
    <3> HIDE DEF Name
    <3> QED
      BY <1>0, <1>19, <3>1, RefusedTables DEF MakeDirectory_Refused, Make
  <2>4. Knows(t)' /\ UsesItsFile(t)'
    BY <1>0, <1>19, <2>2, ReturnCalls DEF MakeDirectory_Refused, Knows, UsesItsFile,
       Points, WantCreateFile, OpenFiles
  <2> QED
    BY <2>1, <2>2, <2>3, <2>4, TypeInvOthers
<1>20. CASE Opened(t)
  <2>1. call' \in [Threads -> Calls] /\ \A u \in Threads \ {t} : call'[u] = call[u]
    BY <1>0, <1>20, ReturnCalls DEF Opened, Points
  <2>2. /\ file' \in [Threads -> OpenFiles \cup {None}]
        /\ \A u \in Threads \ {t} : file'[u] = file[u]
    BY <1>0, <1>20 DEF Opened, OpenFiles, Knows, UsesItsFile
  <2>3. Tables'
    BY <1>0, <1>20 DEF Opened, InaccessibleRemove, Tables, Knows, OpenFiles, Calls
  <2>4. Knows(t)' /\ UsesItsFile(t)'
    BY <1>0, <1>20, <2>2, ReturnCalls DEF Opened, Knows, UsesItsFile, Points,
       WantCreateFile, OpenFiles
  <2> QED
    BY <2>1, <2>2, <2>3, <2>4, TypeInvOthers
<1>21. CASE InaccessibleAdd(t)
  <2>1. call' \in [Threads -> Calls] /\ \A u \in Threads \ {t} : call'[u] = call[u]
    BY <1>0, <1>21, ReturnCalls DEF InaccessibleAdd, Points
  <2>2. /\ file' \in [Threads -> OpenFiles \cup {None}]
        /\ \A u \in Threads \ {t} : file'[u] = file[u]
    BY <1>0, <1>21 DEF InaccessibleAdd, OpenFiles, Knows, UsesItsFile
  <2>3. Tables'
    BY <1>0, <1>21 DEF InaccessibleAdd, Tables, Knows, OpenFiles, Calls
  <2>4. Knows(t)' /\ UsesItsFile(t)'
    BY <1>0, <1>21, <2>2, ReturnCalls DEF InaccessibleAdd, Knows, UsesItsFile, Points,
       WantCreateFile, OpenFiles
  <2> QED
    BY <2>1, <2>2, <2>3, <2>4, TypeInvOthers
<1>22. CASE Store(t)
  <2>1. call' \in [Threads -> Calls] /\ \A u \in Threads \ {t} : call'[u] = call[u]
    BY <1>0, <1>22, ReturnCalls DEF Store, Points
  <2>2. /\ file' \in [Threads -> OpenFiles \cup {None}]
        /\ \A u \in Threads \ {t} : file'[u] = file[u]
    BY <1>0, <1>22 DEF Store, OpenFiles, Knows, UsesItsFile
  <2>3. Tables'
    <3>1. Name(t) \in Names
      BY <1>0, <1>22 DEF Store, UsesItsFile, OpenFiles
    <3> HIDE DEF Name
    <3>2. server' \subseteq Names
      BY <1>0, <1>22, <3>1, CommandNames DEF Store, Make, Tables
    <3> QED
      BY <1>0, <1>22, <3>2 DEF Store, MarksStand, Tables
  <2>4. Knows(t)' /\ UsesItsFile(t)'
    BY <1>0, <1>22, <2>2, ReturnCalls DEF Store, Knows, UsesItsFile, Points,
       WantCreateFile, OpenFiles
  <2> QED
    BY <2>1, <2>2, <2>3, <2>4, TypeInvOthers
<1>23. CASE Store_Directory(t)
  <2>1. call' \in [Threads -> Calls] /\ \A u \in Threads \ {t} : call'[u] = call[u]
    BY <1>0, <1>23, ReturnCalls DEF Store_Directory, Points
  <2>2. /\ file' \in [Threads -> OpenFiles \cup {None}]
        /\ \A u \in Threads \ {t} : file'[u] = file[u]
    BY <1>0, <1>23 DEF Store_Directory, OpenFiles, Knows, UsesItsFile
  <2>3. Tables'
    BY <1>0, <1>23 DEF Store_Directory, Tables, Knows, OpenFiles, Calls
  <2>4. Knows(t)' /\ UsesItsFile(t)'
    BY <1>0, <1>23, <2>2, ReturnCalls DEF Store_Directory, Knows, UsesItsFile, Points,
       WantCreateFile, OpenFiles
  <2> QED
    BY <2>1, <2>2, <2>3, <2>4, TypeInvOthers
<1>24. CASE CloseOurFile(t)
  <2>1. call' \in [Threads -> Calls] /\ \A u \in Threads \ {t} : call'[u] = call[u]
    BY <1>0, <1>24, ReturnCalls DEF CloseOurFile, Points
  <2>2. /\ file' \in [Threads -> OpenFiles \cup {None}]
        /\ \A u \in Threads \ {t} : file'[u] = file[u]
    BY <1>0, <1>24 DEF CloseOurFile, OpenFiles, Knows, UsesItsFile
  <2>3. Tables'
    BY <1>0, <1>24 DEF CloseOurFile, Tables, Knows, OpenFiles, Calls
  <2>4. Knows(t)' /\ UsesItsFile(t)'
    BY <1>0, <1>24, <2>2, ReturnCalls DEF CloseOurFile, Knows, UsesItsFile, Points,
       WantCreateFile, OpenFiles
  <2> QED
    BY <2>1, <2>2, <2>3, <2>4, TypeInvOthers
<1>25. CASE Dele_Refused(t)
  <2>1. call' \in [Threads -> Calls] /\ \A u \in Threads \ {t} : call'[u] = call[u]
    BY <1>0, <1>25, GotoCalls, ReturnCalls DEF Dele_Refused, Deleted, Points
  <2>2. /\ file' \in [Threads -> OpenFiles \cup {None}]
        /\ \A u \in Threads \ {t} : file'[u] = file[u]
    BY <1>0, <1>25 DEF Dele_Refused, OpenFiles, Knows, UsesItsFile
  <2>3. Tables'
    <3>1. Name(t) \in Names
      BY <1>0, <1>25 DEF Dele_Refused, UsesItsFile, OpenFiles
    <3> HIDE DEF Name
    <3> QED
      BY <1>0, <1>25, <3>1, RefusedTables DEF Dele_Refused, Delete
  <2>4. Knows(t)' /\ UsesItsFile(t)'
    BY <1>0, <1>25, <2>2, GotoCalls, ReturnCalls DEF Dele_Refused, Deleted, Knows,
       UsesItsFile, Points, WantCreateFile, OpenFiles
  <2> QED
    BY <2>1, <2>2, <2>3, <2>4, TypeInvOthers
<1>26. CASE CleanFileFromDirCache(t)
  <2>1. call' \in [Threads -> Calls] /\ \A u \in Threads \ {t} : call'[u] = call[u]
    BY <1>0, <1>26, GotoCalls, ReturnCalls DEF CleanFileFromDirCache, Deleted, Points
  <2>2. /\ file' \in [Threads -> OpenFiles \cup {None}]
        /\ \A u \in Threads \ {t} : file'[u] = file[u]
    BY <1>0, <1>26 DEF CleanFileFromDirCache, OpenFiles, Knows, UsesItsFile
  <2>3. Tables'
    BY <1>0, <1>26 DEF CleanFileFromDirCache, Tables, Knows, OpenFiles, Calls
  <2>4. Knows(t)' /\ UsesItsFile(t)'
    BY <1>0, <1>26, <2>2, GotoCalls, ReturnCalls DEF CleanFileFromDirCache, Deleted,
       Knows, UsesItsFile, Points, WantCreateFile, OpenFiles
  <2> QED
    BY <2>1, <2>2, <2>3, <2>4, TypeInvOthers
<1>27. CASE FtpEnumRefreshFile(t)
  <2>1. call' \in [Threads -> Calls] /\ \A u \in Threads \ {t} : call'[u] = call[u]
    BY <1>0, <1>27, GotoCalls, ReturnCalls DEF FtpEnumRefreshFile, Points
  <2>2. /\ file' \in [Threads -> OpenFiles \cup {None}]
        /\ \A u \in Threads \ {t} : file'[u] = file[u]
    BY <1>0, <1>27 DEF FtpEnumRefreshFile, OpenFiles, Knows, UsesItsFile
  <2>3. Tables'
    <3>1. Name(t) \in Names /\ (Op(t) = "rename" => call[t].to \in Names)
      BY <1>0, <1>27 DEF FtpEnumRefreshFile, Knows, UsesItsFile, OpenFiles
    <3>2. /\ cache' = cache \/ cache' = None
          /\ server' = server /\ unsure' = unsure
          /\ inaccessible' = inaccessible
      BY <1>27 DEF FtpEnumRefreshFile
    <3>3. \/ excused' = {}
          \/ Op(t) = "rename" /\ excused' = excused \cup {Name(t), call[t].to}
          \/ excused' = excused \cup ({Name(t)} \ server)
      BY <1>27 DEF FtpEnumRefreshFile
    <3>4. excused' \subseteq Names
      BY <1>0, <3>1, <3>3 DEF Tables
    <3>5. cache' \in (SUBSET Names) \cup {None}
      BY <1>0, <3>2 DEF Tables
    <3> QED
      BY <1>0, <3>2, <3>4, <3>5 DEF Tables
  <2>4. Knows(t)' /\ UsesItsFile(t)'
    BY <1>0, <1>27, <2>2, GotoCalls, ReturnCalls DEF FtpEnumRefreshFile, Knows,
       UsesItsFile, Points, WantCreateFile, OpenFiles
  <2> QED
    BY <2>1, <2>2, <2>3, <2>4, TypeInvOthers
<1> QED
  BY <1>1, <1>2, <1>3, <1>4, <1>5, <1>6, <1>7, <1>8, <1>9, <1>10, <1>11, <1>12, <1>13,
     <1>14, <1>15, <1>16, <1>17, <1>18, <1>19, <1>20, <1>21, <1>22, <1>23, <1>24, <1>25,
     <1>26, <1>27 DEF Begin, Step

-----------------------------------------------------------------------------
\* Why a name may be listed wrongly because of thread t.
Refreshes(t, n) == call[t].pc \in {"clean", "refresh"} /\ n \in Changes(t)
Closes(t, n) ==
    file[t] # None /\ file[t].name = n /\ file[t].changed /\ call[t].pc # "close"
\* Why a mark may be wrong because of thread t.
Unmarks(t, n) ==
    call[t].pc \in {"add", "remove", "clean"} /\ n \in Changes(t)

\* A step of t leaves each name listed rightly or, if it was already right, as
\* it was; t answers for the names it still has to bring to the listing.
ListingStays(t) ==
    cache' # None => \A n \in Names \ excused' :
        ~Refreshes(t, n)' /\ ~Closes(t, n)' =>
           \/ n \in cache' <=> n \in server'
           \/ /\ cache # None /\ n \notin excused /\ ~Refreshes(t, n) /\ ~Closes(t, n)
              /\ (n \in cache' <=> n \in cache) /\ (n \in server' <=> n \in server)

\* The same for the marks.
MarksStay(t) ==
    \A n \in Names \ unsure' :
        ~Unmarks(t, n)' /\ inaccessible'[n] = "marked" =>
           \/ n \notin server'
           \/ /\ n \notin unsure /\ ~Unmarks(t, n)
              /\ inaccessible[n] = "marked" /\ n \in server

\* Such a step keeps the listing right if the other threads are not concerned.
LEMMA ListingOthers ==
    ASSUME ListingInv, NEW t \in Threads,
           \A u \in Threads \ {t} : call'[u] = call[u] /\ file'[u] = file[u],
           ListingStays(t)
    PROVE  ListingInv'
<1> SUFFICES ASSUME cache' # None, NEW n \in Names \ excused', ~ToRefresh(n)', ~ToClose(n)'
             PROVE  n \in cache' <=> n \in server'
  BY DEF ListingInv
<1>1. ~Refreshes(t, n)' /\ ~Closes(t, n)'
  BY DEF ToRefresh, ToClose, Refreshes, Closes, Changes
<1>2. \A u \in Threads \ {t} : ~Refreshes(u, n) /\ ~Closes(u, n)
  BY DEF ToRefresh, ToClose, Refreshes, Closes, Changes
<1>3. CASE n \in cache' <=> n \in server'
  BY <1>3
<1>4. CASE /\ cache # None /\ n \notin excused /\ ~Refreshes(t, n) /\ ~Closes(t, n)
           /\ (n \in cache' <=> n \in cache) /\ (n \in server' <=> n \in server)
  <2>1. ~ToRefresh(n) /\ ~ToClose(n)
    BY <1>2, <1>4 DEF ToRefresh, ToClose, Refreshes, Closes, Changes
  <2> QED
    BY <1>4, <2>1 DEF ListingInv
<1> QED
  BY <1>1, <1>3, <1>4 DEF ListingStays

\* Such a step keeps the marks right.
LEMMA MarkOthers ==
    ASSUME MarkInv, NEW t \in Threads,
           \A u \in Threads \ {t} : call'[u] = call[u],
           MarksStay(t)
    PROVE  MarkInv'
<1> SUFFICES ASSUME NEW n \in Names \ unsure', ~ToUnmark(n)', inaccessible'[n] = "marked",
                    n \in server'
             PROVE  FALSE
  BY DEF MarkInv
<1>1. ~Unmarks(t, n)'
  BY DEF ToUnmark, Unmarks, Changes
<1>2. n \notin unsure /\ ~Unmarks(t, n) /\ inaccessible[n] = "marked" /\ n \in server
  BY <1>1 DEF MarksStay
<1>3. ~ToUnmark(n)
  BY <1>2 DEF ToUnmark, Unmarks, Changes
<1> QED
  BY <1>2, <1>3 DEF MarkInv

\* The steps of a request keep the two tables right.
LEMMA TablesStep ==
    ASSUME TypeInv, ListingInv, MarkInv, NEW t \in Threads, Begin(t) \/ Step(t)
    PROVE  ListingInv' /\ MarkInv'
<1> USE NoneAssumption, DispositionsAssumption DEF OnFile, Idle, At, Op, Name, Changes
<1>0. /\ Tables
      /\ file \in [Threads -> OpenFiles \cup {None}]
      /\ call \in [Threads -> Calls]
      /\ Knows(t) /\ UsesItsFile(t)
  BY TypeInvParts
<1>1. CASE \E n \in Names, d \in Dispositions, dir \in BOOLEAN : OpenFile(t, n, d, dir)
  <2>1. \A u \in Threads \ {t} : call'[u] = call[u] /\ file'[u] = file[u]
    <3>1. PICK n \in Names, d \in Dispositions, dir \in BOOLEAN : OpenFile(t, n, d, dir)
      BY <1>1
    <3> QED
      BY <1>0, <3>1, OpenCalls DEF OpenFile
  <2>2. ListingStays(t)
    BY <1>0, <1>1, OpenCalls DEF ListingStays, OpenFile, InaccessibleRemove, Knows,
       UsesItsFile, Refreshes, Closes, Points, Tables
  <2>3. MarksStay(t)
    <3>1. PICK n \in Names, d \in Dispositions, dir \in BOOLEAN : OpenFile(t, n, d, dir)
      BY <1>1
    <3>2. /\ call[t].pc = "idle" /\ server' = server
          /\ \/ inaccessible' = inaccessible /\ unsure' = unsure
             \/ InaccessibleRemove(n)
      BY <1>0, <3>1, OpenCalls DEF OpenFile
    <3> QED
      BY <1>0, <3>2 DEF MarksStay, InaccessibleRemove, Unmarks, Tables
  <2> QED
    BY <2>1, <2>2, <2>3, ListingOthers, MarkOthers
<1>2. CASE \E n \in Names : RenameFile(t, n)
  <2>1. \A u \in Threads \ {t} : call'[u] = call[u] /\ file'[u] = file[u]
    <3>1. PICK n \in Names : RenameFile(t, n)
      BY <1>2
    <3> QED
      BY <1>0, <3>1, RenameCalls DEF RenameFile
  <2>2. ListingStays(t)
    <3>1. PICK n \in Names : RenameFile(t, n)
      BY <1>2
    <3>2. /\ call[t].pc = "idle" /\ call'[t].pc = "clean" /\ call'[t].op = "rename"
          /\ call'[t].name = file[t].name /\ call'[t].to = n
          /\ file' = file /\ cache' = cache /\ excused' = excused
          /\ file[t].name \in Names
      BY <1>0, <3>1, RenameCalls DEF RenameFile, TakenForDone
    <3>3. \A m \in Names \ {file[t].name, n} : m \in server' <=> m \in server
      BY <1>0, <3>1, <3>2, CommandNames DEF RenameFile, TakenForDone, Tables
    <3> QED
      BY <3>2, <3>3 DEF ListingStays, Refreshes, Closes
  <2>3. MarksStay(t)
    <3>1. PICK n \in Names : RenameFile(t, n)
      BY <1>2
    <3>2. /\ call[t].pc = "idle" /\ call'[t].pc = "clean" /\ call'[t].op = "rename"
          /\ call'[t].name = file[t].name /\ call'[t].to = n
          /\ inaccessible' = inaccessible /\ unsure' = unsure
          /\ file[t].name \in Names
      BY <1>0, <3>1, RenameCalls DEF RenameFile, TakenForDone
    <3>3. \A m \in Names \ {file[t].name, n} : m \in server' <=> m \in server
      BY <1>0, <3>1, <3>2, CommandNames DEF RenameFile, TakenForDone, Tables
    <3> QED
      BY <3>2, <3>3 DEF MarksStay, Unmarks
  <2> QED
    BY <2>1, <2>2, <2>3, ListingOthers, MarkOthers
<1>3. CASE \E n \in Names : RenameRefused(t, n)
  <2>1. \A u \in Threads \ {t} : call'[u] = call[u] /\ file'[u] = file[u]
    BY <1>0, <1>3, Zenon DEF RenameRefused, Points, Tables
  <2>2. PICK n \in Names : RenameRefused(t, n)
    BY <1>3
  <2>3. /\ file[t].name \in Names /\ Refused(Command(file[t].name, n))
        /\ cache' = cache /\ inaccessible' = inaccessible
        /\ call' = call /\ file' = file
    BY <1>0, <2>2 DEF RenameRefused, OpenFiles
  <2>4. ListingStays(t)
    BY <1>0, <2>3, RefusedTables DEF ListingStays, Refreshes, Closes
  <2>5. MarksStay(t)
    BY <1>0, <2>3, RefusedTables DEF MarksStay, Unmarks
  <2> QED
    BY <2>1, <2>4, <2>5, ListingOthers, MarkOthers
<1>4. CASE \E offset \in {0, 1} : WriteFile(t, offset)
  <2>1. \A u \in Threads \ {t} : call'[u] = call[u] /\ file'[u] = file[u]
    BY <1>0, <1>4, StartCalls DEF WriteFile, Points, Tables
  <2>2. ListingStays(t)
    BY <1>0, <1>4, StartCalls DEF ListingStays, WriteFile, Knows, UsesItsFile, Refreshes,
       Closes, Points, Tables
  <2>3. MarksStay(t)
    BY <1>0, <1>4, StartCalls DEF MarksStay, WriteFile, Knows, UsesItsFile, Unmarks,
       Points, Tables
  <2> QED
    BY <2>1, <2>2, <2>3, ListingOthers, MarkOthers
<1>5. CASE DeleteFile(t)
  <2>1. \A u \in Threads \ {t} : call'[u] = call[u] /\ file'[u] = file[u]
    BY <1>0, <1>5, StartCalls DEF DeleteFile, Points, Tables
  <2>2. ListingStays(t)
    BY <1>0, <1>5, StartCalls DEF ListingStays, DeleteFile, Knows, UsesItsFile,
       Refreshes, Closes, Points, Tables
  <2>3. MarksStay(t)
    BY <1>0, <1>5, StartCalls DEF MarksStay, DeleteFile, Knows, UsesItsFile, Unmarks,
       Points, Tables
  <2> QED
    BY <2>1, <2>2, <2>3, ListingOthers, MarkOthers
<1>6. CASE CloseHandle(t)
  <2>1. \A u \in Threads \ {t} : call'[u] = call[u] /\ file'[u] = file[u]
    BY <1>0, <1>6, StartCalls DEF CloseHandle, Points, Tables
  <2>2. ListingStays(t)
    BY <1>0, <1>6, StartCalls DEF ListingStays, CloseHandle, Knows, UsesItsFile,
       Refreshes, Closes, Points, Tables
  <2>3. MarksStay(t)
    BY <1>0, <1>6, StartCalls DEF MarksStay, CloseHandle, Knows, UsesItsFile, Unmarks,
       Points, Tables
  <2> QED
    BY <2>1, <2>2, <2>3, ListingOthers, MarkOthers
<1>7. CASE ListDirectory(t)
  <2>1. \A u \in Threads \ {t} : call'[u] = call[u] /\ file'[u] = file[u]
    BY <1>0, <1>7, ListCalls DEF ListDirectory, Points, Tables
  <2>2. ListingStays(t)
    BY <1>0, <1>7, ListCalls DEF ListingStays, ListDirectory, Knows, UsesItsFile,
       Refreshes, Closes, Points, Tables
  <2>3. MarksStay(t)
    BY <1>0, <1>7, ListCalls DEF MarksStay, ListDirectory, Knows, UsesItsFile, Unmarks,
       Points, Tables
  <2> QED
    BY <2>1, <2>2, <2>3, ListingOthers, MarkOthers
<1>8. CASE FtpEnum_Cached(t)
  <2>1. \A u \in Threads \ {t} : call'[u] = call[u] /\ file'[u] = file[u]
    BY <1>0, <1>8, ListedCalls DEF FtpEnum_Cached, Points, Tables
  <2>2. ListingStays(t)
    BY <1>0, <1>8, ListedCalls DEF ListingStays, FtpEnum_Cached, Knows, UsesItsFile,
       Refreshes, Closes, Points, Tables
  <2>3. MarksStay(t)
    BY <1>0, <1>8, ListedCalls DEF MarksStay, FtpEnum_Cached, Knows, UsesItsFile,
       Unmarks, Points, Tables
  <2> QED
    BY <2>1, <2>2, <2>3, ListingOthers, MarkOthers
<1>9. CASE FtpEnum_Failed(t)
  <2>1. \A u \in Threads \ {t} : call'[u] = call[u] /\ file'[u] = file[u]
    BY <1>0, <1>9, ListedCalls DEF FtpEnum_Failed, Points, Tables
  <2>2. ListingStays(t)
    BY <1>0, <1>9, ListedCalls DEF ListingStays, FtpEnum_Failed, Knows, UsesItsFile,
       Refreshes, Closes, Points, Tables
  <2>3. MarksStay(t)
    BY <1>0, <1>9, ListedCalls DEF MarksStay, FtpEnum_Failed, Knows, UsesItsFile,
       Unmarks, Points, Tables
  <2> QED
    BY <2>1, <2>2, <2>3, ListingOthers, MarkOthers
<1>10. CASE FtpEnum_Put(t)
  <2>1. \A u \in Threads \ {t} : call'[u] = call[u] /\ file'[u] = file[u]
    BY <1>0, <1>10, ListedCalls DEF FtpEnum_Put, Points, Tables
  <2>2. ListingStays(t)
    BY <1>0, <1>10, ListedCalls DEF ListingStays, FtpEnum_Put, Knows, UsesItsFile,
       Refreshes, Closes, Points, Tables
  <2>3. MarksStay(t)
    BY <1>0, <1>10, ListedCalls DEF MarksStay, FtpEnum_Put, Knows, UsesItsFile, Unmarks,
       Points, Tables
  <2> QED
    BY <2>1, <2>2, <2>3, ListingOthers, MarkOthers
<1>11. CASE FtpEnum_Received(t)
  <2>1. \A u \in Threads \ {t} : call'[u] = call[u] /\ file'[u] = file[u]
    BY <1>0, <1>11, ReceivedCalls DEF FtpEnum_Received, Points, Tables
  <2>2. ListingStays(t)
    BY <1>0, <1>11, ReceivedCalls DEF ListingStays, FtpEnum_Received, Knows, UsesItsFile,
       Refreshes, Closes, Points, Tables
  <2>3. MarksStay(t)
    BY <1>0, <1>11, ReceivedCalls DEF MarksStay, FtpEnum_Received, Knows, UsesItsFile,
       Unmarks, Points, Tables
  <2> QED
    BY <2>1, <2>2, <2>3, ListingOthers, MarkOthers
<1>12. CASE OpenFound(t)
  <2>1. \A u \in Threads \ {t} : call'[u] = call[u] /\ file'[u] = file[u]
    BY <1>0, <1>12, GotoCalls DEF OpenFound, Points, Tables
  <2>2. ListingStays(t)
    BY <1>0, <1>12, GotoCalls DEF ListingStays, OpenFound, Knows, UsesItsFile, Refreshes,
       Closes, Points, Tables
  <2>3. MarksStay(t)
    BY <1>0, <1>12, GotoCalls DEF MarksStay, OpenFound, Knows, UsesItsFile, Unmarks,
       Points, Tables
  <2> QED
    BY <2>1, <2>2, <2>3, ListingOthers, MarkOthers
<1>13. CASE OpenMissing(t)
  <2>1. \A u \in Threads \ {t} : call'[u] = call[u] /\ file'[u] = file[u]
    BY <1>0, <1>13, GotoCalls DEF OpenMissing, Points, Tables
  <2>2. ListingStays(t)
    BY <1>0, <1>13, GotoCalls DEF ListingStays, OpenMissing, Knows, UsesItsFile,
       Refreshes, Closes, Points, Tables
  <2>3. MarksStay(t)
    BY <1>0, <1>13, GotoCalls DEF MarksStay, OpenMissing, Knows, UsesItsFile, Unmarks,
       Points, Tables
  <2> QED
    BY <2>1, <2>2, <2>3, ListingOthers, MarkOthers
<1>14. CASE MakeDirectory(t)
  <2>1. \A u \in Threads \ {t} : call'[u] = call[u] /\ file'[u] = file[u]
    BY <1>0, <1>14, GotoCalls DEF MakeDirectory, Points, Tables
  <2>2. ListingStays(t)
    <3>1. /\ call[t].pc = "mkd" /\ call'[t].pc = "add" /\ Name(t) \in Names /\ file[t] = None
          /\ file'[t] = [name |-> Name(t), changed |-> TRUE]
          /\ cache' = cache /\ excused' = excused
      BY <1>0, <1>14, GotoCalls DEF MakeDirectory, TakenForDone, Knows, Points
    <3>2. file'[t] \in OpenFiles
      BY <3>1 DEF OpenFiles
    <3>3. file'[t] # None
      BY <3>2 DEF OpenFiles
    <3>4. \A n \in Names \ {Name(t)} : n \in server' <=> n \in server
      BY <1>0, <1>14, <3>1, CommandNames DEF MakeDirectory, TakenForDone, Make, Tables
    <3> HIDE DEF Name
    <3> QED
      BY <3>1, <3>3, <3>4 DEF ListingStays, Refreshes, Closes
  <2>3. MarksStay(t)
    <3>1. /\ call'[t].pc = "add" /\ call'[t].name = Name(t) /\ Name(t) \in Names
          /\ call[t].pc = "mkd" /\ inaccessible' = inaccessible /\ unsure' = unsure
      BY <1>0, <1>14, GotoCalls DEF MakeDirectory, TakenForDone, Knows, Points
    <3>2. \A n \in Names \ {Name(t)} : n \in server' <=> n \in server
      BY <1>0, <1>14, <3>1, CommandNames DEF MakeDirectory, TakenForDone, Make, Tables
    <3> HIDE DEF Name
    <3> QED
      BY <3>1, <3>2 DEF MarksStay, Unmarks
  <2> QED
    BY <2>1, <2>2, <2>3, ListingOthers, MarkOthers
<1>15. CASE AddFileToDirCache(t)
  <2>1. \A u \in Threads \ {t} : call'[u] = call[u] /\ file'[u] = file[u]
    BY <1>0, <1>15, GotoCalls DEF AddFileToDirCache, Points, Tables
  <2>2. ListingStays(t)
    BY <1>0, <1>15, GotoCalls DEF ListingStays, AddFileToDirCache, Knows, UsesItsFile,
       Refreshes, Closes, Points, Tables
  <2>3. MarksStay(t)
    BY <1>0, <1>15, GotoCalls DEF MarksStay, AddFileToDirCache, Knows, UsesItsFile,
       Unmarks, Points, Tables
  <2> QED
    BY <2>1, <2>2, <2>3, ListingOthers, MarkOthers
<1>16. CASE Dele(t)
  <2>1. \A u \in Threads \ {t} : call'[u] = call[u] /\ file'[u] = file[u]
    BY <1>0, <1>16, GotoCalls DEF Dele, Points, Tables
  <2>2. /\ call[t].pc = "delete" /\ call'[t].pc = "clean" /\ call'[t].name = Name(t)
        /\ Name(t) \in Names /\ cache' = cache /\ excused' = excused /\ file' = file
        /\ inaccessible' = inaccessible /\ unsure' = unsure
    BY <1>0, <1>16, GotoCalls DEF Dele, TakenForDone, UsesItsFile, OpenFiles, Points
  <2>3. \A n \in Names \ {Name(t)} : n \in server' <=> n \in server
    BY <1>0, <1>16, <2>2, CommandNames DEF Dele, TakenForDone, Delete, Tables
  <2> HIDE DEF Name
  <2>4. ListingStays(t)
    BY <2>2, <2>3 DEF ListingStays, Refreshes, Closes
  <2>5. MarksStay(t)
    BY <2>2, <2>3 DEF MarksStay, Unmarks
  <2> QED
    BY <2>1, <2>4, <2>5, ListingOthers, MarkOthers
<1>17. CASE InaccessibleClean(t)
  <2>1. \A u \in Threads \ {t} : call'[u] = call[u] /\ file'[u] = file[u]
    BY <1>0, <1>17, GotoCalls DEF InaccessibleClean, Points, Tables
  <2>2. ListingStays(t)
    BY <1>0, <1>17, GotoCalls DEF ListingStays, InaccessibleClean, Knows, UsesItsFile,
       Refreshes, Closes, Points, Tables
  <2>3. MarksStay(t)
    BY <1>0, <1>17, GotoCalls DEF MarksStay, InaccessibleClean, Knows, UsesItsFile,
       Unmarks, Points, Tables
  <2> QED
    BY <2>1, <2>2, <2>3, ListingOthers, MarkOthers
<1>18. CASE OpenFound_Conflict(t)
  <2>1. \A u \in Threads \ {t} : call'[u] = call[u] /\ file'[u] = file[u]
    BY <1>0, <1>18, ReturnCalls DEF OpenFound_Conflict, Points, Tables
  <2>2. ListingStays(t)
    BY <1>0, <1>18, ReturnCalls DEF ListingStays, OpenFound_Conflict, Knows, UsesItsFile,
       Refreshes, Closes, Points, Tables
  <2>3. MarksStay(t)
    BY <1>0, <1>18, ReturnCalls DEF MarksStay, OpenFound_Conflict, Knows, UsesItsFile,
       Unmarks, Points, Tables
  <2> QED
    BY <2>1, <2>2, <2>3, ListingOthers, MarkOthers
<1>19. CASE MakeDirectory_Refused(t)
  <2>1. \A u \in Threads \ {t} : call'[u] = call[u] /\ file'[u] = file[u]
    BY <1>0, <1>19, ReturnCalls DEF MakeDirectory_Refused, Points, Tables
  <2>2. /\ Name(t) \in Names /\ Refused(Command(None, Name(t)))
        /\ cache' = cache /\ inaccessible' = inaccessible
        /\ call[t].pc = "mkd" /\ call'[t].pc = "idle" /\ file' = file
    BY <1>0, <1>19, ReturnCalls DEF MakeDirectory_Refused, Make, Knows
  <2> HIDE DEF Name
  <2>3. ListingStays(t)
    BY <1>0, <2>2, RefusedTables DEF ListingStays, Refreshes, Closes
  <2>4. MarksStay(t)
    BY <1>0, <2>2, RefusedTables DEF MarksStay, Unmarks
  <2> QED
    BY <2>1, <2>3, <2>4, ListingOthers, MarkOthers
<1>20. CASE Opened(t)
  <2>1. \A u \in Threads \ {t} : call'[u] = call[u] /\ file'[u] = file[u]
    BY <1>0, <1>20, ReturnCalls DEF Opened, Points, Tables
  <2>2. ListingStays(t)
    BY <1>0, <1>20, ReturnCalls DEF ListingStays, Opened, InaccessibleRemove, Knows,
       UsesItsFile, Refreshes, Closes, Points, Tables
  <2>3. MarksStay(t)
    <3>1. /\ inaccessible'[Name(t)] = "locked"
          /\ \A n \in Names \ {Name(t)} : inaccessible'[n] = inaccessible[n]
          /\ unsure' = unsure \ {Name(t)} /\ server' = server
          /\ call[t].pc = "remove" /\ call[t].op # "rename"
      BY <1>0, <1>20 DEF Opened, InaccessibleRemove, Knows, Tables
    <3> QED
      BY <3>1 DEF MarksStay, Unmarks
  <2> QED
    BY <2>1, <2>2, <2>3, ListingOthers, MarkOthers
<1>21. CASE InaccessibleAdd(t)
  <2>1. \A u \in Threads \ {t} : call'[u] = call[u] /\ file'[u] = file[u]
    BY <1>0, <1>21, ReturnCalls DEF InaccessibleAdd, Points, Tables
  <2>2. ListingStays(t)
    BY <1>0, <1>21, ReturnCalls DEF ListingStays, InaccessibleAdd, Knows, UsesItsFile,
       Refreshes, Closes, Points, Tables
  <2>3. MarksStay(t)
    BY <1>0, <1>21, ReturnCalls DEF MarksStay, InaccessibleAdd, Knows, UsesItsFile,
       Unmarks, Points, Tables
  <2> QED
    BY <2>1, <2>2, <2>3, ListingOthers, MarkOthers
<1>22. CASE Store(t)
  <2>1. \A u \in Threads \ {t} : call'[u] = call[u] /\ file'[u] = file[u]
    BY <1>0, <1>22, ReturnCalls DEF Store, Points, Tables
  <2>2. /\ call[t].pc = "stor" /\ call'[t].pc = "idle" /\ Name(t) \in Names
        /\ file[t] \in OpenFiles /\ file[t].name = Name(t)
        /\ file' = [file EXCEPT ![t].changed = TRUE]
        /\ cache' = cache /\ excused' = excused /\ inaccessible' = inaccessible
        /\ MarksStand
    BY <1>0, <1>22, ReturnCalls DEF Store, UsesItsFile, OpenFiles
  <2>3. \A n \in Names \ {Name(t)} : n \in server' <=> n \in server
    BY <1>0, <1>22, <2>2, CommandNames DEF Store, Make, Tables
  <2> HIDE DEF Name
  <2>4. ListingStays(t)
    <3>1. /\ file'[t] \in OpenFiles /\ file'[t].name = Name(t) /\ file'[t].changed
      BY <1>0, <2>2 DEF OpenFiles
    <3>2. file'[t] # None
      BY <3>1 DEF OpenFiles
    <3> QED
      BY <2>2, <2>3, <3>1, <3>2 DEF ListingStays, Refreshes, Closes
  <2>5. MarksStay(t)
    BY <2>2 DEF MarksStay, MarksStand, Unmarks
  <2> QED
    BY <2>1, <2>4, <2>5, ListingOthers, MarkOthers
<1>23. CASE Store_Directory(t)
  <2>1. \A u \in Threads \ {t} : call'[u] = call[u] /\ file'[u] = file[u]
    BY <1>0, <1>23, ReturnCalls DEF Store_Directory, Points, Tables
  <2>2. ListingStays(t)
    BY <1>0, <1>23, ReturnCalls DEF ListingStays, Store_Directory, Knows, UsesItsFile,
       Refreshes, Closes, Points, Tables
  <2>3. MarksStay(t)
    BY <1>0, <1>23, ReturnCalls DEF MarksStay, Store_Directory, Knows, UsesItsFile,
       Unmarks, Points, Tables
  <2> QED
    BY <2>1, <2>2, <2>3, ListingOthers, MarkOthers
<1>24. CASE CloseOurFile(t)
  <2>1. \A u \in Threads \ {t} : call'[u] = call[u] /\ file'[u] = file[u]
    BY <1>0, <1>24, ReturnCalls DEF CloseOurFile, Points, Tables
  <2>2. ListingStays(t)
    BY <1>0, <1>24, ReturnCalls DEF ListingStays, CloseOurFile, Knows, UsesItsFile,
       Refreshes, Closes, Points, Tables
  <2>3. MarksStay(t)
    BY <1>0, <1>24, ReturnCalls DEF MarksStay, CloseOurFile, Knows, UsesItsFile, Unmarks,
       Points, Tables
  <2> QED
    BY <2>1, <2>2, <2>3, ListingOthers, MarkOthers
<1>25. CASE Dele_Refused(t)
  <2>1. \A u \in Threads \ {t} : call'[u] = call[u] /\ file'[u] = file[u]
    BY <1>0, <1>25, GotoCalls, ReturnCalls DEF Dele_Refused, Deleted, Points, Tables
  <2>2. /\ Name(t) \in Names /\ Refused(Command(Name(t), None))
        /\ cache' = cache /\ inaccessible' = inaccessible
        /\ call[t].pc = "delete" /\ call'[t].pc \in {"stor", "idle"} /\ file' = file
    BY <1>0, <1>25, GotoCalls, ReturnCalls
       DEF Dele_Refused, Deleted, Delete, UsesItsFile, OpenFiles, Points
  <2> HIDE DEF Name
  <2>3. ListingStays(t)
    BY <1>0, <2>2, RefusedTables DEF ListingStays, Refreshes, Closes
  <2>4. MarksStay(t)
    BY <1>0, <2>2, RefusedTables DEF MarksStay, Unmarks
  <2> QED
    BY <2>1, <2>3, <2>4, ListingOthers, MarkOthers
<1>26. CASE CleanFileFromDirCache(t)
  <2>1. \A u \in Threads \ {t} : call'[u] = call[u] /\ file'[u] = file[u]
    BY <1>0, <1>26, GotoCalls, ReturnCalls DEF CleanFileFromDirCache, Deleted, Points, Tables
  <2>2. ListingStays(t)
    <3>1. /\ call[t].pc = "refresh" /\ call[t].op \in {"write", "delete"}
          /\ call[t].name \in Names /\ file[t] # None /\ file[t].name = call[t].name
          /\ file' = file /\ server' = server
          /\ IF cache = None THEN cache' = cache /\ excused' = excused
             ELSE cache' = cache \ {Name(t)} /\ excused' = excused \cup ({Name(t)} \cap server)
      BY <1>0, <1>26 DEF CleanFileFromDirCache, UsesItsFile, OpenFiles
    <3>2. call'[t].pc \in {"stor", "idle"}
      BY <1>0, <1>26, GotoCalls, ReturnCalls DEF CleanFileFromDirCache, Deleted, Points
    <3> QED
      BY <3>1, <3>2 DEF ListingStays, Refreshes, Closes
  <2>3. MarksStay(t)
    BY <1>0, <1>26, GotoCalls, ReturnCalls DEF MarksStay, CleanFileFromDirCache, Deleted,
       Knows, UsesItsFile, Unmarks, Points, Tables
  <2> QED
    BY <2>1, <2>2, <2>3, ListingOthers, MarkOthers
<1>27. CASE FtpEnumRefreshFile(t)
  <2>1. \A u \in Threads \ {t} : call'[u] = call[u] /\ file'[u] = file[u]
    BY <1>0, <1>27, GotoCalls, ReturnCalls DEF FtpEnumRefreshFile, Points, Tables
  <2>2. ListingStays(t)
    <3>1. /\ call[t].pc = "refresh" /\ call[t].op \in {"rename", "close"}
          /\ call[t].name \in Names /\ file[t] # None /\ file[t].name = call[t].name
          /\ file' = file /\ server' = server
      BY <1>0, <1>27 DEF FtpEnumRefreshFile, UsesItsFile, OpenFiles
    <3>2. SUFFICES ASSUME cache' # None, NEW n \in Names \ excused',
                          ~Refreshes(t, n)', ~Closes(t, n)'
                   PROVE  \/ n \in cache' <=> n \in server'
                          \/ /\ cache # None /\ n \notin excused
                             /\ ~Refreshes(t, n) /\ ~Closes(t, n)
                             /\ (n \in cache' <=> n \in cache)
                             /\ (n \in server' <=> n \in server)
      BY DEF ListingStays
    <3>3. /\ file[t].changed /\ cache # None /\ Name(t) \in cache /\ cache' = cache
          /\ excused' = excused \cup (IF Op(t) = "rename" THEN {Name(t), call[t].to}
                                      ELSE {Name(t)} \ server)
      BY <1>27, <3>2 DEF FtpEnumRefreshFile
    <3>4. CASE call[t].op = "rename"
      BY <3>1, <3>2, <3>3, <3>4 DEF Refreshes, Closes
    <3>5. CASE call[t].op = "close"
      <4>1. call'[t].pc = "close"
        BY <1>0, <1>27, <3>5, GotoCalls DEF FtpEnumRefreshFile, Points
      <4> QED
        BY <3>1, <3>2, <3>3, <3>5, <4>1 DEF Refreshes, Closes
    <3> QED
      BY <3>1, <3>4, <3>5
  <2>3. MarksStay(t)
    BY <1>0, <1>27, GotoCalls, ReturnCalls DEF MarksStay, FtpEnumRefreshFile, Knows,
       UsesItsFile, Unmarks, Points, Tables
  <2> QED
    BY <2>1, <2>2, <2>3, ListingOthers, MarkOthers
<1> QED
  BY <1>1, <1>2, <1>3, <1>4, <1>5, <1>6, <1>7, <1>8, <1>9, <1>10, <1>11, <1>12, <1>13,
     <1>14, <1>15, <1>16, <1>17, <1>18, <1>19, <1>20, <1>21, <1>22, <1>23, <1>24, <1>25,
     <1>26, <1>27 DEF Begin, Step

-----------------------------------------------------------------------------
IInv == TypeInv /\ ListingInv /\ MarkInv

\* At the start nothing is cached, nothing is marked and no request is under way.
LEMMA InitIInv == Init => IInv
<1> SUFFICES ASSUME Init
             PROVE  IInv
  OBVIOUS
<1>1. \A t \in Threads : call[t] = Idle /\ call[t].pc = "idle" /\ file[t] = None
  BY DEF Init, Idle
<1>2. Idle \in Calls
  BY DEF Idle, Calls, Points
<1>3. Tables /\ file \in [Threads -> OpenFiles \cup {None}] /\ call \in [Threads -> Calls]
  BY <1>2 DEF Init, Tables
<1>4. \A t \in Threads : Knows(t) /\ UsesItsFile(t)
  BY <1>1 DEF Knows, UsesItsFile, OnFile, Idle
<1> QED
  BY <1>3, <1>4, TypeInvParts DEF IInv, ListingInv, MarkInv, Init

\* The clock and the user only take entries away, or lock them.
LEMMA ExpiryStep ==
    ASSUME IInv,
           \/ CleanEnumCache
           \/ \E n \in Names : MarkExpires(n) \/ InaccessibleLockedEnds(n)
    PROVE  IInv'
<1> USE DEF IInv
<1>0. /\ Tables
      /\ file \in [Threads -> OpenFiles \cup {None}]
      /\ call \in [Threads -> Calls]
      /\ \A t \in Threads : Knows(t) /\ UsesItsFile(t)
  BY TypeInvParts
<1>1. CASE CleanEnumCache
  <2>1. Tables' /\ call' = call /\ file' = file
    BY <1>0, <1>1 DEF CleanEnumCache, Tables
  <2>2. TypeInv'
    BY <1>0, <2>1 DEF TypeInv, DirTypeOK, Tables, Knows, UsesItsFile
  <2> QED
    BY <1>1, <2>2 DEF CleanEnumCache, ListingInv, MarkInv, ToUnmark, Changes
<1>2. CASE \E n \in Names : MarkExpires(n) \/ InaccessibleLockedEnds(n)
  <2>1. PICK n \in Names : MarkExpires(n) \/ InaccessibleLockedEnds(n)
    BY <1>2
  <2>2. /\ call' = call /\ file' = file /\ cache' = cache /\ server' = server
        /\ excused' = excused
        /\ inaccessible' \in [Names -> {"absent", "marked", "locked"}]
        /\ inaccessible'[n] # "marked"
        /\ \A m \in Names \ {n} : inaccessible'[m] = inaccessible[m]
        /\ unsure' \subseteq unsure \ {n} /\ unsure \ {n} \subseteq unsure'
    BY <1>0, <2>1 DEF MarkExpires, InaccessibleLockedEnds, InaccessibleRemove, Tables
  <2>3. Tables'
    BY <1>0, <2>2 DEF Tables
  <2>4. TypeInv'
    BY <1>0, <2>2, <2>3 DEF TypeInv, DirTypeOK, Tables, Knows, UsesItsFile
  <2>5. ListingInv'
    BY <2>2 DEF ListingInv, ToRefresh, ToClose, Changes
  <2>6. MarkInv'
    BY <2>2 DEF MarkInv, ToUnmark, Changes
  <2> QED
    BY <2>4, <2>5, <2>6
<1> QED
  BY <1>1, <1>2

\* A change that no request waits for is excused where it makes a table wrong.
LEMMA ServerStep ==
    ASSUME IInv, NEW m \in Names, ServerChanges(m)
    PROVE  IInv'
<1> USE DEF IInv
<1>0. /\ Tables
      /\ file \in [Threads -> OpenFiles \cup {None}]
      /\ call \in [Threads -> Calls]
      /\ \A t \in Threads : Knows(t) /\ UsesItsFile(t)
  BY TypeInvParts
<1>1. /\ Unnoticed /\ cache' = cache /\ inaccessible' = inaccessible
      /\ call' = call /\ file' = file
  BY DEF ServerChanges
<1>2. server' \subseteq Names
  BY <1>0, CommandNames DEF ServerChanges, Make, Delete, Tables
<1>3. TypeInv'
  BY <1>0, <1>1, <1>2, UnnoticedTables DEF TypeInv, DirTypeOK, Tables, Knows, UsesItsFile
<1>4. ListingInv'
  BY <1>0, <1>1, <1>2, UnnoticedTables DEF ListingInv, ToRefresh, ToClose, Changes
<1>5. MarkInv'
  BY <1>0, <1>1, <1>2, UnnoticedTables DEF MarkInv, ToUnmark, Changes
<1> QED
  BY <1>3, <1>4, <1>5

\* Every step keeps the invariant.
LEMMA NextIInv == IInv /\ [Next]_vars => IInv'
<1> SUFFICES ASSUME IInv, [Next]_vars
             PROVE  IInv'
  OBVIOUS
<1>1. CASE \E t \in Threads : Begin(t) \/ Step(t)
  BY <1>1, TypeStep, TablesStep DEF IInv
<1>2. CASE \/ CleanEnumCache
           \/ \E n \in Names : MarkExpires(n) \/ InaccessibleLockedEnds(n)
  BY <1>2, ExpiryStep
<1>3. CASE \E n \in Names : ServerChanges(n)
  BY <1>3, ServerStep
<1>4. CASE UNCHANGED vars
  <2> USE <1>4 DEF vars
  <2>1. TypeInv'
    BY DEF IInv, TypeInv, DirTypeOK, Knows
  <2>2. ListingInv'
    BY DEF IInv, ListingInv, ToRefresh, ToClose, Changes
  <2>3. MarkInv'
    BY DEF IInv, MarkInv, ToUnmark, Changes
  <2> QED
    BY <2>1, <2>2, <2>3 DEF IInv
<1> QED
  BY <1>1, <1>2, <1>3, <1>4 DEF Next

\* The invariant holds in every reachable state.
LEMMA Invariance == Spec => []IInv
  BY InitIInv, NextIInv, PTL DEF Spec

\* The tables and the records of the requests have their types, a wrong mark is
\* counted only while it stands, and a request that uses the file of its handle
\* finds it open under the name it started with.
THEOREM DirTypeCorrect == Spec => []DirTypeOK
<1>1. IInv => DirTypeOK
  BY DEF IInv, TypeInv
<1> QED
  BY <1>1, Invariance, PTL

\* The cached listing is wrong about no names but those that excused holds,
\* whatever the other threads do between a command and the visit to the cache,
\* and whether or not the server did what the command was taken to have done.
THEOREM ListingFollows == Spec => []ListingFollowsChanges
<1>1. IInv => ListingFollowsChanges
  <2> SUFFICES ASSUME IInv, cache # None, NEW n \in Names \ excused,
                      ~Changing(n), ~Written(n)
               PROVE  n \in cache <=> n \in server
    BY DEF ListingFollowsChanges
  <2>1. ~ToRefresh(n) /\ ~ToClose(n)
    BY DEF ToRefresh, ToClose, Changing, Written, Changes
  <2> QED
    BY <2>1 DEF IInv, ListingInv
<1> QED
  BY <1>1, Invariance, PTL

\* A name marked as missing is missing, except for the marks that unsure names:
\* no interleaving of a lookup with a creation, a renaming or a write leaves any
\* other.
THEOREM MarkedMissing == Spec => []MarkedIsMissing
<1>1. IInv => MarkedIsMissing
  <2> SUFFICES ASSUME IInv, NEW n \in Names \ unsure, ~Changing(n), inaccessible[n] = "marked"
               PROVE  n \notin server
    BY DEF MarkedIsMissing
  <2>1. ~ToUnmark(n)
    BY DEF ToUnmark, Changing, Changes
  <2> QED
    BY <2>1 DEF IInv, MarkInv
<1> QED
  BY <1>1, Invariance, PTL
=============================================================================
