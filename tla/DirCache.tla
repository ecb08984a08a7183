------------------------------ MODULE DirCache ------------------------------
(***************************************************************************)
(* One directory of a server as the program sees it: the cached listing    *)
(* (ftp_dir_cache, guarded by enum_cs), the files it takes for missing     *)
(* (inaccessible_files, guarded by iaf_cs), and the requests that open,    *)
(* create, write, delete, rename and list.  A request talks to the server  *)
(* and visits the two tables in separate steps, in the order of the code,  *)
(* so the steps of several pipe threads interleave.                        *)
(*                                                                         *)
(* Only which names exist is modelled, not whether a name is a file or a   *)
(* directory, nor the sizes and times in a listing; the lock of a file is  *)
(* in FileTable, the connection in ConnectionPool.                         *)
(*                                                                         *)
(* The code lets both tables err.  A listing, a deletion or a mark is      *)
(* stored though the directory may have changed since the server answered; *)
(* a file that is created is listed before the server has it, and stays    *)
(* listed if it is never written; a file that was written through the      *)
(* handle it is renamed by keeps its old name in the listing; a file that  *)
(* is written from the start is deleted first, and may be marked           *)
(* meanwhile; a command is taken for done on any reply but 550 and on none *)
(* in time, and for refused on a 550 that may answer an earlier one,       *)
(* whatever the server did; and the server may carry a command out after   *)
(* the program has given it up, or be changed by another client.  The      *)
(* ghosts excused and unsure hold the names that these cases leave wrong;  *)
(* the properties say that there are no other cases.                       *)
(***************************************************************************)
CONSTANTS Threads,      \* threads of the pipe server, one request at a time each
          Names,        \* names of files in the directory
          Dispositions, \* the dispositions that clients open files with
          None

ASSUME NoneAssumption ==
    /\ None \notin Names \cup Threads
    /\ \A list \in SUBSET Names : list # None
    /\ \A open \in [name : Names, changed : BOOLEAN] : open # None

\* FILE_OPEN, FILE_OVERWRITE, FILE_CREATE; "open_if" stands for FILE_OPEN_IF,
\* FILE_OVERWRITE_IF and FILE_SUPERSEDE.
ASSUME DispositionsAssumption ==
    Dispositions \subseteq {"open", "overwrite", "create", "open_if"}

VARIABLES
    server,        \* the names the server has
    cache,         \* the names in the entry of ftp_dir_cache, or None
    inaccessible,  \* the entry of inaccessible_files for each name
    file,          \* the file each thread's client has open: [name, changed]
    call,          \* the request each thread is in
    excused,       \* names that are wrong in the cached listing
    unsure         \* marked names that the server has

vars == <<server, cache, inaccessible, file, call, excused, unsure>>

WantCreateFile(d) == d # "open"
WantCheckExist(d) == d # "open_if"

Points == {"idle", "enum", "put", "found", "missing", "mkd", "add", "remove", "mark",
           "delete", "clean", "refresh", "stor", "close"}
\* Where a request uses the file of its handle.
OnFile == {"delete", "clean", "refresh", "stor", "close"}

Idle == [pc |-> "idle", op |-> "none", name |-> None, to |-> None, dir |-> FALSE,
         list |-> {}]

OpenFiles == [name : Names, changed : BOOLEAN]
Calls == [pc : Points,
          op : Dispositions \cup {"none", "list", "write", "delete", "rename", "close"},
          name : Names \cup {None}, to : Names \cup {None},
          dir : BOOLEAN, list : SUBSET Names]

DirTypeOK ==
    /\ server \subseteq Names
    /\ cache \in (SUBSET Names) \cup {None}
    /\ inaccessible \in [Names -> {"absent", "marked", "locked"}]
    /\ file \in [Threads -> OpenFiles \cup {None}]
    /\ call \in [Threads -> Calls]
    /\ excused \subseteq Names
    /\ unsure \subseteq {n \in Names : inaccessible[n] = "marked"}
    /\ \A t \in Threads : call[t].pc \in OnFile =>
          file[t] # None /\ file[t].name = call[t].name

Init ==
    /\ server \in SUBSET Names
    /\ cache = None
    /\ inaccessible = [n \in Names |-> "absent"]
    /\ file = [t \in Threads |-> None]
    /\ call = [t \in Threads |-> Idle]
    /\ excused = {} /\ unsure = {}

-----------------------------------------------------------------------------
At(t, p) == call[t].pc = p
Op(t) == call[t].op
Name(t) == call[t].name
Goto(t, p) == call' = [call EXCEPT ![t].pc = p]
Return(t) == call' = [call EXCEPT ![t] = Idle]

\* Thread t starts request op on the file it has open, at point p.
Start(t, op, p) ==
    /\ At(t, "idle") /\ file[t] # None
    /\ call' = [call EXCEPT ![t] = [Idle EXCEPT !.pc = p, !.op = op, !.name = file[t].name]]

\* InaccessibleRemove: the entry is locked for five seconds.
InaccessibleRemove(n) ==
    /\ inaccessible' = [inaccessible EXCEPT ![n] = "locked"]
    /\ unsure' = unsure \ {n}

\* A command that takes the name from away and gives the name to.
Command(from, to) == [from |-> from, to |-> to]
Make(n) == Command(None, n)
Delete(n) == Command(n, None)

\* What the names become when the server carries command c out; a file that is
\* renamed to an existing name replaces it.
Done(c, names) ==
    IF c.from \notin names \cup {None} THEN names
    ELSE (names \ {c.from}) \cup ({c.to} \ {None})

\* A name that appears at the server and whose mark no request will remove.
MarksStand == unsure' = unsure \cup {n \in server' \ server : inaccessible[n] = "marked"}

\* The server changes its names and no request will tell the tables.
Unnoticed ==
    /\ excused' = IF cache = None THEN {}
                  ELSE excused \cup (server' \ server) \cup (server \ server')
    /\ MarksStand

\* SendCmd: whatever became of the command, it is taken for done on any reply
\* but 550, and on none in time;
TakenForDone(c) == server' \in {server, Done(c, server)} /\ UNCHANGED <<excused, unsure>>

\* it is taken for refused if it cannot be sent, or on a 550, which may be the
\* answer to an earlier command.
Refused(c) == server' \in {server, Done(c, server)} /\ Unnoticed

-----------------------------------------------------------------------------
(* xxxOpenFile.  A file in a directory that is itself marked as missing is *)
(* looked up in vain, like one whose listing fails.                        *)

OpenFile(t, n, d, dir) ==
    /\ At(t, "idle") /\ file[t] = None
    /\ dir => WantCreateFile(d)     \* FILE_DIRECTORY_FILE matters to creation only
    /\ IF WantCreateFile(d) THEN InaccessibleRemove(n) ELSE UNCHANGED <<inaccessible, unsure>>
    /\ IF ~WantCreateFile(d) /\ inaccessible[n] = "marked"     \* InaccessibleCheck
       THEN UNCHANGED call
       ELSE call' = [call EXCEPT ![t] =
                       [Idle EXCEPT !.pc = IF WantCheckExist(d) \/ dir THEN "enum" ELSE "missing",
                                    !.op = d, !.name = n, !.dir = dir]]
    /\ UNCHANGED <<server, cache, file, excused>>

\* xxxGetDirChild, the first request of a directory handle.
ListDirectory(t) ==
    /\ At(t, "idle")
    /\ call' = [call EXCEPT ![t] = [Idle EXCEPT !.pc = "enum", !.op = "list"]]
    /\ UNCHANGED <<server, cache, inaccessible, file, excused, unsure>>

\* What follows FtpEnum, with the listing it gives.
Listed(t, list) ==
    IF Op(t) = "list" THEN Return(t)
    ELSE call' = [call EXCEPT ![t].pc = IF Name(t) \in list THEN "found" ELSE "missing",
                              ![t].list = {}]

FtpEnum_Cached(t) ==
    /\ At(t, "enum")
    /\ cache # None
    /\ Listed(t, cache)
    /\ UNCHANGED <<server, cache, inaccessible, file, excused, unsure>>

\* Not cached: the listing is asked for with no lock taken.
FtpEnum_Received(t) ==
    /\ At(t, "enum")
    /\ cache = None
    /\ call' = [call EXCEPT ![t].pc = "put", ![t].list = server]
    /\ UNCHANGED <<server, cache, inaccessible, file, excused, unsure>>

\* No connection, no data, or a listing that is not understood.
FtpEnum_Failed(t) ==
    /\ At(t, "enum")
    /\ cache = None
    /\ Listed(t, {})
    /\ UNCHANGED <<server, cache, inaccessible, file, excused, unsure>>

FtpEnum_Put(t) ==
    /\ At(t, "put")
    /\ cache' = call[t].list
    /\ excused' = (server \ call[t].list) \cup (call[t].list \ server)
    /\ Listed(t, call[t].list)
    /\ UNCHANGED <<server, inaccessible, file, unsure>>

\* The file is there: it is opened, or FILE_CREATE closes it again.
OpenFound(t) ==
    /\ At(t, "found")
    /\ file' = IF Op(t) = "create" THEN file
               ELSE [file EXCEPT ![t] = [name |-> Name(t), changed |-> FALSE]]
    /\ Goto(t, "remove")
    /\ UNCHANGED <<server, cache, inaccessible, excused, unsure>>

\* A directory is there and a file is wanted, or the other way round.
OpenFound_Conflict(t) ==
    /\ At(t, "found")
    /\ Return(t)
    /\ UNCHANGED <<server, cache, inaccessible, file, excused, unsure>>

OpenMissing(t) ==
    /\ At(t, "missing")
    /\ IF ~WantCreateFile(Op(t)) THEN Goto(t, "mark") /\ UNCHANGED file
       ELSE IF call[t].dir THEN Goto(t, "mkd") /\ UNCHANGED file
       ELSE Goto(t, "add") /\ file' = [file EXCEPT ![t] = [name |-> Name(t), changed |-> TRUE]]
    /\ UNCHANGED <<server, cache, inaccessible, excused, unsure>>

\* The handle is opened, and the name listed, though there may be no directory.
MakeDirectory(t) ==
    /\ At(t, "mkd")
    /\ TakenForDone(Make(Name(t)))
    /\ file' = [file EXCEPT ![t] = [name |-> Name(t), changed |-> TRUE]]
    /\ Goto(t, "add")
    /\ UNCHANGED <<cache, inaccessible>>

MakeDirectory_Refused(t) ==
    /\ At(t, "mkd")
    /\ Refused(Make(Name(t)))
    /\ Return(t)
    /\ UNCHANGED <<cache, inaccessible, file>>

AddFileToDirCache(t) ==
    /\ At(t, "add")
    /\ cache' = IF cache = None THEN None ELSE cache \cup {Name(t)}
    /\ Goto(t, "remove")
    /\ UNCHANGED <<server, inaccessible, file, excused, unsure>>

\* The end of an open that succeeds, or of a FILE_CREATE of a file that exists.
Opened(t) ==
    /\ At(t, "remove")
    /\ InaccessibleRemove(Name(t))
    /\ Return(t)
    /\ UNCHANGED <<server, cache, file, excused>>

\* A locked entry is left alone.
InaccessibleAdd(t) ==
    /\ At(t, "mark")
    /\ IF inaccessible[Name(t)] = "locked" THEN UNCHANGED <<inaccessible, unsure>>
       ELSE /\ inaccessible' = [inaccessible EXCEPT ![Name(t)] = "marked"]
            /\ unsure' = unsure \cup ({Name(t)} \cap server)
    /\ Return(t)
    /\ UNCHANGED <<server, cache, file, excused>>

-----------------------------------------------------------------------------
(* Requests on an open file.                                               *)

\* xxxWriteFile deletes the file first when it writes at offset 0.
WriteFile(t, offset) ==
    /\ Start(t, "write", IF offset = 0 THEN "delete" ELSE "stor")
    /\ UNCHANGED <<server, cache, inaccessible, file, excused, unsure>>

DeleteFile(t) ==
    /\ Start(t, "delete", "delete")
    /\ UNCHANGED <<server, cache, inaccessible, file, excused, unsure>>

\* What follows the xxxRenameFile that deletes.
Deleted(t) == IF Op(t) = "write" THEN Goto(t, "stor") ELSE Return(t)

\* DELE or RMD: the tables are visited though the file may still be there.
Dele(t) ==
    /\ At(t, "delete")
    /\ TakenForDone(Delete(Name(t)))
    /\ Goto(t, "clean")
    /\ UNCHANGED <<cache, inaccessible, file>>

Dele_Refused(t) ==
    /\ At(t, "delete")
    /\ Refused(Delete(Name(t)))
    /\ Deleted(t)
    /\ UNCHANGED <<cache, inaccessible, file>>

\* Slip: the marks are kept.
RenameFile_NotCleaned(t, n) ==
    /\ Start(t, "rename", "refresh")
    /\ TakenForDone(Command(file[t].name, n))
    /\ UNCHANGED <<cache, inaccessible, file>>

\* RNFR and RNTO.
RenameFile(t, n) ==
    /\ At(t, "idle") /\ file[t] # None
    /\ TakenForDone(Command(file[t].name, n))
    /\ call' = [call EXCEPT ![t] = [Idle EXCEPT !.pc = "clean", !.op = "rename",
                                                !.name = file[t].name, !.to = n]]
    /\ UNCHANGED <<cache, inaccessible, file>>

RenameRefused(t, n) ==
    /\ At(t, "idle") /\ file[t] # None
    /\ Refused(Command(file[t].name, n))
    /\ UNCHANGED <<cache, inaccessible, file, call>>

InaccessibleClean(t) ==
    /\ At(t, "clean")
    /\ inaccessible' = [n \in Names |-> IF inaccessible[n] = "locked" THEN "locked" ELSE "absent"]
    /\ unsure' = {}
    /\ Goto(t, "refresh")
    /\ UNCHANGED <<server, cache, file, excused>>

\* Slip: the listing will expire sooner, but the file is not erased from it.
CleanFileFromDirCache_Expires(t) ==
    /\ At(t, "refresh") /\ Op(t) \in {"write", "delete"}
    /\ Deleted(t)
    /\ UNCHANGED <<server, cache, inaccessible, file, excused, unsure>>

CleanFileFromDirCache(t) ==
    /\ At(t, "refresh") /\ Op(t) \in {"write", "delete"}
    /\ IF cache = None THEN UNCHANGED <<cache, excused>>
       ELSE cache' = cache \ {Name(t)} /\ excused' = excused \cup ({Name(t)} \cap server)
    /\ Deleted(t)
    /\ UNCHANGED <<server, inaccessible, file, unsure>>

\* The file counts as changed before a data connection is asked for; whether the
\* server makes it depends on the STOR, to which no answer is taken for consent.
Store(t) ==
    /\ At(t, "stor")
    /\ server' \in {server, Done(Make(Name(t)), server)}
    /\ MarksStand
    /\ file' = [file EXCEPT ![t].changed = TRUE]
    /\ Return(t)
    /\ UNCHANGED <<cache, inaccessible, excused>>

\* A directory can be opened for writing and removed so, but is not written.
Store_Directory(t) ==
    /\ At(t, "stor")
    /\ Return(t)
    /\ UNCHANGED <<server, cache, inaccessible, file, excused, unsure>>

\* Slip: the handle is closed before the listing is refreshed.
CloseHandle_First(t) ==
    /\ Start(t, "close", IF file[t].changed THEN "refresh" ELSE "close")
    /\ file' = [file EXCEPT ![t] = None]
    /\ UNCHANGED <<server, cache, inaccessible, excused, unsure>>

CloseHandle(t) ==
    /\ Start(t, "close", IF file[t].changed THEN "refresh" ELSE "close")
    /\ UNCHANGED <<server, cache, inaccessible, file, excused, unsure>>

\* The entry of a file that this handle has changed is brought up to date
\* where it is listed; in any other case the listing is dropped.
FtpEnumRefreshFile(t) ==
    /\ At(t, "refresh") /\ Op(t) \in {"rename", "close"}
    /\ IF file[t].changed /\ cache # None /\ Name(t) \in cache
       THEN /\ UNCHANGED cache
            /\ excused' = excused \cup (IF Op(t) = "rename" THEN {Name(t), call[t].to}
                                        ELSE {Name(t)} \ server)
       ELSE cache' = None /\ excused' = {}
    /\ IF Op(t) = "close" THEN Goto(t, "close") ELSE Return(t)
    /\ UNCHANGED <<server, inaccessible, file, unsure>>

CloseOurFile(t) ==
    /\ At(t, "close")
    /\ file' = [file EXCEPT ![t] = None]
    /\ Return(t)
    /\ UNCHANGED <<server, cache, inaccessible, excused, unsure>>

-----------------------------------------------------------------------------
(* The server, time, and the user.                                         *)

\* A name appears or vanishes with no request of this program in wait for it:
\* a command it has given up waiting for is carried out late, or another client
\* works in the directory.
ServerChanges(n) ==
    /\ \E c \in {Make(n), Delete(n)} : server' = Done(c, server)
    /\ Unnoticed
    /\ UNCHANGED <<cache, inaccessible, file, call>>

\* The listing has expired, the user clears the caches, or there are too many.
CleanEnumCache ==
    /\ cache # None
    /\ cache' = None /\ excused' = {}
    /\ UNCHANGED <<server, inaccessible, file, call, unsure>>

\* A mark lasts cache_dir_expire seconds.  For five seconds after that the
\* entry cannot be marked, as after an InaccessibleRemove.
MarkExpires(n) ==
    /\ inaccessible[n] = "marked"
    /\ InaccessibleRemove(n)
    /\ UNCHANGED <<server, cache, file, call, excused>>

InaccessibleLockedEnds(n) ==
    /\ inaccessible[n] = "locked"
    /\ inaccessible' = [inaccessible EXCEPT ![n] = "absent"]
    /\ UNCHANGED <<server, cache, file, call, excused, unsure>>

Begin(t) ==
    \/ \E n \in Names : \/ \E d \in Dispositions, dir \in BOOLEAN : OpenFile(t, n, d, dir)
                        \/ RenameFile(t, n) \/ RenameRefused(t, n)
    \/ ListDirectory(t) \/ DeleteFile(t) \/ CloseHandle(t)
    \/ \E offset \in {0, 1} : WriteFile(t, offset)

Step(t) ==
    \/ FtpEnum_Cached(t) \/ FtpEnum_Received(t) \/ FtpEnum_Failed(t) \/ FtpEnum_Put(t)
    \/ OpenFound(t) \/ OpenFound_Conflict(t) \/ OpenMissing(t)
    \/ MakeDirectory(t) \/ MakeDirectory_Refused(t)
    \/ AddFileToDirCache(t) \/ Opened(t) \/ InaccessibleAdd(t)
    \/ Dele(t) \/ Dele_Refused(t) \/ InaccessibleClean(t) \/ CleanFileFromDirCache(t)
    \/ Store(t) \/ Store_Directory(t) \/ FtpEnumRefreshFile(t) \/ CloseOurFile(t)

Next ==
    \/ \E t \in Threads : Begin(t) \/ Step(t)
    \/ CleanEnumCache
    \/ \E n \in Names : ServerChanges(n) \/ MarkExpires(n) \/ InaccessibleLockedEnds(n)

Spec == Init /\ [][Next]_vars

-----------------------------------------------------------------------------
(* Properties.                                                             *)

\* A request has changed the name at the server and not yet in the tables.
Changing(n) ==
    \E t \in Threads : /\ call[t].pc \in {"add", "remove", "clean", "refresh"}
                       /\ n \in {call[t].name, call[t].to}

\* Some handle that has created or written the name is still open.
Written(n) == \E t \in Threads : file[t] # None /\ file[t].name = n /\ file[t].changed

\* The cached listing, from which files are opened and directories shown for
\* cache_dir_expire seconds, follows every creation, deletion and renaming by
\* this program, whatever requests run beside.  What else it has wrong came with
\* a listing that was late; with a command that SendCmd took for done and the
\* server did not do, or that the server did and SendCmd took for refused; with
\* a deletion that was overtaken; with a file that was created and closed but
\* never written; with the renaming of a file by a handle that had written it;
\* or with a change at the server that no request waited for.
ListingFollowsChanges ==
    cache # None =>
       \A n \in Names \ excused : ~Changing(n) /\ ~Written(n) => (n \in cache <=> n \in server)

\* A name marked as missing, which nobody can open for cache_dir_expire seconds,
\* is missing: creating, renaming and deleting remove the marks they make
\* wrong.  A wrong mark was set by a lookup that was late or failed, or stood
\* when a write brought the file back that it had deleted, when the server made
\* the name by a command that was taken for refused, or when it made the name
\* with no request in wait for it.
MarkedIsMissing ==
    \A n \in Names \ unsure : ~Changing(n) /\ inaccessible[n] = "marked" => n \notin server
=============================================================================
