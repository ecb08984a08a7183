# FtpDrive in TLA+

FtpDrive shows FTP servers as a drive to Windows programs. A library injected
into every program (`APIHooks`) redirects its file system calls over a named
pipe to one server process (`FtpFS`), which speaks FTP. This directory holds a
TLA+ model of the server's core and of the handles the library keeps in a
client process, the TLC runs that check it, and TLAPS proofs of its main
properties.

## The system

| part | state | operations | speaks to |
|---|---|---|---|
| `FastCriticalSection` (APIHooks/ntapi.h) | counter, event | Enter, Leave | everything |
| file table (FtpWorks/files.cpp) | `files_map`, per file `busy_cnt`, `cs`, `SuspendAt`, connections | PutOurFile, FileLocker, CloseOurFile, SuspendNotActiveFiles, ForceSuspend... | pool, sockets |
| requests (FtpFsImpl.cpp, PipeServer.cpp) | one thread per pipe | OPEN, CLOSE, READ, WRITE, LIST, INFO, TEMP, RENAME... | file table, PidsWatcher, ErrorHandler |
| PidsWatcher | `pid_handles`, a watchdog thread per process | HandleOpened, HandleClosed, RemovePid | file table |
| connection pool (FtpWorks/handles.cpp) | `conns_map` with busy flags and expiry | OpenFtpConnection, CloseCleanFtpConnectionsCache | file table (suspension), server |
| data cache (FtpWorks/datacache.cpp) | per path a storage file, segment-to-page map, ranges | WriteToCache, ReadFromCache, Clean... | operations |
| operations (FtpWorks/dataapiwrappers.cpp) | `pos`, `size`, `sc_data`, `changed` of a file | xxxReadFile, xxxWriteFile, xxxRenameFile, SetFilePointer, OpenDataConnection | all of the above |
| directory cache (FtpWorks/handles.cpp) | `ftp_dir_cache`, `symlinks` | FtpEnum, AddFileToDirCache, CleanFileFromDirCache | operations |
| temporary copies (dataapiwrappers.cpp) | `map_temp_files`, `temp_busy` | xxxPrepareTempFile, CleanTempFiles | operations |
| ErrorHandler, NetControl | automatic answers per process | CheckRetry, KillAll | requests |
| TrafficCounter, SrvReplyLog, UI | counters, logs | | |
| inaccessible files (dataapiwrappers.cpp) | `inaccessible_files`: names taken for missing for a while | InaccessibleAdd, Remove, Check, Clean | operations |
| client side (APIHooks) | wrapper handles with reference counts, mapped sections and views of guard pages, a pipe per thread | hooks of Nt calls, the exception handler | server |

`PROJECT.json` lists all components with their status and, under "hazards",
where the code is hard to test. The behaviours that make it hard:

* every request thread, watchdog and the cleaner work on the same tables, with
  a lock per table, a lock per file and, between the two, the plain counter
  `busy_cnt`. Locks are nested file -> `files_cs` -> `conns_cs`;
* network calls run outside `conns_cs`: what was looked up before one may be
  out of date after it;
* processes die in mid-request, handle values are used again;
* the cache files are bounded, disks fill up, pages change hands;
* a listing is asked for in one step and put into the cache in another, while
  other requests change the directory;
* in the client, three maps are visited in separate sections of `hnd_cs`, while
  the handles of the kernel and of the server are given out again.

What makes each part correct: the lock excludes and wakes; a file in an
operation stays in the table and keeps its connection; what a process holds is
on record until it is closed; a control connection serves one file at a time
and its busy mark is given back; the cache returns the bytes last written; the
cached listing follows the changes made through the drive, and a name taken for
missing is missing; what a client process has open stays open at the server,
and its requests reach the file it means.

## Modules

`Mutex` is a lock as its users see it. **`FastCriticalSection`** models Enter
and Leave with one action per interlocked operation or event call and is shown
to implement `Mutex` (refinement mapping: `asked` are the threads at the wait,
`owner` the one inside). All other modules rely on it: a section under such a
lock is one atomic step there.

**`FileTable`** models files.cpp for the most general client: any thread may
open, use and close any handle value at any time. Each action is one section
under `files_cs`, the file's own lock is a variable. `online` are the files
with a connection. The one use of a file without FileLocker, the MKD of
xxxOpenFile, is the place "making".

**`OpenFiles`** extends it with the OPEN and CLOSE handlers, the processes that
may exit at any moment, and PidsWatcher; `ImplementsFileTable` says its threads
are clients the table allows. A worker is a pipe thread; the watchdog of a
process is a thread named by the process.

**`ConnectionLease`** is what operations on files rely on: a connection is
closed, free or held by one file, and a file whose operation is using its
connection keeps it until that operation gives it up itself.
**`ConnectionPool`** models the pool with all steps between which a thread is
outside `conns_cs`, and is shown to implement the lease: a file holds what it
*claims* (`found`, `dels` of its own settings, `out`, `sc_cmd`). Since
`conns_cs` is taken once for each suspended file, `files_cs` is a variable.
`MCConnectionPool` gives the settings of files.

**`DataCache`** models the cache of one file. A byte is represented by its
position if it is the last one given for that place, and by `Stale` if not (or
if it is of the segment that had the page before), so
the content of the storage file stays small and "a wrong byte" can be said. The
list of ranges and its single-pass merge are modelled as they are, by recursive
functions. At most one segment's page write fails in a call. **`FileCache`** is
what the cache promises, without pages, ranges and failures: of each position
it gives the last byte, an older one, or none; a write may fail for any of its
places and forget any others, but nothing is made up or comes back. `DataCache`
is shown to implement it (`Kind` is the refinement mapping).

**`Transfer`** models the reads and writes of one open file in conversation
with an FTP server that answers late, together with other answers, or not
before the client's time-out. The control connection is a queue of commands and
one of replies; a step of the client that takes a reply takes any number of
those that have arrived and sees the last of them, as RecvResponse does. The
server is external: it handles commands in their order, those behind a transfer
once it has ended, except ABOR. A byte on its way, at the server or in the
cache is the latest for its place, stale, a hole, or none. A suspension of the
file, as SuspendNotActiveFiles and the end of CloseOurFile do it, may come
between calls, also between the DELE of a write at offset 0 and the rest of
that write, as these are two sections of the file's lock. The same path may be
open a second time, with a lock and connections of its own but the same cache:
that handle writes single bytes (`OtherWrites`), `rival` is what it has under
way to the server, and `link.old` are the places a download may have read
before that arrived. The cache is `DataCache` reduced to the promise of
`FileCache`: what it gives is what it was given, it may lose bytes, and where a
write fails or passes it by, it may keep the byte it had. xxxWriteFile and
xxxReadFile do not look at the result of WriteToCache, and a handle without
buffering does not call it; a byte that stays so is "kept", place by place.
`excuses` records what else the code allows to go wrong without a sign: a write
into a connection opened for a download ("crossed"), bytes under way that are
dropped ("lost"), bytes that two handles have under way at once ("overtaken").
`amiss` records what had gone
amiss before: a call that failed or a reply that did not come ("failed"), and a
command that was sent while the server owed a reply ("shifted"). In the last
case replies are paired with the wrong commands from then on. It happens
without any error: the second reply to an ABOR (dataapiwrappers.cpp:1323) or
the 226 of a download before a DELE is left over, some calls later the 150 of a
STOR passes for "transfer confirmed" (files.cpp:32), and the ABOR that follows
ends the upload. CloseDataSocket first drops the replies that have arrived
(`flush`, files.cpp:24); the model keeps them, so more late replies are left
over in it than in the code. `NothingLostQuietly` says that nothing else loses bytes.
ProceedRead and ProceedWrite repeat a failed call with the same position, so a
repetition is another call of `Transfer`.

**`TempCopies`** adds the TEMP request to `OpenFiles`: its FileLocker, the wait
for `temp_busy`, and the FileLocker of the xxxReadFile inside it, which enters
the same lock and counts in `busy_cnt` a second time. What comes after that
read is never reached, so `map_temp_files` stays empty and CleanTempFiles has
nothing to do.

**`DirCache`** models one directory: the names the server has, the listing in
`ftp_dir_cache`, and the entries of `inaccessible_files` (a mark, or the five
seconds' protection that InaccessibleRemove leaves). Each request (open with
any disposition, list, write, delete, rename, close) is a chain of steps, one
for each conversation with the server and for each visit of a table, in the
order of the code. SendCmd fails only if the command cannot be sent or the reply
is 550; a 450, a 553 or no reply in time is success, and a 550 may be the reply
to an earlier command. So what the program takes a command for and what the
server did are separate choices: after `TakenForDone` the tables are visited,
after `Refused` they are not, and in both the server may have carried the
command out or not. `ServerChanges` lets any name appear or vanish besides: a
command carried out after the program stopped waiting, or another client of the
server. The code thus lets both tables err in some cases: a listing or a
deletion that is stored late, a command that is taken for what it was not, a
file listed when it is created but never written, a file renamed through the
handle that wrote it, a file marked as missing while a write has it deleted, a
lookup that fails, a change nobody waits for. The ghosts `excused` and `unsure`
hold the names these cases leave wrong, and each is set by the action where the
case occurs; that an action changes the server does not excuse its name as long
as the request still has a table to visit.

**`ClientHandles`** models APIHooks in one client process: `fs_handles` with its
counts, the sections (`sects`) and the views (`addrs`), each visited in a
section of `hnd_cs`, in which `CloseFSHandle` also talks to the server; the
events whose handles stand for files; the server's handles; and the memory,
where a page of a view is a guard page, then zeros, then the bytes of a file. A
reference (`ref`) is ghost state, what the program was given: a file handle, a
section or a view of a file. The program is any that closes a reference once
and not while another of its calls uses it. Requests, answers and VirtualAlloc
may fail; `leaked` and references of the kind "lost" are what then stays
behind, at most `MaxLosses` of them, and `RoomForRef` bounds the references.

`MCTransfer` gives the bounds of calls and has handles without buffering only
for files of one byte, `MCDataCache` has two instances of
`DataCache` in one run, of which one works in a behaviour (`ManyPagesOK` repeats
the properties for the second), `MCClientHandles` addresses, sizes and symmetry,
`MCDirCache` symmetry.

The definitions that a comment calls slips (`Enter_TestsOldValue`) are variants
with a bug; no specification uses them. They show that the properties notice
such bugs.

## Runs

| run | configuration | shows |
|---|---|---|
| `lock` | 5 threads | mutual exclusion, no lost wake-up, refinement of `Mutex`, every waiter enters |
| `open_files` | 3 workers, 1 process, 1 handle value, 3 files | types, the table's invariant, records and watchdogs, nobody disconnects an operation, refinement of `FileTable`; a close ends; what a dead process left is closed and forgotten |
| `pool` | 2 files, 2 settings, 3 connections, limit 1 | exclusive use, marks, refinement of `ConnectionLease`; a waiting thread is served |
| `data_cache` | 2 segments of 3 bytes, 1 page, writes of up to 4 bytes; and 4 segments of 1 byte, 2 pages, clock up to 2 | ranges, reads, no stale byte, eviction and reuse of pages, refinement of `FileCache` |
| `transfer` | file of up to 3 bytes and 2 calls, of 1 byte and 4 calls, or 3 calls of which one is the other handle's; active or passive, server with or without REST | the position of the data connection, what reads return, that bytes are lost only after a failed call, a reply not waited for or one paired with the wrong command; a call can always go on and comes nearer to its end with every step |
| `client_handles` | 2 threads, 2 handle values, 2 handles of the server, 2 files of a page, 4 references, views apart, 1 loss | the counts, that what the process has stays open, that requests and page faults reach their file, that nothing is left behind but what was lost |
| `directory` | 2 threads, 2 names, all dispositions | the cached listing and the marks of missing names are right but for the named cases |
| `handle_records`, `connection_limit`, `map_changed`, `temp_copies`, `mapped_views` | | the findings below |

Why the bounds are enough. The lock: with three threads all pairs of a leaver
and two waiters occur, five add queues. One handle value is the interesting
number of them, as every OPEN then reuses it; three workers are an operation on
the old file, one on the new and a close between them. Two files are one that
has the only connection and one that wants it, with settings that differ for
`dels`; `MaxConnects` = 3 connection requests and `Tries` = 2 rounds (20 in the
code) reach all branches of every round. Larger tables, pools, caches and files need
no run: their invariants and refinements are proved for any number. Three bytes are
the least page in which two ranges do not touch; a page less than segments
makes every allocation an eviction. Three bytes are also the least file in
which a forward seek over an open download skips something, and two calls let
the second meet everything the first left: its socket, its late replies, its
restart position and its bytes under way. Four calls on one byte are what it
takes for a reply that was left over to end an upload; three are a read, the
other handle's write during it, and a read of what is then in the cache. A handle
without buffering differs only in what becomes of each place of the cache, so
it is run on one byte. In the client, four references are two handles of one file with a section and a view, or two files with a view
each, and with two values every new handle may be one that was just closed;
the invariant is proved for any number of each. In a directory, a name and
another it can be renamed to, with one request at any step of another, meet in
every branch of the code; a third thread would only add a second disturber.

Deadlock is checked, except in the runs of `OpenFiles`, where all processes may
have exited and the server rightly waits for ever, and of `Transfer`, where the
calls may be used up.

Fairness. `Transfer` states none: that every call ends is split into
`CallCanGoOn`, the client always has a step, its time-outs if nothing else, and
`CallAdvances`, every step of anybody during a call decreases `Phase` or, within
a phase, `Work` (proved for every size); so a call ends if only its thread goes
on. `DirCache` and
`ClientHandles` have safety properties only. In the runs of `OpenFiles` and the
pool a thread that is not blocked goes on, as time-outs end all network calls; the waiters of an event are released in the order of their arrival
(strong fairness of what enters a lock). Clients need send nothing. `WaiterServed`
speaks of behaviours in which no operation begins any more from some time on:
new operations can starve a thread at the connection limit, since
`OpenFtpConnection` keeps no queue. `CloseReturns` and `DeadProcessForgotten`
except the case of a handle value that was given to another file during the
close: the poll of CloseOurFile then waits for that file. Both are said of
processes that send no TEMP request; `temp_copies` shows what that one does.

## Findings

* `handle_records`: ProceedClose frees the handle value before its record is
  erased; an OPEN in between records the same value and loses it. The handle
  stays open after the process exits.
* `connection_limit`: the limit is compared before the login; two threads can
  pass it together.
* `map_changed`: a connection claimed by one thread is erased from the pool by
  another that had seen it expired. It stays usable, but is neither counted nor
  given back.
* `temp_copies`: xxxPrepareTempFile reads the file through a second FileLocker
  of the thread that has the first; FastCriticalSection is not recursive, and
  the thread waits for itself. Everybody who then uses or closes the file waits
  too, the watchdog of the process inside `PidsWatcher::_cs`.
* `mapped_views`: the exception handler takes the first address after a view
  for a part of it. Where another view begins there, its first page is filled
  from the wrong file.

## Proofs

All theorems hold for any value of the constants that satisfies the modules'
assumptions; the assumptions say that sets that are counted are finite and that
names such as `NoThread` are none of the things they stand beside.

* `FastCriticalSectionProofs`: the invariant says that the counter counts the
  contenders and that, while there are some, there is exactly one token: a
  thread inside, one about to signal, or the signalled event. Without the token
  mutual exclusion is not inductive, as a second signal could be on its way.
  From it: `MutualExclusionHolds`, `NoLostWakeupHolds`, `LockImplementsMutex`.
* `FileTableProofs`: `busy_cnt` is the cardinality of the threads with or at the
  file's lock; a locker's handle still denotes the file it locked; the lock is
  held by the thread in its operation; no file has two handles. The second
  needs the first, since it is `busy_cnt` that keeps CloseOurFile away, and the
  first needs the second, since ~FileLocker finds the file by the handle.
* `OpenFilesProofs`: each step of the server is a step of the table or leaves it
  alone, so the table's theorems hold of the server; `OFTypeCorrect` and
  `RecordsHaveWatchdogHolds`.
* `ConnectionPoolProofs`: the claims of files overlap nowhere and are the busy
  entries of the map; to keep that, no connection is twice in one thread's
  hands, and local vectors are empty outside their loop. From it follow
  `ExclusiveUseHolds`, `BusyIsClaimedHolds` and `PoolImplementsLease`.
* `ClientHandlesProofs`: `CHInv` says for each thread what its call knows at
  each point, a record that only its own thread changes (`CallsInv`); that
  references a call is giving back or about to add are nobody else's
  (`AloneInv`); that a view has a reference of its own; that each handle of the
  server belongs to one wrapper or one call; and that the count of a wrapper is
  the cardinality of the references to its value. The count is inductive only
  together with the references, which say that nobody decreases it twice, and
  `HandleKeepsFile` only with the count, which says who is the last. From it:
  `RefcntIsHoldersHolds`, `HandleKeepsFileHolds`, `FreedValueIsForgottenHolds`,
  `ServerHandleHasOneOwnerHolds` and, if no view ends where another may begin
  (`ViewsApart`, what `mapped_views` is about), `RequestsReachTheirFileHolds`.
* `DataCacheProofs`: a storage file has no two segments in a page, the ranges of
  a segment lie apart, and the bytes in them are the latest. Each is inductive
  with the types; what takes work are the loops of the code, which
  are recursive functions in the model. A range's merge, a write's pass over the
  segments with evictions on the way and a read's pass are first shown to be
  functions that satisfy their equations (`RangeRecursion`), then an invariant
  of each loop is shown for every round (`RangeInduction`). The induction
  theorems of the library cannot be used for this, so both lemmas speak of sets
  in place of predicates and rest on the least element of a set of naturals.
  From it: `DCTypeCorrect`, `ExclusivePages`, `ApartRanges`, `LatestShown`,
  `RangesUnited` and `ReadsGiveAll`. `CacheImplementsFileCache` follows a write
  segment by segment with an invariant of its own, `Promised`, which compares
  what is shown for a position with what was shown before the call.
* `DirCacheProofs`: that the listing equals the names of the server is true only
  between requests. `ListingInv` and `MarkInv` say of each place between a
  command and the visit to a table what is still to be put right there,
  and by whom (`ToRefresh`, `ToClose`: a request that will visit the listing, a
  handle whose closing will); `Knows` says what a request knows of its own
  record and handle. `CommandNames`, `UnnoticedTables` and `RefusedTables` say
  what a command does to the names and the tables whichever way it is taken.
  From it: `DirTypeCorrect`, `ListingFollows`, `MarkedMissing`.
* `TransferProofs`: what the properties say of the position and of the bytes
  follows only from the state of the conversation. `Protocol` says which
  commands and replies can be under way at which point of a call: the data
  connection and the server agree (`LinkInv`), the bytes on the wire follow each
  other up to the position (`WireInv`), a REST that counts is that of the
  position (`RestInv`), PASV is never behind something else (`PasvInv`), a RETR
  or STOR that the server has not begun will begin where the client thinks
  (`AskedInv`), and in active mode none outlives its call (`ActiveInv`). On it
  rest `LatestInv` (nothing stale is anywhere but where a newer byte is under
  way to, and the cache has an older byte only as a "kept" one) and `QuietInv` (as long as nothing is amiss, an upload that was asked
  for owes its confirmation and nothing else), of which the latter is what makes
  `NothingLostQuietly` inductive. The steps are sorted into calls that begin,
  steps that take replies, steps that do not, data, the server, and the other
  handle; each part of the invariant is kept by each sort. From it:
  `TypeCorrect`, `StreamsAtPos`, `ReadsAreLatest`, `LosesNothingQuietly`, and
  `CallsAdvance`, the action property behind the end of every call.

Model-checked only: the liveness properties (`WaiterEnters`, `CloseReturns`,
`DeadProcessForgotten`, `WaiterServed`) and `CallCanGoOn`, as fairness and
ENABLED are beyond the prover. All other properties of the runs are theorems;
`ManyPagesOK` is an instance of those of `DataCacheProofs`.

## Not modelled

Of the FTP conversation: the renaming of open files, logins, the change of
directory (the file's directory is taken to be the current one) and TLS. Of
directories: symbolic links, the root with its list of sites, the children a
handle has already enumerated, and what other clients of the FTP server do
before a listing expires. Of the client side: the contents and the position of
files, directory masks, the sections made from temporary copies (they are the
kernel's), offsets and protections of views. Of the server: what a second
handle of a path does other than writing a byte of the file, and the denial of processes by the pipe server.

Not modelled at all, each with its reason in `PROJECT.json`: ErrorHandler and
NetControl, which make requests fail or be repeated, as the models allow at any
time; the listing parser; sockets; hook installation; counters, logs and the
user interface. Time is abstracted to "may have expired".

Most lines of the repository are none of the program's own logic: the Detours
library with its samples (one of them a table of 36,000 lines), and system
headers (`ntstatus.h`, `ntifs.h`). No model of this program can cover a large
share of the whole; the parts named above are a few thousand lines.

## Plan

In this order, the most important first:

1. `Transfer` for any number of handles of one path, with `FileCache` itself in
   place of the variable `cache`, so that `DataCache` can be put in its place.
2. `Transfer` with the renaming and the listing of xxxCloseHandle.
3. The lock `files_cs` as a variable of `FileTable`, for the wait of
   CloseDataSocket inside it.

Abstract specifications still to state: a file as a sequence of bytes, for
`Transfer`.
