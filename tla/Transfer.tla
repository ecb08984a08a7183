------------------------------ MODULE Transfer ------------------------------
(***************************************************************************)
(* xxxReadFile and xxxWriteFile of one open file over its control and data *)
(* connections (FtpFS/FtpWorks/dataapiwrappers.cpp).  FileLocker puts the  *)
(* calls on a file one after the other; the server answers at its own pace *)
(* and a thread waits for an answer only so long.                          *)
(*                                                                         *)
(* A byte is "latest" when it is what the program gave last for its place, *)
(* or was there from the start, "stale" when it is anything else, a "hole" *)
(* when nobody gave it; "none" is no byte.  It is "kept" in the cache when *)
(* a newer one passed the cache by, or the disk refused it.                *)
(*                                                                         *)
(* The same path may be open a second time, with a lock and connections of *)
(* its own but the same data cache: the other handle writes a byte, which  *)
(* is in the cache at once and at the server when it has got there.        *)
(***************************************************************************)
EXTENDS Naturals, Sequences, FiniteSets

CONSTANTS MaxSize,  \* bound on the size of the file
          Bounds    \* what behaviours may have: the size of the file, the number
                    \* of calls, and how many of them are the other handle's

ASSUME TransferAssumption ==
    MaxSize \in Nat \ {0} /\ Bounds \subseteq [size : 1 .. MaxSize, calls : Nat, others : Nat]

Places == 0 .. MaxSize - 1

VARIABLES
    file,     \* FtpFile: pos, size, changed, pasv_mode, no_cache_write; whether
              \* it has sc_cmd and sc_data
    call,     \* the call: where it is, what is left to do, its locals, and
              \* the bytes the program got
    session,  \* the control connection: commands and replies under way, the
              \* transfer the server is at, its restart position
    link,     \* the data connection: what the server uses it for, what it was
              \* asked to; its place in the file, the bytes under way to it,
              \* and the places it may have read before they changed
    stored, cache,  \* the bytes at the server, and in the data cache
    rival,    \* the bytes under way from the other handle to the server
    restOk,   \* whether the server knows REST
    excuses, amiss,  \* what happened so far, for the properties
    left      \* what the bounds leave

vars == <<file, call, session, link, stored, cache, rival, restOk, excuses, amiss, left>>
disk == <<stored, cache, rival>>

Waiting == {"removed", "confirm", "aborted", "type", "port", "pasv", "rest", "ask",
            "suspend"}

TRTypeOK ==
    /\ file \in [pos : 0 .. MaxSize, size : 0 .. MaxSize, changed : BOOLEAN,
                 pasv : BOOLEAN, nocache : BOOLEAN, cmd : BOOLEAN, data : BOOLEAN]
    /\ call \in [pc : Waiting \cup {"idle", "remove", "begin", "seek",
                                    "ensure", "accept", "transfer"},
                 write : BOOLEAN, target : 0 .. MaxSize, left : 0 .. MaxSize,
                 tries : 0 .. 3, retry : BOOLEAN,
                 got : SUBSET {"latest", "stale", "hole", "kept"}]
    /\ session.xfer \in {"none", "RETR", "STOR"} /\ session.rest \in 0 .. MaxSize
    /\ link.use \in {"none", "idle", "RETR", "STOR"}
    /\ link.asked \in {"none", "RETR", "STOR"}
    /\ link.at \in 0 .. MaxSize /\ Len(link.wire) <= MaxSize /\ link.old \subseteq Places
    /\ stored \in [Places -> {"latest", "stale", "hole", "none"}]
    /\ cache \in [Places -> {"latest", "stale", "hole", "kept", "none"}]
    /\ rival \in [Places -> {"latest", "stale", "none"}]
    /\ excuses \subseteq {"lost", "crossed", "overtaken"}
    /\ restOk \in BOOLEAN /\ amiss \subseteq {"failed", "shifted"}
    /\ \E b \in Bounds :
        left \in [size : {b.size}, calls : 0 .. b.calls, others : 0 .. b.others]

NoCall    == [pc |-> "idle", write |-> FALSE, target |-> 0, left |-> 0,
              tries |-> 0, retry |-> FALSE, got |-> {}]
NoSession == [cmds |-> <<>>, replies |-> <<>>, xfer |-> "none", rest |-> 0]
NoLink    == [use |-> "none", asked |-> "none", at |-> 0, wire |-> <<>>, old |-> {}]

\* The file as xxxOpenFile made it from a listing, or as a new one; the cache
\* has it or not.
Init ==
    /\ left \in Bounds
    /\ \E size \in 0 .. MaxSize, known \in {{}, Places} :
        /\ size <= left.size
        /\ stored = [i \in Places |-> IF i < size THEN "latest" ELSE "none"]
        /\ cache = [i \in Places |-> IF i < size /\ i \in known THEN "latest" ELSE "none"]
        /\ file \in [pos : {0}, size : {size}, pasv : BOOLEAN,
                     changed : IF size = 0 THEN BOOLEAN ELSE {FALSE},
                     nocache : BOOLEAN, cmd : {FALSE}, data : {FALSE}]
    /\ call = NoCall /\ session = NoSession /\ link = NoLink
    /\ rival = [i \in Places |-> "none"]
    /\ restOk \in BOOLEAN
    /\ excuses = {} /\ amiss = {}

----------------------------------------------------------------------------
\* An operator named A_Slip is A with a slip the checks must notice; it is no
\* part of the specification.
Lesser(a, b)  == IF a < b THEN a ELSE b
Greater(a, b) == IF a < b THEN b ELSE a

Size == Cardinality({i \in Places : stored[i] # "none"})

\* New bytes are given for some places: what else there is for them is stale.
Aged(f, new) == [i \in Places |-> IF i \in new /\ f[i] = "latest" THEN "stale" ELSE f[i]]

AgedWire(new) ==
    [j \in 1 .. Len(link.wire) |->
        IF link.wire[j].place \in new THEN [link.wire[j] EXCEPT !.kind = "stale"]
        ELSE link.wire[j]]

\* New bytes for the cache, which promises what FileCache says: places that it
\* has and that are in missed keep the byte they had.
Refusals(new, nocache) ==
    LET has == {i \in new : cache[i] # "none"} IN IF nocache THEN {has} ELSE SUBSET has

WriteToCache(new, missed) ==
    cache' = [i \in Places |-> IF i \in missed THEN "kept"
                               ELSE IF i \in new THEN "latest" ELSE cache[i]]

Excuse(S) == excuses' = excuses \cup S
Lost(wire) == IF wire = <<>> THEN {} ELSE {"lost"}

Amiss(S) == amiss' = amiss \cup S

\* The replies the server still owes when k more are taken.  A command other
\* than ABOR that is sent meanwhile gets the reply of an earlier one.
Owes(k) ==
    session.cmds # <<>> \/ session.xfer # "none" \/ Len(session.replies) > k

Abor == << <<"ABOR", 0>> >>

Shifted(k, commands) ==
    IF commands \notin {<<>>, Abor} /\ Owes(k) THEN {"shifted"} ELSE {}

\* Commands are sent without a look at the replies.
Go(pc, commands) ==
    /\ call' = [call EXCEPT !.pc = pc, !.tries = 0]
    /\ session' = [session EXCEPT !.cmds = @ \o commands]
    /\ Amiss(Shifted(0, commands))

\* RecvResponse takes all that has arrived and gives the last reply of it, or
\* a timeout when there is none.  RecvResponseSkipAborReply goes on after the
\* reply of an ABOR; the first call of a loop is mostly without it.
Arrivals_WithoutTimeout == 1 .. Len(session.replies)

Arrivals == IF session.replies = <<>> THEN {0} ELSE 1 .. Len(session.replies)

Response(k) == IF k = 0 THEN "timeout" ELSE session.replies[k]

Skipped(k, codes) == Response(k) \in codes \/ (call.tries > 0 /\ Response(k) = "226 ABOR")

Took(k, pc, commands) ==
    /\ session' = [session EXCEPT !.replies = SubSeq(@, k + 1, Len(@)),
                                  !.cmds = @ \o commands]
    /\ call' = [call EXCEPT !.pc = pc,
                            !.tries = IF pc = call.pc THEN Lesser(3, @ + 1) ELSE 0]
    /\ Amiss((IF k = 0 THEN {"failed"} ELSE {}) \cup Shifted(k, commands))

\* FileResetOnError, before the call returns an error: both sockets are closed
\* at once, without linger.
FileResetOnError ==
    /\ file' = [file EXCEPT !.cmd = FALSE, !.data = FALSE]
    /\ call' = NoCall /\ session' = NoSession /\ link' = NoLink
    /\ Excuse(Lost(link.wire)) /\ Amiss({"failed"})
    /\ UNCHANGED <<disk, restOk, left>>

\* CloseDataSocket: after a change the socket lingers until all is sent.
CloseDataSocket_WithoutLinger == [link EXCEPT !.use = "none", !.asked = "none", !.old = {}, !.wire = <<>>]

CloseDataSocket ==
    [link EXCEPT !.use = "none", !.asked = "none", !.old = {},
                 !.wire = IF file.changed THEN @ ELSE <<>>]

Closes == link' = CloseDataSocket /\ Excuse(IF link'.wire = link.wire THEN {} ELSE {"lost"})

----------------------------------------------------------------------------
\* xxxReadFile, up to SetFilePointer: the cache, which may have lost some of
\* its bytes, gives what it has from the position on.
Prefix(p, limit) ==
    CHOOSE m \in 0 .. limit :
        /\ \A i \in p .. p + m - 1 : cache[i] # "none"
        /\ m = limit \/ cache[p + m] = "none"

ReadFile(p, n) ==
    /\ call.pc = "idle" /\ left.calls > 0 /\ left' = [left EXCEPT !.calls = @ - 1]
    /\ p < file.size
    /\ LET len   == Lesser(n, file.size - p)
           limit == IF p < file.pos /\ file.pos < p + len THEN file.pos - p ELSE len IN
       \E m \in 0 .. IF file.pos = p /\ file.data THEN 0 ELSE Prefix(p, limit) :
        /\ cache' = IF m < len THEN [cache EXCEPT ![p + m] = "none"] ELSE cache
        /\ call' = [NoCall EXCEPT !.pc = IF m = len THEN "idle" ELSE "seek",
                                  !.target = IF m = len THEN 0 ELSE p + m,
                                  !.left = len - m,
                                  !.got = {cache[i] : i \in p .. p + m - 1}]
    /\ UNCHANGED <<file, session, link, stored, rival, restOk, excuses, amiss>>

\* xxxWriteFile: a write at the start deletes the file first, in a call of
\* xxxRenameFile with a FileLocker of its own.
WriteFile(p, n) ==
    /\ call.pc = "idle" /\ left.calls > 0 /\ left' = [left EXCEPT !.calls = @ - 1]
    /\ p + n <= left.size
    /\ call' = [NoCall EXCEPT !.pc = IF p = 0 THEN "remove" ELSE "begin",
                              !.write = TRUE, !.target = p, !.left = n]
    /\ UNCHANGED <<file, session, link, disk, restOk, excuses, amiss>>

Remove ==
    /\ call.pc = "remove" /\ file.cmd
    /\ Go("removed", << <<"DELE", 0>> >>)
    /\ UNCHANGED <<file, link, disk, restOk, excuses, left>>

SendCmdSucceeds(k) == Response(k) # "550"

Removed ==
    /\ call.pc = "removed"
    /\ \E k \in Arrivals :
        IF Skipped(k, {"225", "426"}) THEN Took(k, "removed", <<>>) /\ UNCHANGED cache
        ELSE /\ Took(k, "begin", <<>>)
             /\ cache' = IF SendCmdSucceeds(k) THEN [i \in Places |-> "none"] ELSE cache
    /\ UNCHANGED <<file, link, stored, rival, restOk, excuses, left>>

Begin ==
    /\ call.pc = "begin"
    /\ file' = [file EXCEPT !.changed = TRUE]
    /\ Go("seek", <<>>)
    /\ UNCHANGED <<link, disk, restOk, excuses, left>>

\* SetFilePointer: nothing to do, or no data connection that is elsewhere.
SetFilePointer_KeepsSocket ==
    /\ call.pc = "seek"
    /\ file' = [file EXCEPT !.pos = call.target]
    /\ Go("ensure", <<>>)
    /\ UNCHANGED <<link, disk, restOk, excuses, left>>

SetFilePointer ==
    /\ call.pc = "seek"
    /\ file.pos = call.target \/ ~file.data
    /\ file' = [file EXCEPT !.pos = call.target]
    /\ Go("ensure", <<>>)
    /\ UNCHANGED <<link, disk, restOk, excuses, left>>

\* m bytes of the data connection, to the buffer and to the cache, whatever
\* the other handle has put there since the server read them.
Receive(m) ==
    /\ file.data /\ link.use = "RETR" /\ link.at + m <= Size
    /\ LET new   == file.pos .. file.pos + m - 1
           aside == new \cap (link.old \cup {i \in Places : rival[i] # "none"}) IN
        \E aged \in {{}, new \cap link.old}, missed \in Refusals(new, file.nocache) :
        LET kind == [i \in Places |-> IF link.at = file.pos /\ i \notin aged THEN stored[i]
                                      ELSE "stale"] IN
        /\ cache' = [i \in Places |-> IF i \in new \ missed /\ ~file.nocache THEN kind[i]
                                      ELSE cache[i]]
        /\ call' = IF call.pc = "seek" THEN call
                   ELSE [call EXCEPT !.left = @ - m, !.got = @ \cup {kind[i] : i \in new}]
        /\ Excuse(IF aside = {} THEN {} ELSE {"overtaken"})
    /\ link' = [link EXCEPT !.at = @ + m]
    /\ file' = [file EXCEPT !.pos = @ + m]
    /\ UNCHANGED <<session, stored, rival, restOk, amiss, left>>

\* Forward seek bypass: the bytes between are read, perhaps not all of them.
Bypass(m) ==
    /\ call.pc = "seek" /\ ~call.write
    /\ file.pos + m <= call.target
    /\ Receive(m)

\* Else the data connection is closed, after a change with a wait for the
\* server's confirmation, and the transfer aborted.
SeekElsewhere ==
    /\ call.pc = "seek"
    /\ file.pos # call.target /\ file.data
    /\ Closes
    /\ file' = [file EXCEPT !.data = FALSE]
    /\ IF file.changed THEN Go("confirm", <<>>) ELSE Go("aborted", Abor)
    /\ UNCHANGED <<disk, restOk, left>>

Confirmed ==
    /\ call.pc = "confirm"
    /\ \E k \in Arrivals : Took(k, "aborted", Abor)
    /\ UNCHANGED <<file, link, disk, restOk, excuses, left>>

Aborted ==
    /\ call.pc = "aborted"
    /\ \E k \in Arrivals :
        IF call.tries = 0 /\ Response(k) = "550" THEN Took(k, "aborted", <<>>)
        ELSE Took(k, "seek", <<>>)
    /\ UNCHANGED <<file, link, disk, restOk, excuses, left>>

----------------------------------------------------------------------------
\* EnsureCommandConnection: a new connection, or one of the pool, perhaps the
\* one the file had, of which CheckByNoop has read all replies.  If there is
\* none, xxxRenameFile does nothing, the other calls fail.
Connect ==
    /\ call.pc \in {"remove", "ensure"} /\ ~file.cmd
    /\ \/ /\ file' = [file EXCEPT !.cmd = TRUE]
          /\ \/ session' = NoSession /\ Excuse(Lost(link.wire))
             \/ /\ session.cmds = <<>> /\ session.xfer = "none"
                /\ session' = NoSession /\ UNCHANGED excuses
          /\ link' = NoLink
          /\ UNCHANGED <<call, amiss>>
       \/ /\ Amiss({"failed"})
          /\ call' = IF call.pc = "remove" THEN [call EXCEPT !.pc = "begin"] ELSE NoCall
          /\ UNCHANGED <<file, session, link, excuses>>
    /\ UNCHANGED <<disk, restOk, left>>

\* With a data connection the transfer goes on where it is.
GoOn ==
    /\ call.pc = "ensure" /\ file.cmd /\ file.data
    /\ Go("transfer", <<>>)
    /\ UNCHANGED <<file, link, disk, restOk, excuses, left>>

\* OpenDataConnection; its directory is the current one.
OpenDataConnection ==
    /\ call.pc = "ensure" /\ file.cmd /\ ~file.data
    /\ Go("type", << <<"TYPE", 0>> >>)
    /\ UNCHANGED <<file, link, disk, restOk, excuses, left>>

\* In active mode a socket listens, or the file falls back to passive mode.
TypeAnswered ==
    /\ call.pc = "type"
    /\ \E k \in Arrivals :
        IF Skipped(k, {"425", "426", "225", "550", "250", "350", "110", "150", "450"})
        THEN Took(k, "type", <<>>) /\ UNCHANGED file
        ELSE \/ ~file.pasv /\ Took(k, "port", << <<"PORT", 0>> >>) /\ UNCHANGED file
             \/ Took(k, "pasv", << <<"PASV", 0>> >>) /\ file' = [file EXCEPT !.pasv = TRUE]
    /\ UNCHANGED <<link, disk, restOk, excuses, left>>

Rest == << <<"REST", file.pos>> >>

PortAnswered ==
    /\ call.pc = "port"
    /\ \E k \in Arrivals :
        IF Response(k) = "226 ABOR" THEN Took(k, "port", <<>>) ELSE Took(k, "rest", Rest)
    /\ UNCHANGED <<file, link, disk, restOk, excuses, left>>

\* RecvPasv finds the address in the last line that has arrived and the code
\* in the first; with an address it connects.
PasvAnswered ==
    /\ call.pc = "pasv"
    /\ \/ \E k \in Arrivals :
            /\ Response(k) = "227"
            /\ file' = [file EXCEPT !.data = TRUE]
            /\ link' = [link EXCEPT !.use = "idle"]
            /\ Took(k, "rest", Rest)
            /\ UNCHANGED <<disk, restOk, excuses, left>>
       \/ \E k \in Arrivals :
            /\ Response(k) # "227" /\ k > 0 /\ call.tries < 3
            /\ session.replies[1] \in {"200", "426", "226", "226 ABOR"}
            /\ Took(k, "pasv", <<>>)
            /\ UNCHANGED <<file, link, disk, restOk, excuses, left>>
       \/ FileResetOnError

\* AskFileContent.
RestAnswered_AnyReply ==
    /\ call.pc = "rest"
    /\ \E k \in Arrivals : Took(k, "ask", << <<IF call.write THEN "STOR" ELSE "RETR", 0>> >>)
    /\ link' = [link EXCEPT !.asked = IF call.write THEN "STOR" ELSE "RETR"]
    /\ UNCHANGED <<file, disk, restOk, excuses, left>>

RestAnswered ==
    /\ call.pc = "rest"
    /\ \E k \in Arrivals :
        \/ /\ Skipped(k, {"426"})
           /\ Took(k, "rest", <<>>)
           /\ UNCHANGED <<file, link, disk, restOk, excuses, left>>
        \/ /\ ~Skipped(k, {"426"})
           /\ Response(k) \in {"350", "110"} \/ file.pos = 0
           /\ link' = [link EXCEPT !.asked = IF call.write THEN "STOR" ELSE "RETR"]
           /\ Took(k, "ask", << <<IF call.write THEN "STOR" ELSE "RETR", 0>> >>)
           /\ UNCHANGED <<file, disk, restOk, excuses, left>>
        \/ /\ ~Skipped(k, {"426"})
           /\ Response(k) \notin {"350", "110"} /\ file.pos # 0
           /\ FileResetOnError

\* A 425 is tried once more.
Refused(k) == Response(k) \in {"450", "550"} \/ (Response(k) = "425" /\ call.retry)

AskAnswered_AlwaysRetries ==
    /\ call.pc = "ask"
    /\ \E k \in Arrivals :
        IF Skipped(k, {"426", "350"}) THEN Took(k, "ask", <<>>)
        ELSE IF Response(k) \in {"425", "450", "550"} THEN Took(k, "type", << <<"TYPE", 0>> >>)
        ELSE Took(k, "accept", <<>>)
    /\ UNCHANGED <<file, link, disk, restOk, excuses, left>>

AskAnswered ==
    /\ call.pc = "ask"
    /\ \E k \in Arrivals :
        \/ /\ Skipped(k, {"426", "350"})
           /\ Took(k, "ask", <<>>)
           /\ UNCHANGED <<file, link, disk, restOk, excuses, left>>
        \/ /\ ~Skipped(k, {"426", "350"}) /\ Response(k) \notin {"425", "450", "550"}
           /\ Took(k, "accept", <<>>)
           /\ UNCHANGED <<file, link, disk, restOk, excuses, left>>
        \/ /\ Response(k) = "425" /\ ~call.retry
           /\ session' = [session EXCEPT !.replies = SubSeq(@, k + 1, Len(@)),
                                         !.cmds = @ \o << <<"TYPE", 0>> >>]
           /\ call' = [call EXCEPT !.pc = "type", !.tries = 0, !.retry = TRUE]
           /\ Amiss(Shifted(k, << <<"TYPE", 0>> >>))
           /\ UNCHANGED <<file, link, disk, restOk, excuses, left>>
        \/ ~Skipped(k, {"426", "350"}) /\ Refused(k) /\ FileResetOnError

\* In active mode the server's connection is waited for.
AcceptDataSocket ==
    /\ call.pc = "accept"
    /\ \/ /\ link.use # "none"
          /\ file' = [file EXCEPT !.data = TRUE]
          /\ Go("transfer", <<>>)
          /\ UNCHANGED <<link, disk, restOk, excuses, left>>
       \/ link.use = "none" /\ FileResetOnError

----------------------------------------------------------------------------
\* The transfer.  A read goes on until it has all; a write is done with what
\* one send took.  On a connection that is there for a download what is sent
\* gets lost.
ReceiveData_FullLength(m) == call.pc = "transfer" /\ ~call.write /\ Receive(m)

ReceiveData(m) == call.pc = "transfer" /\ ~call.write /\ m <= call.left /\ Receive(m)

ReadDone ==
    /\ call.pc = "transfer" /\ ~call.write /\ call.left = 0
    /\ call' = [NoCall EXCEPT !.got = call.got]
    /\ UNCHANGED <<file, session, link, disk, restOk, excuses, amiss, left>>

\* The server still takes what is sent: an upload is going on, or it will come.
Uploads == session.xfer = "STOR" \/ \E i \in DOMAIN session.cmds : session.cmds[i][1] = "STOR"

SendData(m) ==
    /\ call.pc = "transfer" /\ call.write /\ m <= call.left
    /\ LET new == file.pos .. file.pos + m - 1
           sent == [j \in 1 .. m |-> [place |-> file.pos + j - 1, kind |-> "latest"]] IN
        /\ stored' = Aged(stored, new) /\ rival' = Aged(rival, new)
        /\ \E missed \in Refusals(new, file.nocache) :
            WriteToCache(IF file.nocache THEN {} ELSE new, missed)
        /\ link' = [link EXCEPT
                !.wire = AgedWire(new) \o IF link.asked = "STOR" /\ Uploads THEN sent ELSE <<>>]
        /\ Excuse((IF link.asked = "RETR" THEN {"crossed"}
                   ELSE IF Uploads THEN {} ELSE {"lost"})
                  \cup (IF \E i \in new : rival[i] # "none" THEN {"overtaken"} ELSE {}))
    /\ file' = [file EXCEPT !.pos = @ + m, !.size = Greater(@, file.pos + m)]
    /\ call' = NoCall
    /\ UNCHANGED <<session, restOk, amiss, left>>

\* A send or a recv fails, the bytes come to an end before the call has all,
\* or nothing comes in time.
TransferFails ==
    /\ call.pc = "transfer" /\ call.left > 0
    /\ FileResetOnError

\* SuspendNotActiveFiles, or the end of CloseOurFile, while no FileLocker is
\* held; the control connection goes to the pool with what is under way.
SuspendFile ==
    /\ call.pc \in {"idle", "begin"} /\ file.cmd
    /\ IF file.data
       THEN Closes /\ file' = [file EXCEPT !.data = FALSE, !.cmd = file.changed]
       ELSE file' = [file EXCEPT !.cmd = FALSE] /\ UNCHANGED <<link, excuses>>
    /\ call' = IF file'.cmd THEN [call EXCEPT !.pc = "suspend"] ELSE call
    /\ UNCHANGED <<session, disk, restOk, amiss, left>>

SuspendedFile ==
    /\ call.pc = "suspend"
    /\ \E k \in Arrivals : Took(k, IF call.left > 0 THEN "begin" ELSE "idle", <<>>)
    /\ file' = [file EXCEPT !.cmd = FALSE]
    /\ UNCHANGED <<link, disk, restOk, excuses, left>>

----------------------------------------------------------------------------
\* The server handles the commands in their order, those after a transfer
\* when it has ended, but for ABOR.
Handles(command, replies) ==
    /\ session.cmds # <<>> /\ Head(session.cmds)[1] = command
    /\ session.xfer = "none" \/ command = "ABOR"
    /\ session' = [session EXCEPT !.cmds = Tail(@), !.replies = @ \o replies,
                        !.rest = IF command = "REST" /\ restOk THEN Head(session.cmds)[2] ELSE @,
                        !.xfer = IF command = "ABOR" THEN "none" ELSE @]

HandleSimple ==
    /\ \/ Handles("TYPE", <<"200">>)
       \/ Handles("PORT", <<"200">>)
       \/ Handles("PASV", <<"227">>)
       \/ Handles("REST", <<IF restOk THEN "350" ELSE "502">>)
    /\ UNCHANGED <<file, call, link, disk, restOk, excuses, amiss, left>>

HandleDele ==
    /\ \/ /\ Handles("DELE", <<"250">>)
          /\ stored' = [i \in Places |-> "none"] /\ rival' = stored'
       \/ Handles("DELE", <<"550">>) /\ UNCHANGED <<stored, rival>>
    /\ UNCHANGED <<file, call, link, cache, restOk, excuses, amiss, left>>

HandleAbor ==
    /\ IF session.xfer = "none" THEN Handles("ABOR", <<"226 ABOR">>) \/ Handles("ABOR", <<"225">>)
       ELSE Handles("ABOR", <<"426", "226 ABOR">>)
    /\ link' = [link EXCEPT !.wire = <<>>]
    /\ Excuse(Lost(link.wire))
    /\ UNCHANGED <<file, call, disk, restOk, amiss, left>>

\* RETR or STOR: an upload from the start truncates the file.
HandleTransfer(command) ==
    /\ session.cmds # <<>> /\ Head(session.cmds)[1] = command
    /\ session.xfer = "none"
    /\ \/ /\ link.use = IF file.pasv THEN "idle" ELSE "none"
          /\ command = "RETR" => Size > 0
          /\ session' = [session EXCEPT !.cmds = Tail(@), !.replies = Append(@, "150"),
                                        !.xfer = command, !.rest = 0]
          /\ link' = [link EXCEPT !.use = command, !.at = session.rest, !.old = {}]
          /\ stored' = IF command = "STOR" /\ session.rest = 0 THEN [i \in Places |-> "none"]
                       ELSE stored
          /\ UNCHANGED excuses
       \/ \E reply \in {"425", "550"} :
          /\ session' = [session EXCEPT !.cmds = Tail(@), !.replies = Append(@, reply),
                                        !.rest = 0]
          /\ link' = [link EXCEPT !.wire = <<>>]
          /\ Excuse(Lost(link.wire))
          /\ UNCHANGED stored
    /\ UNCHANGED <<file, call, cache, rival, restOk, amiss, left>>

\* A byte of an upload arrives; before the end of the file it fills a gap.
WithByte(place, kind) ==
    [i \in Places |-> IF i = place THEN kind
                      ELSE IF i < place /\ stored[i] = "none" THEN "hole" ELSE stored[i]]

Store ==
    /\ session.xfer = "STOR" /\ link.wire # <<>> /\ link.at < MaxSize
    /\ LET byte == Head(link.wire) IN
        stored' = WithByte(link.at, IF byte.place = link.at THEN byte.kind ELSE "stale")
    /\ link' = [link EXCEPT !.at = @ + 1, !.wire = Tail(@)]
    /\ UNCHANGED <<file, call, session, cache, rival, restOk, excuses, amiss, left>>

\* A download ends when all is sent, or with a 426 if the client has closed
\* the connection; an upload when the client has closed it.
EndTransfer ==
    /\ \/ session.xfer = "RETR"
       \/ session.xfer = "STOR" /\ link.use # "STOR" /\ link.wire = <<>>
    /\ \E reply \in {"226"} \cup IF session.xfer = "RETR" /\ link.use # "RETR" THEN {"426"} ELSE {} :
        session' = [session EXCEPT !.xfer = "none", !.replies = Append(@, reply)]
    /\ UNCHANGED <<file, call, link, disk, restOk, excuses, amiss, left>>

----------------------------------------------------------------------------
\* The other handle writes a byte of the file: xxxWriteFile sends it and puts
\* it into the cache.  What this handle has under way for the place may get
\* to the server after it.
OtherWrites(i) ==
    /\ left.calls > 0 /\ left.others > 0
    /\ left' = [left EXCEPT !.calls = @ - 1, !.others = @ - 1]
    /\ stored[i] # "none"
    /\ stored' = Aged(stored, {i})
    /\ \E missed \in Refusals({i}, FALSE) : WriteToCache({i}, missed)
    /\ rival' = [rival EXCEPT ![i] = "latest"]
    /\ link' = [link EXCEPT !.wire = AgedWire({i})]
    /\ Excuse(IF \E j \in DOMAIN link.wire : link.wire[j].place = i THEN {"overtaken"} ELSE {})
    /\ UNCHANGED <<file, call, session, restOk, amiss>>

\* The byte arrives at the server, perhaps behind the back of a download.
OtherStores(i) ==
    /\ rival[i] # "none"
    /\ stored' = WithByte(i, rival[i])
    /\ rival' = [rival EXCEPT ![i] = "none"]
    /\ link' = IF link.use = "RETR" THEN [link EXCEPT !.old = @ \cup {i}] ELSE link
    /\ UNCHANGED <<file, call, session, cache, restOk, excuses, amiss, left>>

Others == \E i \in Places : OtherWrites(i) \/ OtherStores(i)

----------------------------------------------------------------------------
Proceed ==
    \/ Remove \/ Removed \/ Begin
    \/ SetFilePointer \/ SeekElsewhere \/ Confirmed \/ Aborted
    \/ Connect \/ GoOn \/ OpenDataConnection
    \/ TypeAnswered \/ PortAnswered \/ PasvAnswered \/ RestAnswered \/ AskAnswered
    \/ AcceptDataSocket
    \/ \E m \in 1 .. MaxSize : Bypass(m) \/ ReceiveData(m) \/ SendData(m)
    \/ ReadDone \/ TransferFails
    \/ SuspendedFile

Serve ==
    \/ HandleSimple \/ HandleDele \/ HandleAbor
    \/ HandleTransfer("RETR") \/ HandleTransfer("STOR")
    \/ Store \/ EndTransfer

Next ==
    \/ \E p \in Places, n \in 1 .. MaxSize : ReadFile(p, n) \/ WriteFile(p, n)
    \/ Proceed
    \/ SuspendFile
    \/ Serve
    \/ Others

Spec == Init /\ [][Next]_vars

----------------------------------------------------------------------------
\* The place the server is at is the position the file has: what is received
\* next belongs there, and so does what is sent next after what is under way.
StreamAtPos ==
    file.data /\ "crossed" \notin excuses =>
        /\ link.use = "RETR" => link.at = file.pos
        /\ link.use = "STOR" => link.at + Len(link.wire) = file.pos

\* A read that succeeds returns the bytes last given, from wherever it takes
\* them, except at the very places where the cache kept an older one ("kept"),
\* unless a write went into a download (xxxWriteFile does not look what the data
\* connection is there for) or was lost, or a byte was under way of both
\* handles, to or from the server, at the same time.
ReadsLatest ==
    call.pc = "idle" /\ excuses = {} => "stale" \notin call.got

\* No byte that was sent gets lost unless a reply did not come in time, a
\* call has failed, or a command was sent when the server owed a reply: from
\* then on replies are paired with the wrong commands, the reply to STOR may
\* pass for the confirmation of the upload, and the ABOR that follows ends it.
NothingLostQuietly == "lost" \in excuses => amiss # {}

\* Why a call ends, whatever the server answers or does not.  Phase is where the
\* call is on its way, the second round of OpenDataConnection after a 425
\* included; Work is what can happen before it gets to the next phase: bytes,
\* and replies that are under way or will come of what the server has to do.
Phase ==
    LET round == IF call.retry THEN 0 ELSE 6 IN
    CASE call.pc = "idle"     -> 0
      [] call.pc = "transfer" -> 1
      [] call.pc = "accept"   -> 2
      [] call.pc = "ask"      -> 3 + round
      [] call.pc = "rest"     -> 4 + round
      [] call.pc \in {"port", "pasv"} -> 5 + round
      [] call.pc = "type"     -> 6 + round
      [] call.pc = "ensure"   -> IF file.cmd THEN 13 ELSE 14
      [] call.pc = "aborted"  -> 16
      [] call.pc = "confirm"  -> 17
      [] call.pc = "seek"     -> IF file.data THEN 18 ELSE 15
      [] call.pc = "suspend"  -> 20
      [] call.pc = "begin"    -> IF file.cmd THEN 21 ELSE 19
      [] call.pc = "removed"  -> 22
      [] call.pc = "remove"   -> IF file.cmd THEN 23 ELSE 24

Backlog ==
    4 * Len(session.cmds) + Len(session.replies)
    + (IF session.xfer = "none" THEN 0 ELSE 2) + Len(link.wire)

Work ==
    Backlog + call.left
    + IF file.pos <= call.target THEN call.target - file.pos ELSE 0

\* Every step of the client, of the server, or of the thread that suspends
\* files brings a call that is under way nearer to its end: the loops that
\* skip replies use them up, what they send is bounded, and no round of
\* OpenDataConnection or of SetFilePointer is gone through once more.  The
\* other handle makes no difference.
CallAdvances ==
    [][call.pc # "idle" =>
        LET phase == Phase IN
        \/ Phase' < phase
        \/ Phase' = phase /\ (Work' < Work \/ (Work' = Work /\ Others))]_vars

\* And there always is such a step of the client: nothing it waits for has to
\* come from the server.
CallCanGoOn == call.pc # "idle" => ENABLED Proceed
=============================================================================
