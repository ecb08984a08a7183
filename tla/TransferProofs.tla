--------------------------- MODULE TransferProofs ---------------------------
(***************************************************************************)
(* Reads and writes of an open file, for any size of the file, any number  *)
(* of calls and of writes of the other handle.                             *)
(*                                                                         *)
(* Most of the invariant is about the protocol: which commands and replies *)
(* can be under way at which point of a call, and where the transfer will  *)
(* begin that the client has asked for.  Only then can be said that what   *)
(* comes over the data connection belongs to the position of the file      *)
(* (StreamAtPos), that it is latest (ReadsLatest), and that no reply is    *)
(* taken for the confirmation of an upload unless something is amiss       *)
(* (NothingLostQuietly).                                                   *)
(*                                                                         *)
(* The steps are first sorted (StepCases): calls that begin, steps of the  *)
(* client that take no reply, those that take one, data, the server, the   *)
(* other handle.  Each part of the invariant is then proved to be kept by  *)
(* each sort.                                                              *)
(***************************************************************************)
EXTENDS Transfer, TLAPS, FiniteSetTheorems, WellFoundedInduction

\* The types, as record sets that the provers can use; what is under way
\* on the control connection included.
Verbs == {"DELE", "ABOR", "TYPE", "PORT", "PASV", "REST", "RETR", "STOR"}
Transfers == {"RETR", "STOR"}
Commands == Verbs \X (0 .. MaxSize)
Codes == {"150", "200", "225", "226", "226 ABOR", "227", "250", "350", "425", "426",
          "502", "550"}
Bytes == [place : Places, kind : {"latest", "stale"}]
Contents == {"latest", "stale", "hole", "none"}
Cached == Contents \cup {"kept"}
Given == {"latest", "stale", "hole", "kept"}

FileType == [pos : 0 .. MaxSize, size : 0 .. MaxSize, changed : BOOLEAN,
             pasv : BOOLEAN, nocache : BOOLEAN, cmd : BOOLEAN, data : BOOLEAN]
Points == Waiting \cup {"idle", "remove", "begin", "seek", "ensure", "accept",
                        "transfer"}
CallType == [pc : Points,
             write : BOOLEAN, target : 0 .. MaxSize, left : 0 .. MaxSize,
             tries : 0 .. 3, retry : BOOLEAN,
             got : SUBSET Given]
SessionType == [cmds : Seq(Commands), replies : Seq(Codes),
                xfer : {"none"} \cup Transfers, rest : 0 .. MaxSize]
LinkType == [use : {"none", "idle"} \cup Transfers, asked : {"none"} \cup Transfers,
             at : 0 .. MaxSize, wire : Seq(Bytes), old : SUBSET Places]

\* The state is well typed.
Types ==
    /\ file \in FileType
    /\ call \in CallType
    /\ session \in SessionType
    /\ link \in LinkType
    /\ stored \in [Places -> Contents]
    /\ cache \in [Places -> Cached]
    /\ rival \in [Places -> {"latest", "stale", "none"}]
    /\ excuses \subseteq {"lost", "crossed", "overtaken"}
    /\ restOk \in BOOLEAN /\ amiss \subseteq {"failed", "shifted"}
    /\ left \in [size : 1 .. MaxSize, calls : Nat, others : Nat]
    /\ \E b \in Bounds :
        left \in [size : {b.size}, calls : 0 .. b.calls, others : 0 .. b.others]

\* What the server has of the file is a beginning of it.
Dense == \E n \in 0 .. MaxSize : \A i \in Places : stored[i] # "none" <=> i < n

Opening == {"ensure", "type", "port", "pasv", "rest", "ask", "accept"}

\* What a call has seen to when it is at some point: its bytes fit into the file,
\* the position is its target, the connections that it needs are there.
CallInv ==
    /\ call.target + call.left <= MaxSize
    /\ call.pc \in Opening => file.pos = call.target
    /\ call.pc = "transfer" => file.data /\ file.pos + call.left <= MaxSize
    /\ file.data \/ call.pc \notin {"idle", "remove", "begin", "seek", "ensure"} => file.cmd
    /\ call.pc \in {"confirm", "aborted", "suspend"} => ~file.data
    /\ call.write /\ call.pc \notin {"idle", "remove", "removed", "begin", "suspend"}
          => file.changed

\* A command, a reply that is under way.
Queued(v) == \E i \in DOMAIN session.cmds : session.cmds[i][1] = v
Owed(r) == \E i \in DOMAIN session.replies : session.replies[i] = r

\* The data connection: what the client has it for is what the server does with
\* it, and the server is where the position of the file is.
LinkInv ==
    /\ file.data => link.use # "none"
    /\ (link.use # "none" /\ ~file.data) => ~file.pasv /\ call.pc \in {"ask", "accept"}
    /\ (file.data /\ call.pc # "rest") => link.asked # "none"
    /\ call.pc \in {"ask", "accept"} => link.asked = IF call.write THEN "STOR" ELSE "RETR"
    /\ link.use \in Transfers =>
          /\ link.asked = link.use
          /\ \A i \in DOMAIN session.cmds : session.cmds[i][1] = "DELE"
          /\ ~Owed("425") /\ call.pc \notin {"type", "port", "pasv", "rest"}
    /\ link.use = "STOR" => session.xfer = "STOR" /\ link.at + Len(link.wire) = file.pos
    /\ link.use = "RETR" =>
          link.wire = <<>> /\ ("crossed" \notin excuses => link.at = file.pos)
    /\ link.use = "idle" => file.pasv /\ session.xfer = "none" /\ ~Queued("ABOR")

\* The bytes under way: they are of a file that was changed, of an upload that is
\* going on or was asked for, and follow each other up to the position.
WireInv ==
    /\ link.wire # <<>> =>
          /\ file.changed
          /\ session.xfer = "STOR" \/ (file.pasv /\ Queued("STOR"))
    /\ Len(link.wire) <= MaxSize
    /\ session.xfer = "STOR" =>
          \A j \in DOMAIN link.wire : link.wire[j].place = link.at + j - 1
    /\ link.use = "idle" =>
          /\ Len(link.wire) <= file.pos
          /\ \A j \in DOMAIN link.wire : link.wire[j].place = file.pos - Len(link.wire) + j - 1

\* The restart position is that of the file when the reply to REST is waited for.
RestInv ==
    /\ ~restOk => session.rest = 0 /\ ~Owed("350")
    /\ call.pc = "rest" =>
         IF session.cmds = <<>> THEN restOk => session.rest = file.pos
         ELSE session.cmds[Len(session.cmds)] = <<"REST", file.pos>>

\* PASV is sent, and 227 comes, when nothing else is behind it.
PasvInv ==
    /\ call.pc = "pasv" => file.pasv
    /\ call.pc = "port" => ~file.pasv
    /\ call.pc # "pasv" => ~Queued("PASV") /\ ~Owed("227")
    /\ \A i \in DOMAIN session.cmds :
          session.cmds[i][1] = "PASV" => i = Len(session.cmds) /\ ~Owed("227")
    /\ \A i \in DOMAIN session.replies :
          session.replies[i] = "227" =>
            i = Len(session.replies) /\ session.cmds = <<>> /\ session.xfer = "none"

\* Where the transfer that the client has asked for must begin.
Start == IF link.use = "idle" THEN file.pos - Len(link.wire) ELSE file.pos
Awaited == link.use = "idle" \/ (~file.pasv /\ link.use = "none")

\* Before a data connection is in use, a RETR or STOR under way is the one asked
\* for, it is the last, and will begin at Start.
AskedInv ==
    Awaited =>
      /\ \A i \in DOMAIN session.cmds : session.cmds[i][1] \in Transfers =>
           /\ file.data \/ call.pc \in {"ask", "accept"}
           /\ call.pc \notin {"type", "port", "pasv", "rest"}
           /\ session.cmds[i][1] = link.asked
           /\ \A j \in DOMAIN session.cmds : j > i => session.cmds[j][1] = "DELE"
           /\ link.use = "idle" /\ link.asked = "RETR" => link.wire = <<>>
           /\ link.asked = "STOR" \/ "crossed" \notin excuses =>
                IF i = 1 THEN session.rest = Start
                ELSE session.cmds[i - 1] = <<"REST", Start>> /\ (restOk \/ Start = 0)
      /\ Owed("425") => call.pc # "rest" /\ ~Queued("RETR") /\ ~Queued("STOR")

\* In active mode no RETR or STOR, nor its refusal, outlives the call.
ActiveInv ==
    ~file.pasv =>
      /\ call.pc \notin {"ask", "accept"} \/ link.use # "none" =>
            ~Owed("425") /\ ~Queued("RETR") /\ ~Queued("STOR")
      /\ \A i \in DOMAIN session.cmds :
            session.cmds[i][1] \in Transfers => i = Len(session.cmds)
      /\ \A i \in DOMAIN session.replies :
            session.replies[i] = "425" =>
              i = Len(session.replies) /\ session.cmds = <<>> /\ session.xfer = "none"

\* With nothing amiss: bytes are under way only while the server stores, it owes
\* nothing else and the connection is open or waited for.
QuietWire ==
    link.wire # <<>> =>
      /\ session.xfer = "STOR" /\ session.cmds = <<>> /\ session.replies = <<>>
      /\ file.data \/ call.pc \in {"confirm", "suspend"}

\* Where OpenDataConnection waits for a reply before AskFileContent.
Preparing == {"type", "port", "pasv", "rest"}

\* With nothing amiss, an upload that was asked for is going on and owes only its
\* confirmation.
QuietUpload ==
    link.asked = "STOR" /\ call.pc \notin Preparing \cup {"ask"} =>
      link.use = "STOR" /\ session.cmds = <<>> /\ session.replies = <<>>

\* With nothing amiss, STOR, its 150 or its refusal is all that is under way.
QuietAnswer ==
    link.asked = "STOR" /\ call.pc = "ask" =>
      \/ /\ session.cmds = << <<"STOR", 0>> >> /\ session.replies = <<>>
         /\ session.xfer = "none"
      \/ session.cmds = <<>> /\ link.use = "STOR" /\ session.replies = <<"150">>
      \/ /\ session.cmds = <<>> /\ session.xfer = "none"
         /\ session.replies = <<"425">> \/ session.replies = <<"550">>

\* What holds as long as nothing is amiss.
Quiet == QuietWire /\ QuietUpload /\ QuietAnswer
QuietInv == amiss = {} => Quiet

\* With no excuse nothing stale is in the cache, on the wire or given to the
\* program; a stale byte at the server has a newer one under way to it.
LatestInv ==
    excuses = {} =>
      /\ "stale" \notin call.got
      /\ \A i \in Places :
           /\ cache[i] # "stale" /\ rival[i] # "stale"
           /\ stored[i] = "stale" =>
                rival[i] = "latest" \/ \E j \in DOMAIN link.wire : link.wire[j].place = i
           /\ rival[i] # "none" => \A j \in DOMAIN link.wire : link.wire[j].place # i
      /\ \A j \in DOMAIN link.wire : link.wire[j].kind = "latest"

----------------------------------------------------------------------------
\* Every set of naturals that is not empty has a least element.
LEMMA LeastElement ==
    ASSUME NEW T \in SUBSET Nat, T # {}
    PROVE  \E x \in T : \A y \in T : x <= y
  <1> DEFINE R == OpToRel(<, Nat)
  <1>1. \E x \in T : \A y \in T : ~ (<<y, x>> \in R)
    <2> HIDE DEF R
    <2> QED
      BY NatLessThanWellFounded, WFMin, Zenon DEF R
  <1>2. \E x \in T : \A y \in T : ~ (y < x)
    BY <1>1, Zenon DEF OpToRel
  <1> QED
    BY <1>2

\* The size at the server is where its bytes end.
LEMMA SizeIs ==
    ASSUME NEW n \in 0 .. MaxSize, \A i \in Places : stored[i] # "none" <=> i < n
    PROVE  Size = n
  <1>1. {i \in Places : stored[i] # "none"} = 0 .. n - 1
    BY TransferAssumption DEF Places
  <1>2. Cardinality(0 .. n - 1) = n
    <2>1. Cardinality(0 .. n - 1) = IF 0 > n - 1 THEN 0 ELSE n - 1 - 0 + 1
      BY FS_Interval
    <2> QED
      BY <2>1, TransferAssumption
  <1> QED
    BY <1>1, <1>2, Zenon DEF Size

\* The cache gives what it has up to the first byte it lacks.
LEMMA PrefixIs ==
    ASSUME NEW p \in Nat, NEW limit \in Nat
    PROVE  /\ Prefix(p, limit) \in 0 .. limit
           /\ \A i \in p .. p + Prefix(p, limit) - 1 : cache[i] # "none"
  <1> DEFINE Good(m) == /\ \A i \in p .. p + m - 1 : cache[i] # "none"
                        /\ m = limit \/ cache[p + m] = "none"
             T == {m \in 0 .. limit : m = limit \/ cache[p + m] = "none"}
  <1>1. limit \in T /\ T \subseteq Nat
    OBVIOUS
  <1>2. PICK m \in T : \A k \in T : m <= k
    BY <1>1, LeastElement
  <1>3. m \in 0 .. limit /\ Good(m)
    <2>1. ASSUME NEW i \in p .. p + m - 1 PROVE cache[i] # "none"
      <3>1. i - p \in 0 .. limit /\ ~ (m <= i - p) /\ p + (i - p) = i
        BY <1>2
      <3> QED
        BY <1>2, <3>1
    <2> QED
      BY <1>2, <2>1
  <1>4. Prefix(p, limit) = CHOOSE k \in 0 .. limit : Good(k)
    BY DEF Prefix
  <1> HIDE DEF Good
  <1>5. Prefix(p, limit) \in 0 .. limit /\ Good(Prefix(p, limit))
    BY <1>3, <1>4
  <1> QED
    BY <1>5 DEF Good

\* Sequences of commands and replies.
LEMMA Appended ==
    ASSUME NEW S, NEW s \in Seq(S), NEW c \in S
    PROVE  /\ s \o <<c>> \in Seq(S) /\ Len(s \o <<c>>) = Len(s) + 1
           /\ \A i \in DOMAIN s : (s \o <<c>>)[i] = s[i]
           /\ (s \o <<c>>)[Len(s) + 1] = c
           /\ DOMAIN (s \o <<c>>) = 1 .. Len(s) + 1
  OBVIOUS

LEMMA Shortened ==
    ASSUME NEW S, NEW s \in Seq(S), NEW k \in 0 .. Len(s)
    PROVE  /\ SubSeq(s, k + 1, Len(s)) \in Seq(S)
           /\ Len(SubSeq(s, k + 1, Len(s))) = Len(s) - k
           /\ \A i \in 1 .. Len(s) - k : SubSeq(s, k + 1, Len(s))[i] = s[i + k]
  OBVIOUS

LEMMA Tailed ==
    ASSUME NEW S, NEW s \in Seq(S), s # <<>>
    PROVE  /\ Tail(s) \in Seq(S) /\ Len(Tail(s)) = Len(s) - 1
           /\ \A i \in 1 .. Len(s) - 1 : Tail(s)[i] = s[i + 1]
           /\ Head(s) = s[1] /\ Len(s) >= 1 /\ s[1] \in S
  OBVIOUS

----------------------------------------------------------------------------
\* What a step of the client does with commands and replies.
Sent(c) == c = <<>> \/ \E d \in Commands : c = <<d>>

LEMMA SentAppended ==
    ASSUME NEW s \in Seq(Commands), NEW c, Sent(c)
    PROVE  s \o c \in Seq(Commands)
  <1>1. CASE c = <<>>
    BY <1>1
  <1>2. ASSUME NEW d \in Commands, c = <<d>> PROVE s \o c \in Seq(Commands)
    BY <1>2, Appended
  <1> QED
    BY <1>1, <1>2 DEF Sent

\* Constants that are written into records.
LEMMA Zero == 0 \in 0 .. 3 /\ 0 \in 0 .. MaxSize /\ \A S : <<>> \in Seq(S)
  BY TransferAssumption

\* The effect of what the client does, in the terms of the types.
LEMMA GoEffect ==
    ASSUME session \in SessionType, call \in CallType, amiss \subseteq {"failed", "shifted"},
           NEW pc \in Points, NEW c, Sent(c), Go(pc, c)
    PROVE  /\ session' \in SessionType /\ session' = [session EXCEPT !.cmds = @ \o c]
           /\ call' \in CallType /\ call' = [call EXCEPT !.pc = pc, !.tries = 0]
           /\ amiss \subseteq amiss' /\ amiss' \subseteq {"failed", "shifted"}
  <1>1. session.cmds \o c \in Seq(Commands)
    BY SentAppended DEF SessionType
  <1>2. session' \in SessionType /\ session' = [session EXCEPT !.cmds = @ \o c]
    BY <1>1 DEF SessionType, Go
  <1>3. call' = [call EXCEPT !.pc = pc, !.tries = 0]
    BY DEF Go
  <1>5. call' \in CallType
    BY <1>3, Zero DEF CallType
  <1>4. amiss \subseteq amiss' /\ amiss' \subseteq {"failed", "shifted"}
    BY DEF Go, Amiss, Shifted
  <1> QED
    BY <1>2, <1>3, <1>4, <1>5

LEMMA ArrivalsAre ==
    ASSUME session \in SessionType, NEW k \in Arrivals
    PROVE  /\ k \in 0 .. Len(session.replies) /\ k \in Nat
           /\ k = 0 => Response(k) = "timeout" /\ session.replies = <<>>
           /\ k # 0 => Response(k) = session.replies[k] /\ Response(k) \in Codes
  BY DEF SessionType, Arrivals, Response

LEMMA TookEffect ==
    ASSUME session \in SessionType, call \in CallType, amiss \subseteq {"failed", "shifted"},
           NEW k \in Arrivals, NEW pc \in Points, NEW c, Sent(c), Took(k, pc, c)
    PROVE  /\ session' \in SessionType
           /\ session' = [session EXCEPT !.replies = SubSeq(@, k + 1, Len(@)),
                                         !.cmds = @ \o c]
           /\ call' \in CallType
           /\ call' = [call EXCEPT !.pc = pc, !.tries = call'.tries]
           /\ amiss \subseteq amiss' /\ amiss' \subseteq {"failed", "shifted"}
  <1>1. session.cmds \o c \in Seq(Commands)
    BY SentAppended DEF SessionType
  <1>2. SubSeq(session.replies, k + 1, Len(session.replies)) \in Seq(Codes)
    BY ArrivalsAre, Shortened DEF SessionType
  <1>3. /\ session' = [session EXCEPT !.replies = SubSeq(@, k + 1, Len(@)),
                                      !.cmds = @ \o c]
        /\ session' \in SessionType
    BY <1>1, <1>2 DEF SessionType, Took
  <1> DEFINE tries == IF pc = call.pc THEN Lesser(3, call.tries + 1) ELSE 0
  <1>4. tries \in 0 .. 3 /\ call' = [call EXCEPT !.pc = pc, !.tries = tries]
    BY DEF CallType, Took, Lesser
  <1> HIDE DEF tries
  <1>5. call' \in CallType /\ call' = [call EXCEPT !.pc = pc, !.tries = call'.tries]
    BY <1>4 DEF CallType
  <1>6. amiss \subseteq amiss' /\ amiss' \subseteq {"failed", "shifted"}
    BY DEF Took, Amiss, Shifted
  <1> QED
    BY <1>3, <1>5, <1>6

LEMMA Starts ==
    NoCall \in CallType /\ NoSession \in SessionType /\ NoLink \in LinkType
  <1> USE TransferAssumption
  <1>1. NoCall \in CallType
    BY DEF NoCall, CallType, Points
  <1>2. NoSession \in SessionType
    BY DEF NoSession, SessionType
  <1>3. NoLink \in LinkType
    BY DEF NoLink, LinkType
  <1> QED
    BY <1>1, <1>2, <1>3

Excuses == {"lost", "crossed", "overtaken"}

LEMMA ResetEffect ==
    ASSUME Types, FileResetOnError
    PROVE  /\ file' \in FileType /\ file' = [file EXCEPT !.cmd = FALSE, !.data = FALSE]
           /\ call' \in CallType /\ call' = NoCall
           /\ session' \in SessionType /\ session' = NoSession
           /\ link' \in LinkType /\ link' = NoLink
           /\ excuses' = excuses \cup Lost(link.wire) /\ excuses' \subseteq Excuses
           /\ amiss' = amiss \cup {"failed"} /\ amiss' \subseteq {"failed", "shifted"}
           /\ UNCHANGED <<stored, cache, rival, restOk, left>>
  <1>1. file' \in FileType /\ file' = [file EXCEPT !.cmd = FALSE, !.data = FALSE]
    BY DEF Types, FileType, FileResetOnError
  <1>2. call' = NoCall /\ session' = NoSession /\ link' = NoLink
    BY DEF FileResetOnError
  <1>3. /\ excuses' = excuses \cup Lost(link.wire) /\ excuses' \subseteq Excuses
        /\ amiss' = amiss \cup {"failed"} /\ amiss' \subseteq {"failed", "shifted"}
    BY DEF FileResetOnError, Types, Excuse, Lost, Amiss, Excuses
  <1>4. UNCHANGED <<stored, cache, rival, restOk, left>>
    BY DEF FileResetOnError, disk
  <1> QED
    BY <1>1, <1>2, <1>3, <1>4, Starts, Zenon

LEMMA ClosesEffect ==
    ASSUME Types, Closes
    PROVE  /\ link' \in LinkType
           /\ link' = [link EXCEPT !.use = "none", !.asked = "none", !.old = {},
                                   !.wire = IF file.changed THEN @ ELSE <<>>]
           /\ excuses \subseteq excuses' /\ excuses' \subseteq Excuses
           /\ link'.wire # link.wire => "lost" \in excuses'
           /\ link'.wire = link.wire => excuses' = excuses
  <1>1. link' = [link EXCEPT !.use = "none", !.asked = "none", !.old = {},
                             !.wire = IF file.changed THEN @ ELSE <<>>]
    BY DEF Closes, CloseDataSocket
  <1>3. link' \in LinkType
    <2>1. CASE file.changed
      BY <1>1, <2>1 DEF Types, LinkType
    <2>2. CASE ~file.changed
      BY <1>1, <2>2, Zero DEF Types, LinkType
    <2> QED
      BY <2>1, <2>2
  <1>2. excuses' = excuses \cup IF link'.wire = link.wire THEN {} ELSE {"lost"}
    BY DEF Closes, Excuse
  <1> QED
    BY <1>1, <1>2, <1>3 DEF Types, Excuses

\* All that the client sends is a command or nothing.
LEMMA Sends ==
    /\ Sent(<<>>) /\ Sent(Abor) /\ Sent(<< <<"DELE", 0>> >>) /\ Sent(<< <<"TYPE", 0>> >>)
    /\ Sent(<< <<"PORT", 0>> >>) /\ Sent(<< <<"PASV", 0>> >>)
    /\ \A w : Sent(<< <<IF w THEN "STOR" ELSE "RETR", 0>> >>)
    /\ Types => Sent(Rest)
  <1>1. \A v \in Verbs : \A n \in 0 .. MaxSize : Sent(<< <<v, n>> >>)
    BY DEF Sent, Commands
  <1>2. 0 \in 0 .. MaxSize
    BY TransferAssumption
  <1>3. Types => file.pos \in 0 .. MaxSize
    BY DEF Types, FileType
  <1>4. Sent(<<>>)
    BY DEF Sent
  <1> QED
    BY <1>1, <1>2, <1>3, <1>4 DEF Abor, Rest, Verbs

\* One more reply.
LEMMA Replied ==
    ASSUME NEW c \in Codes, NEW s \in Seq(Codes)
    PROVE  /\ Append(s, c) \in Seq(Codes) /\ Len(Append(s, c)) = Len(s) + 1
           /\ Append(s, c)[Len(s) + 1] = c
           /\ \A i \in 1 .. Len(s) : Append(s, c)[i] = s[i]
  OBVIOUS

\* What a step of the server does.
LEMMA HandlesEffect ==
    ASSUME session \in SessionType, NEW v, NEW r \in Seq(Codes), Handles(v, r)
    PROVE  /\ session' \in SessionType
           /\ session.cmds # <<>> /\ session.cmds[1][1] = v
           /\ session.xfer = "none" \/ v = "ABOR"
           /\ session'.cmds = Tail(session.cmds)
           /\ session'.replies = session.replies \o r
           /\ session'.rest = IF v = "REST" /\ restOk THEN session.cmds[1][2] ELSE session.rest
           /\ session'.xfer = IF v = "ABOR" THEN "none" ELSE session.xfer
  <1>1. /\ session.cmds \in Seq(Commands) /\ session.replies \in Seq(Codes)
        /\ session.rest \in 0 .. MaxSize /\ session.xfer \in {"none"} \cup Transfers
    BY DEF SessionType
  <1>2. session.cmds # <<>> /\ (session.xfer = "none" \/ v = "ABOR")
    BY DEF Handles
  <1>3. /\ Tail(session.cmds) \in Seq(Commands) /\ Head(session.cmds) = session.cmds[1]
        /\ session.cmds[1] \in Commands
    BY <1>1, <1>2, Tailed
  <1>4. session.cmds[1][1] = v /\ session.cmds[1][2] \in 0 .. MaxSize
    BY <1>3 DEF Handles, Commands
  <1>5. session.replies \o r \in Seq(Codes)
    BY <1>1
  <1> DEFINE n == IF v = "REST" /\ restOk THEN session.cmds[1][2] ELSE session.rest
             x == IF v = "ABOR" THEN "none" ELSE session.xfer
  <1>6. n \in 0 .. MaxSize /\ x \in {"none"} \cup Transfers
    BY <1>1, <1>4
  <1>7. session' = [session EXCEPT !.cmds = Tail(session.cmds),
                                   !.replies = session.replies \o r, !.rest = n, !.xfer = x]
    BY <1>3 DEF Handles
  <1> HIDE DEF n, x
  <1>8. /\ session' \in SessionType /\ session'.cmds = Tail(session.cmds)
        /\ session'.replies = session.replies \o r /\ session'.rest = n /\ session'.xfer = x
    BY <1>3, <1>5, <1>6, <1>7 DEF SessionType
  <1> QED
    BY <1>2, <1>4, <1>8 DEF n, x

\* The replies the server gives.
LEMMA Answers ==
    /\ <<"200">> \in Seq(Codes) /\ <<"227">> \in Seq(Codes) /\ <<"250">> \in Seq(Codes)
    /\ <<"550">> \in Seq(Codes) /\ <<"225">> \in Seq(Codes) /\ <<"226 ABOR">> \in Seq(Codes)
    /\ <<"426", "226 ABOR">> \in Seq(Codes)
    /\ <<IF restOk THEN "350" ELSE "502">> \in Seq(Codes)
  BY DEF Codes

LEMMA SimpleEffect ==
    ASSUME session \in SessionType, HandleSimple
    PROVE  \E v \in {"TYPE", "PORT", "PASV", "REST"}, c \in Codes :
              /\ Handles(v, <<c>>)
              /\ v = "PASV" <=> c = "227"
              /\ c = "350" => restOk
              /\ c \notin {"425", "150", "550"}
  <1>1. CASE Handles("TYPE", <<"200">>)
    BY <1>1 DEF Codes
  <1>2. CASE Handles("PORT", <<"200">>)
    BY <1>2 DEF Codes
  <1>3. CASE Handles("PASV", <<"227">>)
    BY <1>3 DEF Codes
  <1>4. CASE Handles("REST", <<IF restOk THEN "350" ELSE "502">>)
    BY <1>4 DEF Codes
  <1> QED
    BY <1>1, <1>2, <1>3, <1>4 DEF HandleSimple

\* A new transfer, or the refusal of one.
Begins(command) ==
    /\ link.use = (IF file.pasv THEN "idle" ELSE "none")
    /\ session' = [session EXCEPT !.cmds = Tail(@), !.replies = Append(@, "150"),
                                  !.xfer = command, !.rest = 0]
    /\ link' = [link EXCEPT !.use = command, !.at = session.rest, !.old = {}]
    /\ stored' = IF command = "STOR" /\ session.rest = 0 THEN [i \in Places |-> "none"]
                 ELSE stored
    /\ UNCHANGED excuses

\* The server refuses a transfer.
Refuses(reply) ==
    /\ session' = [session EXCEPT !.cmds = Tail(@), !.replies = Append(@, reply), !.rest = 0]
    /\ link' = [link EXCEPT !.wire = <<>>]
    /\ Excuse(Lost(link.wire))
    /\ UNCHANGED stored

\* The effect of RETR and STOR, and of the end of a transfer.
LEMMA TransferEffect ==
    ASSUME session \in SessionType, link \in LinkType,
           NEW v \in Transfers, HandleTransfer(v)
    PROVE  /\ session.cmds # <<>> /\ session.cmds[1][1] = v /\ session.xfer = "none"
           /\ session' \in SessionType /\ link' \in LinkType
           /\ session'.cmds = Tail(session.cmds) /\ session'.rest = 0
           /\ \/ Begins(v)
              \/ \E reply \in {"425", "550"} : Refuses(reply)
           /\ UNCHANGED <<file, call, cache, rival, restOk, amiss, left>>
  <1>1. /\ session.cmds \in Seq(Commands) /\ session.replies \in Seq(Codes)
        /\ session.rest \in 0 .. MaxSize /\ link.wire \in Seq(Bytes)
    BY DEF SessionType, LinkType
  <1>2. session.cmds # <<>> /\ session.xfer = "none"
    BY DEF HandleTransfer
  <1>3. /\ Tail(session.cmds) \in Seq(Commands) /\ Head(session.cmds) = session.cmds[1]
    BY <1>1, <1>2, Tailed
  <1>4. session.cmds[1][1] = v
    BY <1>3 DEF HandleTransfer
  <1>5. \A c \in {"150", "425", "550"} : Append(session.replies, c) \in Seq(Codes)
    <2>1. \A c \in Codes : Append(session.replies, c) \in Seq(Codes)
      BY <1>1, Replied
    <2> QED
      BY <2>1 DEF Codes
  <1>6. Begins(v) \/ \E reply \in {"425", "550"} : Refuses(reply)
    BY DEF HandleTransfer, Begins, Refuses
  <1>7. ASSUME Begins(v) PROVE session' \in SessionType /\ link' \in LinkType
                               /\ session'.cmds = Tail(session.cmds) /\ session'.rest = 0
    BY <1>1, <1>3, <1>5, <1>7, Zero DEF Begins, SessionType, LinkType
  <1>8. ASSUME NEW reply \in {"425", "550"}, Refuses(reply)
        PROVE  session' \in SessionType /\ link' \in LinkType
               /\ session'.cmds = Tail(session.cmds) /\ session'.rest = 0
    BY <1>1, <1>3, <1>5, <1>8, Zero DEF Refuses, SessionType, LinkType
  <1>9. UNCHANGED <<file, call, cache, rival, restOk, amiss, left>>
    BY DEF HandleTransfer
  <1> QED
    BY <1>2, <1>4, <1>6, <1>7, <1>8, <1>9

LEMMA EndEffect ==
    ASSUME session \in SessionType, EndTransfer
    PROVE  \E reply \in {"226", "426"} :
              /\ session' \in SessionType
              /\ session' = [session EXCEPT !.xfer = "none", !.replies = Append(@, reply)]
              /\ \/ session.xfer = "RETR"
                 \/ session.xfer = "STOR" /\ link.use # "STOR" /\ link.wire = <<>>
              /\ UNCHANGED <<file, call, link, disk, restOk, excuses, amiss, left>>
  <1>1. PICK reply \in {"226", "426"} :
              session' = [session EXCEPT !.xfer = "none", !.replies = Append(@, reply)]
    BY DEF EndTransfer
  <1>2. Append(session.replies, reply) \in Seq(Codes)
    <2>1. reply \in Codes /\ session.replies \in Seq(Codes)
      BY DEF SessionType, Codes
    <2> QED
      BY <2>1, Replied
  <1>3. session' \in SessionType
    BY <1>1, <1>2 DEF SessionType
  <1> QED
    BY <1>1, <1>3 DEF EndTransfer

----------------------------------------------------------------------------
\* The steps that take replies, by what they do next: take more, go on, or end
\* the call.
Still == UNCHANGED <<stored, rival, restOk, excuses, left>>

\* A reply that is skipped; a reply that is followed by the next command, with
\* nothing else changed; and, one by one, those that change more.
Skips(k) ==
    /\ call.pc \in {"removed", "aborted", "type", "port", "pasv", "rest", "ask"}
    /\ k > 0
    /\ call.pc = "ask" => Response(k) \in {"426", "350", "226 ABOR"}
    /\ Took(k, call.pc, <<>>)
    /\ UNCHANGED <<file, link, cache>> /\ Still

Moves(k) ==
    /\ UNCHANGED <<file, link, cache>> /\ Still
    /\ \/ call.pc = "confirm" /\ Took(k, "aborted", Abor)
       \/ call.pc = "aborted" /\ Took(k, "seek", <<>>)
       \/ call.pc = "type" /\ ~file.pasv /\ Took(k, "port", << <<"PORT", 0>> >>)
       \/ call.pc = "port" /\ Took(k, "rest", Rest)
       \/ /\ call.pc = "ask" /\ Took(k, "accept", <<>>)
          /\ Response(k) \notin {"425", "450", "550"}

Removes(k) ==
    /\ call.pc = "removed" /\ Took(k, "begin", <<>>)
    /\ cache' \in {cache, [i \in Places |-> "none"]}
    /\ UNCHANGED <<file, link>> /\ Still

FallsBack(k) ==
    /\ call.pc = "type" /\ Took(k, "pasv", << <<"PASV", 0>> >>)
    /\ file' = [file EXCEPT !.pasv = TRUE]
    /\ UNCHANGED <<link, cache>> /\ Still

Connects(k) ==
    /\ call.pc = "pasv" /\ k > 0 /\ Response(k) = "227"
    /\ file' = [file EXCEPT !.data = TRUE]
    /\ link' = [link EXCEPT !.use = "idle"]
    /\ Took(k, "rest", Rest)
    /\ UNCHANGED cache /\ Still

Wanted == IF call.write THEN "STOR" ELSE "RETR"

Asks(k) ==
    /\ call.pc = "rest" /\ (Response(k) \in {"350", "110"} \/ file.pos = 0)
    /\ link' = [link EXCEPT !.asked = Wanted]
    /\ Took(k, "ask", << <<Wanted, 0>> >>)
    /\ UNCHANGED <<file, cache>> /\ Still

AsksAgain(k) ==
    /\ call.pc = "ask" /\ k > 0 /\ Response(k) = "425" /\ ~call.retry
    /\ session' = [session EXCEPT !.replies = SubSeq(@, k + 1, Len(@)),
                                  !.cmds = @ \o << <<"TYPE", 0>> >>]
    /\ call' = [call EXCEPT !.pc = "type", !.tries = 0, !.retry = TRUE]
    /\ Amiss(Shifted(k, << <<"TYPE", 0>> >>))
    /\ UNCHANGED <<file, link, cache>> /\ Still

Suspends(k) ==
    /\ call.pc = "suspend" /\ Took(k, IF call.left > 0 THEN "begin" ELSE "idle", <<>>)
    /\ file' = [file EXCEPT !.cmd = FALSE]
    /\ UNCHANGED <<link, cache>> /\ Still

\* A step of the client that takes replies.
TakesReplies ==
    \/ \E k \in Arrivals :
        \/ Skips(k) \/ Moves(k) \/ Removes(k) \/ FallsBack(k) \/ Connects(k)
        \/ Asks(k) \/ AsksAgain(k) \/ Suspends(k)
    \/ FileResetOnError

LEMMA RepliesTaken ==
    ASSUME session \in SessionType,
           \/ Removed \/ Confirmed \/ Aborted \/ TypeAnswered \/ PortAnswered
           \/ PasvAnswered \/ RestAnswered \/ AskAnswered \/ SuspendedFile
    PROVE  TakesReplies
  <1>1. ASSUME NEW k \in Arrivals, NEW codes, Skipped(k, codes), "timeout" \notin codes
        PROVE  k > 0
    <2>1. k = 0 => Response(k) = "timeout"
      BY ArrivalsAre
    <2>2. k \in Nat
      BY ArrivalsAre
    <2>3. Response(k) # "timeout"
      BY <1>1 DEF Skipped
    <2> QED
      BY <2>1, <2>2, <2>3
  <1>2. ASSUME NEW k \in Arrivals, Response(k) \in Codes PROVE k > 0
    <2>1. k \in Nat /\ (k = 0 => Response(k) = "timeout")
      BY ArrivalsAre
    <2>2. Response(k) # "timeout"
      BY <1>2 DEF Codes
    <2> QED
      BY <2>1, <2>2
  <1> USE DEF Still, disk
  <1>3. ASSUME Removed PROVE TakesReplies
    <2>1. PICK k \in Arrivals :
            IF Skipped(k, {"225", "426"}) THEN Took(k, "removed", <<>>) /\ UNCHANGED cache
            ELSE /\ Took(k, "begin", <<>>)
                 /\ cache' = IF SendCmdSucceeds(k) THEN [i \in Places |-> "none"] ELSE cache
      BY <1>3 DEF Removed
    <2>2. CASE Skipped(k, {"225", "426"})
      BY <1>1, <1>3, <2>1, <2>2 DEF Removed, Skips, TakesReplies
    <2>3. CASE ~Skipped(k, {"225", "426"})
      BY <1>3, <2>1, <2>3 DEF Removed, Removes, TakesReplies
    <2> QED
      BY <2>2, <2>3
  <1>4. ASSUME Confirmed PROVE TakesReplies
    BY <1>4 DEF Confirmed, Moves, TakesReplies
  <1>5. ASSUME Aborted PROVE TakesReplies
    <2>1. PICK k \in Arrivals :
            IF call.tries = 0 /\ Response(k) = "550" THEN Took(k, "aborted", <<>>)
            ELSE Took(k, "seek", <<>>)
      BY <1>5 DEF Aborted
    <2>2. Response(k) = "550" => k > 0
      BY <1>2 DEF Codes
    <2> QED
      BY <1>5, <2>1, <2>2 DEF Aborted, Skips, Moves, TakesReplies
  <1>6. ASSUME TypeAnswered PROVE TakesReplies
    <2> DEFINE C == {"425", "426", "225", "550", "250", "350", "110", "150", "450"}
    <2>1. PICK k \in Arrivals :
            IF Skipped(k, C)
            THEN Took(k, "type", <<>>) /\ UNCHANGED file
            ELSE \/ ~file.pasv /\ Took(k, "port", << <<"PORT", 0>> >>) /\ UNCHANGED file
                 \/ Took(k, "pasv", << <<"PASV", 0>> >>) /\ file' = [file EXCEPT !.pasv = TRUE]
      BY <1>6 DEF TypeAnswered
    <2>2. Skipped(k, C) => k > 0
      BY <1>1
    <2> HIDE DEF C
    <2> QED
      BY <1>6, <2>1, <2>2 DEF TypeAnswered, Skips, Moves, FallsBack, TakesReplies
  <1>7. ASSUME PortAnswered PROVE TakesReplies
    <2>1. PICK k \in Arrivals :
            IF Response(k) = "226 ABOR" THEN Took(k, "port", <<>>) ELSE Took(k, "rest", Rest)
      BY <1>7 DEF PortAnswered
    <2>2. Response(k) = "226 ABOR" => k > 0
      BY <1>2 DEF Codes
    <2> QED
      BY <1>7, <2>1, <2>2 DEF PortAnswered, Skips, Moves, TakesReplies
  <1>8. ASSUME PasvAnswered PROVE TakesReplies
    <2>1. \A k \in Arrivals : Response(k) = "227" => k > 0
      BY <1>2 DEF Codes
    <2> QED
      BY <1>8, <2>1 DEF PasvAnswered, Skips, Connects, TakesReplies
  <1>9. ASSUME RestAnswered PROVE TakesReplies
    <2>1. \A k \in Arrivals : Skipped(k, {"426"}) => k > 0
      BY <1>1
    <2> QED
      BY <1>9, <2>1 DEF RestAnswered, Skips, Asks, Wanted, TakesReplies
  <1>10. ASSUME AskAnswered PROVE TakesReplies
    <2>1. \A k \in Arrivals : Skipped(k, {"426", "350"}) => k > 0
      BY <1>1
    <2>2. \A k \in Arrivals : Response(k) = "425" => k > 0
      BY <1>2 DEF Codes
    <2>3. \A k \in Arrivals : Skipped(k, {"426", "350"}) =>
            Response(k) \in {"426", "350", "226 ABOR"}
      BY DEF Skipped
    <2> QED
      BY <1>10, <2>1, <2>2, <2>3 DEF AskAnswered, Skips, Moves, AsksAgain, TakesReplies
  <1>11. ASSUME SuspendedFile PROVE TakesReplies
    BY <1>11 DEF SuspendedFile, Suspends, TakesReplies
  <1> QED
    BY <1>3, <1>4, <1>5, <1>6, <1>7, <1>8, <1>9, <1>10, <1>11

----------------------------------------------------------------------------
\* Types.
Received(m) ==
    /\ ~call.write /\ Receive(m)
    /\ \/ call.pc = "seek" /\ file.pos + m <= call.target
       \/ call.pc = "transfer" /\ m <= call.left

\* The types of the fields that the proofs name.
LEMMA Fields ==
    ASSUME Types
    PROVE  /\ file.pos \in 0 .. MaxSize /\ file.size \in 0 .. MaxSize
           /\ file.changed \in BOOLEAN /\ file.pasv \in BOOLEAN /\ file.data \in BOOLEAN
           /\ call.pc \in Points /\ call.target \in 0 .. MaxSize /\ call.left \in 0 .. MaxSize
           /\ session.cmds \in Seq(Commands) /\ session.replies \in Seq(Codes)
           /\ session.rest \in 0 .. MaxSize /\ session.xfer \in {"none"} \cup Transfers
           /\ link.at \in 0 .. MaxSize /\ link.wire \in Seq(Bytes) /\ link.old \subseteq Places
           /\ MaxSize \in Nat /\ MaxSize # 0
  <1>1. file \in FileType /\ call \in CallType /\ session \in SessionType /\ link \in LinkType
    BY DEF Types
  <1>2. MaxSize \in Nat /\ MaxSize # 0
    BY TransferAssumption
  <1>3. /\ file.pos \in 0 .. MaxSize /\ file.size \in 0 .. MaxSize
        /\ file.changed \in BOOLEAN /\ file.pasv \in BOOLEAN /\ file.data \in BOOLEAN
    BY <1>1 DEF FileType
  <1>4. call.pc \in Points /\ call.target \in 0 .. MaxSize /\ call.left \in 0 .. MaxSize
    BY <1>1 DEF CallType
  <1>5. /\ session.cmds \in Seq(Commands) /\ session.replies \in Seq(Codes)
        /\ session.rest \in 0 .. MaxSize /\ session.xfer \in {"none"} \cup Transfers
    BY <1>1 DEF SessionType
  <1>6. link.at \in 0 .. MaxSize /\ link.wire \in Seq(Bytes) /\ link.old \subseteq Places
    BY <1>1 DEF LinkType
  <1> QED
    BY <1>2, <1>3, <1>4, <1>5, <1>6

\* A call that is counted.
LEMMA Counted ==
    ASSUME Types, NEW c \in 0 .. left.calls, NEW o \in 0 .. left.others,
           left' = [left EXCEPT !.calls = c, !.others = o]
    PROVE  /\ left' \in [size : 1 .. MaxSize, calls : Nat, others : Nat]
           /\ left'.size = left.size
           /\ \E b \in Bounds :
                left' \in [size : {b.size}, calls : 0 .. b.calls, others : 0 .. b.others]
  <1>1. PICK b \in Bounds :
            left \in [size : {b.size}, calls : 0 .. b.calls, others : 0 .. b.others]
    BY DEF Types
  <1>2. b.calls \in Nat /\ b.others \in Nat
    BY TransferAssumption
  <1>3. c \in Nat /\ c \in 0 .. b.calls /\ o \in Nat /\ o \in 0 .. b.others
    BY <1>1, <1>2
  <1>4. left' \in [size : {b.size}, calls : 0 .. b.calls, others : 0 .. b.others]
    BY <1>1, <1>3
  <1>5. left' \in [size : 1 .. MaxSize, calls : Nat, others : Nat] /\ left'.size = left.size
    BY <1>3 DEF Types
  <1> QED
    BY <1>4, <1>5

\* A call that begins.
LEMMA ReadFileTypes ==
    ASSUME Types, NEW p \in Places, NEW n \in 1 .. MaxSize, ReadFile(p, n)
    PROVE  /\ Types' /\ call'.target + call'.left <= MaxSize
           /\ call'.pc \in {"idle", "seek"} /\ ~call'.write
           /\ \A x \in call'.got : \E i \in Places : x = cache[i]
           /\ \A i \in Places : cache'[i] \in {cache[i], "none"}
           /\ UNCHANGED <<file, session, link, stored, rival, restOk, excuses, amiss>>
  <1> DEFINE len   == Lesser(n, file.size - p)
             limit == IF p < file.pos /\ file.pos < p + len THEN file.pos - p ELSE len
  <1>1. /\ p \in Nat /\ p < MaxSize /\ p < file.size
        /\ left.calls \in Nat /\ left.calls > 0
    BY TransferAssumption DEF ReadFile, Places, Types
  <1>2. len \in 1 .. MaxSize /\ p + len <= file.size /\ limit \in 0 .. len
    <2>1. /\ MaxSize \in Nat /\ file.size \in 0 .. MaxSize /\ file.pos \in 0 .. MaxSize
          /\ p \in 0 .. MaxSize /\ p < file.size
      BY <1>1, Fields
    <2>2. len \in 1 .. MaxSize /\ p + len <= file.size
      BY <2>1 DEF Lesser
    <2> HIDE DEF len
    <2>3. limit \in 0 .. len
      BY <2>1, <2>2
    <2> QED
      BY <2>2, <2>3
  <1>3. PICK m \in 0 .. (IF file.pos = p /\ file.data THEN 0 ELSE Prefix(p, limit)) :
        /\ cache' = IF m < len THEN [cache EXCEPT ![p + m] = "none"] ELSE cache
        /\ call' = [NoCall EXCEPT !.pc = IF m = len THEN "idle" ELSE "seek",
                                  !.target = IF m = len THEN 0 ELSE p + m,
                                  !.left = len - m,
                                  !.got = {cache[i] : i \in p .. p + m - 1}]
    BY DEF ReadFile
  <1> HIDE DEF len, limit
  <1>4. m \in 0 .. len /\ \A i \in p .. p + m - 1 : cache[i] # "none"
    <2>1. limit \in Nat /\ len \in Nat
      BY <1>2, Fields
    <2>2. /\ Prefix(p, limit) \in 0 .. limit
          /\ \A i \in p .. p + Prefix(p, limit) - 1 : cache[i] # "none"
      BY <1>1, <2>1, PrefixIs
    <2>3. CASE file.pos = p /\ file.data
      <3>1. m = 0
        BY <1>3, <2>3
      <3> QED
        BY <1>1, <2>1, <3>1
    <2>4. CASE ~(file.pos = p /\ file.data)
      <3>1. m \in 0 .. Prefix(p, limit)
        BY <1>3, <2>4
      <3> QED
        BY <1>1, <1>2, <2>1, <2>2, <3>1
    <2> QED
      BY <2>3, <2>4
  <1>5. \A i \in p .. p + m - 1 : i \in Places /\ cache[i] \in Given
    <2>1. \A i \in p .. p + m - 1 : i \in Places
      BY <1>1, <1>2, <1>4, Fields DEF Places
    <2>2. \A i \in Places : cache[i] \in Cached
      BY DEF Types
    <2> SUFFICES ASSUME NEW i \in p .. p + m - 1
                 PROVE  i \in Places /\ cache[i] \in Given
      OBVIOUS
    <2>3. i \in Places /\ cache[i] # "none"
      BY <1>4, <2>1, Zenon
    <2> QED
      BY <2>2, <2>3 DEF Contents, Cached, Given
  <1> DEFINE pc == IF m = len THEN "idle" ELSE "seek"
             target == IF m = len THEN 0 ELSE p + m
             got == {cache[i] : i \in p .. p + m - 1}
  <1>6. /\ pc \in Points /\ target \in 0 .. MaxSize /\ len - m \in 0 .. MaxSize
        /\ target + (len - m) <= MaxSize
    BY <1>1, <1>2, <1>4, Fields DEF Points
  <1>7. got \in SUBSET Given /\ \A x \in got : \E i \in Places : x = cache[i]
    BY <1>5
  <1>8. call' = [NoCall EXCEPT !.pc = pc, !.target = target, !.left = len - m, !.got = got]
    BY <1>3
  <1> HIDE DEF pc, target, got
  <1>9. /\ call' \in CallType /\ call'.target = target /\ call'.left = len - m
        /\ call'.got = got /\ call'.pc = pc /\ call'.write = FALSE
    BY <1>6, <1>7, <1>8, Starts DEF CallType, NoCall
  <1>10. cache' \in [Places -> Cached] /\ \A i \in Places : cache'[i] \in {cache[i], "none"}
    BY <1>3 DEF Types, Contents, Cached
  <1>11. /\ left' \in [size : 1 .. MaxSize, calls : Nat, others : Nat] /\ left'.size = left.size
         /\ \E b \in Bounds :
              left' \in [size : {b.size}, calls : 0 .. b.calls, others : 0 .. b.others]
    <2>1. left \in [size : 1 .. MaxSize, calls : Nat, others : Nat]
      BY DEF Types
    <2>2. left.calls - 1 \in 0 .. left.calls /\ left.others \in 0 .. left.others
      BY <1>1, <2>1
    <2>3. left' = [left EXCEPT !.calls = left.calls - 1, !.others = left.others]
      BY <2>1 DEF ReadFile
    <2> QED
      BY <2>2, <2>3, Counted
  <1>12. UNCHANGED <<file, session, link, stored, rival, restOk, excuses, amiss>>
    BY DEF ReadFile
  <1>13. Types'
    BY <1>9, <1>10, <1>11, <1>12 DEF Types
  <1> QED
    BY <1>6, <1>7, <1>9, <1>10, <1>12, <1>13 DEF pc

\* A write that begins.
LEMMA WriteFileTypes ==
    ASSUME Types, NEW p \in Places, NEW n \in 1 .. MaxSize, WriteFile(p, n)
    PROVE  /\ Types' /\ call'.target + call'.left <= MaxSize
           /\ call' = [NoCall EXCEPT !.pc = IF p = 0 THEN "remove" ELSE "begin",
                                     !.write = TRUE, !.target = p, !.left = n]
           /\ UNCHANGED <<file, session, link, stored, cache, rival, restOk, excuses, amiss>>
  <1>1. /\ p \in 0 .. MaxSize /\ n \in 0 .. MaxSize /\ p + n <= left.size
        /\ left.calls \in Nat /\ left.calls > 0
        /\ left \in [size : 1 .. MaxSize, calls : Nat, others : Nat]
    BY TransferAssumption DEF WriteFile, Places, Types
  <1> DEFINE pc == IF p = 0 THEN "remove" ELSE "begin"
  <1>2. pc \in Points
    BY DEF Points
  <1>3. call' = [NoCall EXCEPT !.pc = pc, !.write = TRUE, !.target = p, !.left = n]
    BY DEF WriteFile
  <1> HIDE DEF pc
  <1>4. call' \in CallType /\ call'.target = p /\ call'.left = n
    BY <1>1, <1>2, <1>3, Starts DEF CallType, NoCall
  <1>5. /\ left' \in [size : 1 .. MaxSize, calls : Nat, others : Nat] /\ left'.size = left.size
        /\ \E b \in Bounds :
             left' \in [size : {b.size}, calls : 0 .. b.calls, others : 0 .. b.others]
    <2>1. left.calls - 1 \in 0 .. left.calls /\ left.others \in 0 .. left.others
      BY <1>1
    <2>2. left' = [left EXCEPT !.calls = left.calls - 1, !.others = left.others]
      BY <1>1 DEF WriteFile
    <2> QED
      BY <2>1, <2>2, Counted
  <1>6. UNCHANGED <<file, session, link, stored, cache, rival, restOk, excuses, amiss>>
    BY DEF WriteFile, disk
  <1>7. Types'
    BY <1>4, <1>5, <1>6 DEF Types
  <1>8. p + n <= MaxSize
    BY <1>1, Fields
  <1> QED
    BY <1>3, <1>4, <1>6, <1>7, <1>8 DEF pc

\* What is received is in the file, and belongs to it at the server.
LEMMA ReceivedTypes ==
    ASSUME Types, CallInv, Dense, NEW m \in 1 .. MaxSize, Received(m)
    PROVE  /\ Types' /\ call'.target + call'.left <= MaxSize
           /\ file.data /\ link.use = "RETR"
           /\ file.pos + m \in 1 .. MaxSize
           /\ file' = [file EXCEPT !.pos = file.pos + m]
           /\ link' = [link EXCEPT !.at = link.at + m]
           /\ \/ call.pc = "seek" /\ call' = call
              \/ /\ call.pc = "transfer" /\ call'.left = call.left - m
                 /\ call'.pc = call.pc /\ call'.write = call.write
                 /\ call'.target = call.target /\ call'.retry = call.retry
           /\ UNCHANGED <<session, stored, rival, restOk, amiss, left>>
           /\ excuses \subseteq excuses'
           /\ \E aged \in SUBSET (link.old \cap file.pos .. file.pos + m - 1),
                 missed \in SUBSET Places :
              LET new  == file.pos .. file.pos + m - 1
                  kind == [i \in Places |-> IF link.at = file.pos /\ i \notin aged
                                            THEN stored[i] ELSE "stale"] IN
                /\ cache' = [i \in Places |-> IF i \in new \ missed /\ ~file.nocache THEN kind[i]
                                              ELSE cache[i]]
                /\ call' = IF call.pc = "seek" THEN call
                           ELSE [call EXCEPT !.left = @ - m,
                                             !.got = @ \cup {kind[i] : i \in new}]
                /\ excuses' = excuses \cup
                    IF new \cap (link.old \cup {i \in Places : rival[i] # "none"}) = {}
                    THEN {} ELSE {"overtaken"}
  <1> DEFINE new  == file.pos .. file.pos + m - 1
             kind(aged) == [i \in Places |-> IF link.at = file.pos /\ i \notin aged
                                             THEN stored[i] ELSE "stale"]
             cause == IF new \cap (link.old \cup {i \in Places : rival[i] # "none"}) = {}
                      THEN {} ELSE {"overtaken"}
  <1>2. /\ file.data /\ link.use = "RETR" /\ link.at + m <= Size
        /\ file' = [file EXCEPT !.pos = file.pos + m]
        /\ link' = [link EXCEPT !.at = link.at + m]
        /\ UNCHANGED <<session, stored, rival, restOk, amiss, left>>
    BY DEF Received, Receive
  <1>20. \/ call.pc = "seek" /\ file.pos + m <= call.target
         \/ call.pc = "transfer" /\ m <= call.left
    BY DEF Received
  <1>3. file.pos + m \in 1 .. MaxSize
    <2>1. /\ file.pos \in 0 .. MaxSize /\ call.left \in 0 .. MaxSize
          /\ call.target \in 0 .. MaxSize /\ MaxSize \in Nat
      BY Fields
    <2>2. CASE call.pc = "seek" /\ file.pos + m <= call.target
      BY <2>1, <2>2
    <2>3. CASE call.pc = "transfer" /\ m <= call.left
      <3>1. file.pos + call.left <= MaxSize
        BY <2>3 DEF CallInv
      <3> QED
        BY <2>1, <2>3, <3>1
    <2> QED
      BY <1>20, <2>2, <2>3
  <1>7. \A i \in new : i \in Places
    BY <1>3, Fields DEF Places
  <1>1. PICK aged \in {{}, new \cap link.old}, missed \in SUBSET Places :
          /\ cache' = [i \in Places |-> IF i \in new \ missed /\ ~file.nocache THEN kind(aged)[i]
                                        ELSE cache[i]]
          /\ call' = IF call.pc = "seek" THEN call
                     ELSE [call EXCEPT !.left = call.left - m,
                                       !.got = call.got \cup {kind(aged)[i] : i \in new}]
          /\ excuses' = excuses \cup cause
    BY <1>7 DEF Received, Receive, Excuse, Refusals
  <1>4. PICK n \in 0 .. MaxSize : \A i \in Places : stored[i] # "none" <=> i < n
    BY DEF Dense
  <1>5. Size = n
    BY <1>4, SizeIs
  <1>6. link.at + m \in 0 .. MaxSize
    <2>1. link.at \in 0 .. MaxSize /\ MaxSize \in Nat /\ n \in 0 .. MaxSize
      BY <1>4, Fields
    <2>2. link.at + m <= n
      BY <1>2, <1>5
    <2> QED
      BY <2>1, <2>2
  <1>8. \A i \in new : kind(aged)[i] \in {"latest", "stale", "hole"}
    <2> SUFFICES ASSUME NEW i \in new PROVE kind(aged)[i] \in {"latest", "stale", "hole"}
      OBVIOUS
    <2>1. i \in Places /\ stored[i] \in Contents
      BY <1>7 DEF Types
    <2>2. link.at = file.pos => i < n
      BY <1>2, <1>5, <1>4, Fields
    <2>3. link.at = file.pos => stored[i] \in {"latest", "stale", "hole"}
      BY <1>4, <2>1, <2>2 DEF Contents
    <2> QED
      BY <2>1, <2>3
  <1>9. {kind(aged)[i] : i \in new} \subseteq {"latest", "stale", "hole"}
    BY <1>8, Zenon
  <1>10. \A i \in Places : kind(aged)[i] \in Contents
    BY DEF Types, Contents
  <1>11. aged \in SUBSET (link.old \cap new)
    OBVIOUS
  <1> HIDE DEF kind
  <1>12. cache' \in [Places -> Cached]
    BY <1>1, <1>10 DEF Types, Cached
  <1> DEFINE got == {kind(aged)[i] : i \in new}
  <1>13. /\ call' \in CallType /\ call'.target = call.target /\ call'.left <= call.left
         /\ call'.left \in 0 .. MaxSize
         /\ \/ call.pc = "seek" /\ call' = call
            \/ /\ call.pc = "transfer" /\ call'.left = call.left - m
               /\ call'.pc = call.pc /\ call'.write = call.write
               /\ call'.target = call.target /\ call'.retry = call.retry
    <2>1. CASE call.pc = "seek"
      <3>1. call' = call
        BY <1>1, <2>1
      <3>2. call \in CallType
        BY DEF Types
      <3>3. call.left \in 0 .. MaxSize
        BY Fields
      <3> QED
        BY <2>1, <3>1, <3>2, <3>3
    <2>2. CASE call.pc # "seek"
      <3>1. call.left - m \in 0 .. MaxSize /\ call.left - m <= call.left
        BY <1>20, <2>2, Fields
      <3>2. call.got \cup got \in SUBSET Given
        BY <1>9 DEF Types, CallType, Given
      <3>3. call' = [call EXCEPT !.left = call.left - m, !.got = call.got \cup got]
        BY <1>1, <2>2
      <3> HIDE DEF got
      <3>4. call \in CallType
        BY DEF Types
      <3> QED
        BY <1>20, <2>2, <3>1, <3>2, <3>3, <3>4 DEF CallType
    <2> QED
      BY <2>1, <2>2
  <1>14. excuses' \subseteq {"lost", "crossed", "overtaken"} /\ excuses \subseteq excuses'
    BY <1>1 DEF Types
  <1>15. file' \in FileType /\ file'.size = file.size
    <2>1. file.pos + m \in 0 .. MaxSize
      BY <1>3, Fields
    <2>2. file \in FileType
      BY DEF Types
    <2> QED
      BY <1>2, <2>1, <2>2 DEF FileType
  <1>16. link' \in LinkType
    BY <1>2, <1>6 DEF Types, LinkType
  <1>17. Types'
    BY <1>2, <1>12, <1>13, <1>14, <1>15, <1>16 DEF Types
  <1>18. call'.target + call'.left <= MaxSize
    <2>1. call.target + call.left <= MaxSize
      BY DEF CallInv
    <2>2. /\ call.target \in 0 .. MaxSize /\ call.left \in 0 .. MaxSize /\ MaxSize \in Nat
          /\ call'.left \in 0 .. MaxSize
      BY <1>13, Fields DEF CallType
    <2>3. call'.target = call.target /\ call'.left <= call.left
      BY <1>13
    <2> QED
      BY <2>1, <2>2, <2>3
  <1> QED
    BY <1>1, <1>2, <1>3, <1>11, <1>13, <1>14, <1>17, <1>18 DEF kind

\* The bytes under way grow older, and none gets lost.
LEMMA AgedWireIs ==
    ASSUME link.wire \in Seq(Bytes), NEW new
    PROVE  /\ AgedWire(new) \in Seq(Bytes) /\ Len(AgedWire(new)) = Len(link.wire)
           /\ \A j \in 1 .. Len(link.wire) :
                /\ AgedWire(new)[j].place = link.wire[j].place
                /\ AgedWire(new)[j].kind =
                     IF link.wire[j].place \in new THEN "stale" ELSE link.wire[j].kind
  <1> DEFINE w(j) == IF link.wire[j].place \in new THEN [link.wire[j] EXCEPT !.kind = "stale"]
                     ELSE link.wire[j]
  <1>1. \A j \in 1 .. Len(link.wire) :
            /\ w(j) \in Bytes /\ w(j).place = link.wire[j].place
            /\ w(j).kind = IF link.wire[j].place \in new THEN "stale" ELSE link.wire[j].kind
    <2> SUFFICES ASSUME NEW j \in 1 .. Len(link.wire)
                 PROVE  /\ w(j) \in Bytes /\ w(j).place = link.wire[j].place
                        /\ w(j).kind = IF link.wire[j].place \in new THEN "stale"
                                       ELSE link.wire[j].kind
      OBVIOUS
    <2>1. link.wire[j] \in Bytes
      OBVIOUS
    <2> QED
      BY <2>1 DEF Bytes
  <1>2. AgedWire(new) = [j \in 1 .. Len(link.wire) |-> w(j)]
    BY DEF AgedWire
  <1>3. Len(link.wire) \in Nat
    OBVIOUS
  <1> HIDE DEF w
  <1>4. AgedWire(new) \in Seq(Bytes) /\ Len(AgedWire(new)) = Len(link.wire)
    BY <1>1, <1>2, <1>3
  <1> QED
    BY <1>1, <1>2, <1>4

\* The bytes that SendData sends, and where.
Fresh(p, m) == [j \in 1 .. m |-> [place |-> p + j - 1, kind |-> "latest"]]

LEMMA FreshIs ==
    ASSUME NEW p \in Nat, NEW m \in Nat, p + m <= MaxSize
    PROVE  /\ Fresh(p, m) \in Seq(Bytes) /\ Len(Fresh(p, m)) = m
           /\ \A j \in 1 .. m : Fresh(p, m)[j] = [place |-> p + j - 1, kind |-> "latest"]
  <1>1. \A j \in 1 .. m : [place |-> p + j - 1, kind |-> "latest"] \in Bytes
    BY TransferAssumption DEF Bytes, Places
  <1> QED
    BY <1>1 DEF Fresh

LEMMA Joined ==
    ASSUME NEW s \in Seq(Bytes), NEW t \in Seq(Bytes)
    PROVE  /\ s \o t \in Seq(Bytes) /\ Len(s \o t) = Len(s) + Len(t)
           /\ \A j \in 1 .. Len(s) : (s \o t)[j] = s[j]
           /\ \A j \in 1 .. Len(t) : (s \o t)[Len(s) + j] = t[j]
           /\ t = <<>> => s \o t = s
  OBVIOUS

\* What is sent is in the file, after everything under way.
New(m) == file.pos .. file.pos + m - 1
\* What SendData puts on the wire.
Onto(m) == IF link.asked = "STOR" /\ Uploads THEN Fresh(file.pos, m) ELSE <<>>

\* The effect of SendData.
LEMMA SentTypes ==
    ASSUME Types, CallInv, NEW m \in 1 .. MaxSize, SendData(m)
    PROVE  /\ Types' /\ call' = NoCall
           /\ call.pc = "transfer" /\ call.write
           /\ file.pos + m \in 1 .. MaxSize
           /\ file' = [file EXCEPT !.pos = file.pos + m,
                                   !.size = Greater(file.size, file.pos + m)]
           /\ link' = [link EXCEPT !.wire = AgedWire(New(m)) \o Onto(m)]
           /\ Len(link'.wire) = Len(link.wire) + Len(Onto(m))
           /\ Onto(m) \in {<<>>, Fresh(file.pos, m)}
           /\ \A j \in 1 .. Len(link.wire) :
                /\ link'.wire[j].place = link.wire[j].place
                /\ link'.wire[j].kind = IF link.wire[j].place \in New(m) THEN "stale"
                                        ELSE link.wire[j].kind
           /\ Onto(m) # <<>> =>
                /\ link.asked = "STOR" /\ Uploads /\ Len(Onto(m)) = m
                /\ \A j \in 1 .. m :
                     link'.wire[Len(link.wire) + j] =
                         [place |-> file.pos + j - 1, kind |-> "latest"]
           /\ stored' = Aged(stored, New(m)) /\ rival' = Aged(rival, New(m))
           /\ \A i \in Places : cache'[i] \in {cache[i], "latest", "kept"}
           /\ excuses' = excuses \cup
                ((IF link.asked = "RETR" THEN {"crossed"} ELSE IF Uploads THEN {} ELSE {"lost"})
                 \cup (IF \E i \in New(m) : rival[i] # "none" THEN {"overtaken"} ELSE {}))
           /\ UNCHANGED <<session, restOk, amiss, left>>
  <1>1. /\ call.pc = "transfer" /\ call.write /\ m <= call.left
        /\ stored' = Aged(stored, New(m)) /\ rival' = Aged(rival, New(m))
        /\ link' = [link EXCEPT !.wire = AgedWire(New(m)) \o Onto(m)]
        /\ file' = [file EXCEPT !.pos = file.pos + m,
                                !.size = Greater(file.size, file.pos + m)]
        /\ call' = NoCall
        /\ UNCHANGED <<session, restOk, amiss, left>>
    BY DEF SendData, New, Onto, Fresh
  <1>2. /\ \E new, missed : WriteToCache(new, missed)
        /\ excuses' = excuses \cup
             ((IF link.asked = "RETR" THEN {"crossed"} ELSE IF Uploads THEN {} ELSE {"lost"})
              \cup (IF \E i \in New(m) : rival[i] # "none" THEN {"overtaken"} ELSE {}))
    BY DEF SendData, New, Excuse
  <1>3. file.pos + m \in 1 .. MaxSize
    <2>1. file.pos \in 0 .. MaxSize /\ call.left \in 0 .. MaxSize /\ MaxSize \in Nat
      BY Fields
    <2>2. file.pos + call.left <= MaxSize /\ m <= call.left
      BY <1>1 DEF CallInv
    <2> QED
      BY <2>1, <2>2
  <1>4. /\ link.wire \in Seq(Bytes) /\ AgedWire(New(m)) \in Seq(Bytes)
        /\ Len(AgedWire(New(m))) = Len(link.wire)
    BY Fields, AgedWireIs
  <1>5. /\ Fresh(file.pos, m) \in Seq(Bytes) /\ Len(Fresh(file.pos, m)) = m
        /\ \A j \in 1 .. m : Fresh(file.pos, m)[j] = [place |-> file.pos + j - 1, kind |-> "latest"]
    <2>1. file.pos \in Nat /\ m \in Nat /\ file.pos + m <= MaxSize
      BY <1>3, Fields
    <2> QED
      BY <2>1, FreshIs
  <1>6. Onto(m) \in {<<>>, Fresh(file.pos, m)} /\ Onto(m) \in Seq(Bytes)
    BY <1>5, Zero DEF Onto
  <1>7. /\ link'.wire = AgedWire(New(m)) \o Onto(m)
        /\ link'.wire \in Seq(Bytes) /\ link' \in LinkType
    <2>1. AgedWire(New(m)) \o Onto(m) \in Seq(Bytes)
      BY <1>4, <1>6, Joined
    <2>2. link \in LinkType
      BY DEF Types
    <2> QED
      BY <1>1, <2>1, <2>2 DEF LinkType
  <1>8. /\ Len(link'.wire) = Len(link.wire) + Len(Onto(m))
        /\ \A j \in 1 .. Len(link.wire) :
             /\ link'.wire[j].place = link.wire[j].place
             /\ link'.wire[j].kind = IF link.wire[j].place \in New(m) THEN "stale"
                                     ELSE link.wire[j].kind
        /\ \A j \in 1 .. Len(Onto(m)) : link'.wire[Len(link.wire) + j] = Onto(m)[j]
    <2> DEFINE a == AgedWire(New(m))
               o == Onto(m)
    <2>1. a \in Seq(Bytes) /\ o \in Seq(Bytes) /\ Len(a) = Len(link.wire) /\ link'.wire = a \o o
      BY <1>4, <1>6, <1>7
    <2>2. \A j \in 1 .. Len(link.wire) :
             /\ a[j].place = link.wire[j].place
             /\ a[j].kind = IF link.wire[j].place \in New(m) THEN "stale" ELSE link.wire[j].kind
      BY <1>4, AgedWireIs
    <2> HIDE DEF a, o
    <2>3. /\ Len(a \o o) = Len(a) + Len(o)
          /\ \A j \in 1 .. Len(a) : (a \o o)[j] = a[j]
          /\ \A j \in 1 .. Len(o) : (a \o o)[Len(a) + j] = o[j]
      BY <2>1, Joined
    <2>4. /\ Len(link'.wire) = Len(link.wire) + Len(o)
          /\ \A j \in 1 .. Len(link.wire) :
               /\ link'.wire[j].place = link.wire[j].place
               /\ link'.wire[j].kind = IF link.wire[j].place \in New(m) THEN "stale"
                                       ELSE link.wire[j].kind
          /\ \A j \in 1 .. Len(o) : link'.wire[Len(link.wire) + j] = o[j]
      BY <2>1, <2>2, <2>3
    <2> QED
      BY <2>4 DEF o
  <1>9. Onto(m) # <<>> =>
                /\ link.asked = "STOR" /\ Uploads /\ Len(Onto(m)) = m
                /\ \A j \in 1 .. m :
                     link'.wire[Len(link.wire) + j] =
                         [place |-> file.pos + j - 1, kind |-> "latest"]
    <2>1. Onto(m) # <<>> => link.asked = "STOR" /\ Uploads /\ Onto(m) = Fresh(file.pos, m)
      BY DEF Onto
    <2> QED
      BY <1>5, <1>8, <2>1
  <1>10. file' \in FileType
    <2>1. file.pos + m \in 0 .. MaxSize /\ Greater(file.size, file.pos + m) \in 0 .. MaxSize
      BY <1>3, Fields DEF Greater
    <2>2. file \in FileType
      BY DEF Types
    <2> QED
      BY <1>1, <2>1, <2>2 DEF FileType
  <1>11. /\ stored' \in [Places -> Contents] /\ rival' \in [Places -> {"latest", "stale", "none"}]
         /\ cache' \in [Places -> Cached]
         /\ \A i \in Places : cache'[i] \in {cache[i], "latest", "kept"}
    BY <1>1, <1>2 DEF Types, Aged, Contents, Cached, WriteToCache
  <1>12. excuses' \subseteq {"lost", "crossed", "overtaken"}
    BY <1>2 DEF Types
  <1>13. Types'
    <2>1. call' \in CallType /\ session' \in SessionType
      BY <1>1, Starts DEF Types
    <2> QED
      BY <1>1, <1>7, <1>10, <1>11, <1>12, <2>1 DEF Types
  <1> QED
    BY <1>1, <1>2, <1>3, <1>6, <1>8, <1>9, <1>11, <1>13

\* The connection of the server is taken.
Accepts ==
    /\ call.pc = "accept" /\ link.use # "none"
    /\ file' = [file EXCEPT !.data = TRUE]
    /\ Go("transfer", <<>>)
    /\ UNCHANGED <<link, disk, restOk, excuses, left>>

\* Steps of the client that take no replies and move no data.
ClientSteps ==
    \/ Remove \/ Begin \/ SetFilePointer \/ SeekElsewhere \/ Connect \/ GoOn
    \/ OpenDataConnection \/ Accepts \/ ReadDone \/ SuspendFile \/ FileResetOnError

\* Steps of the server.
ServerSteps ==
    \/ HandleSimple \/ HandleDele \/ HandleAbor \/ Store \/ EndTransfer
    \/ \E v \in Transfers : HandleTransfer(v)

\* The sorts of steps.
LEMMA StepCases ==
    ASSUME session \in SessionType, Next
    PROVE  \/ \E p \in Places, n \in 1 .. MaxSize : ReadFile(p, n) \/ WriteFile(p, n)
           \/ ClientSteps
           \/ \E m \in 1 .. MaxSize : Received(m) \/ SendData(m)
           \/ TakesReplies
           \/ ServerSteps
           \/ \E i \in Places : OtherWrites(i) \/ OtherStores(i)
  <1>1. ASSUME NEW m \in 1 .. MaxSize, Bypass(m) \/ ReceiveData(m) PROVE Received(m)
    BY <1>1 DEF Bypass, ReceiveData, Received
  <1>2. AcceptDataSocket \/ TransferFails => Accepts \/ FileResetOnError
    BY DEF AcceptDataSocket, TransferFails, Accepts
  <1>3. HandleTransfer("RETR") \/ HandleTransfer("STOR") =>
            \E v \in Transfers : HandleTransfer(v)
    BY DEF Transfers
  <1>4. Proceed => \/ ClientSteps \/ TakesReplies
                   \/ \E m \in 1 .. MaxSize : Received(m) \/ SendData(m)
    <2>1. ASSUME \/ Removed \/ Confirmed \/ Aborted \/ TypeAnswered \/ PortAnswered
                 \/ PasvAnswered \/ RestAnswered \/ AskAnswered \/ SuspendedFile
          PROVE  TakesReplies
      BY <2>1, RepliesTaken
    <2> QED
      BY <1>1, <1>2, <2>1 DEF Proceed, ClientSteps
  <1>5. Serve => ServerSteps
    BY <1>3 DEF Serve, ServerSteps
  <1>6. Others => \E i \in Places : OtherWrites(i) \/ OtherStores(i)
    BY DEF Others
  <1> QED
    BY <1>4, <1>5, <1>6 DEF Next, ClientSteps

\* The steps of the client keep the types.
LEMMA ClientTypes ==
    ASSUME Types, ClientSteps
    PROVE  Types'
  <1>1. /\ session \in SessionType /\ call \in CallType /\ amiss \subseteq {"failed", "shifted"}
        /\ file \in FileType /\ link \in LinkType
    BY DEF Types
  <1>2. ASSUME Remove PROVE Types'
    <2>1. session' \in SessionType /\ call' \in CallType /\ amiss' \subseteq {"failed", "shifted"}
      BY <1>1, <1>2, GoEffect, Sends DEF Remove, Points, Waiting
    <2> QED
      BY <1>2, <2>1 DEF Remove, Types, disk
  <1>3. ASSUME Begin PROVE Types'
    <2>1. session' \in SessionType /\ call' \in CallType /\ amiss' \subseteq {"failed", "shifted"}
      BY <1>1, <1>3, GoEffect, Sends DEF Begin, Points
    <2>2. file' \in FileType
      BY <1>1, <1>3 DEF Begin, FileType
    <2> QED
      BY <1>3, <2>1, <2>2 DEF Begin, Types, disk
  <1>4. ASSUME SetFilePointer PROVE Types'
    <2>1. session' \in SessionType /\ call' \in CallType /\ amiss' \subseteq {"failed", "shifted"}
      BY <1>1, <1>4, GoEffect, Sends DEF SetFilePointer, Points
    <2>2. file' \in FileType
      BY <1>1, <1>4, Fields DEF SetFilePointer, FileType
    <2> QED
      BY <1>4, <2>1, <2>2 DEF SetFilePointer, Types, disk
  <1>5. ASSUME SeekElsewhere PROVE Types'
    <2>1. session' \in SessionType /\ call' \in CallType /\ amiss' \subseteq {"failed", "shifted"}
      BY <1>1, <1>5, GoEffect, Sends DEF SeekElsewhere, Points, Waiting
    <2>2. file' \in FileType
      BY <1>1, <1>5 DEF SeekElsewhere, FileType
    <2>3. link' \in LinkType /\ excuses' \subseteq Excuses
      BY <1>5, ClosesEffect DEF SeekElsewhere
    <2> QED
      BY <1>5, <2>1, <2>2, <2>3 DEF SeekElsewhere, Types, disk, Excuses
  <1>6. ASSUME Connect PROVE Types'
    <2>1. call' \in CallType
      <3>1. CASE call' = call
        BY <1>1, <3>1
      <3>2. CASE call' = [call EXCEPT !.pc = "begin"]
        BY <1>1, <3>2 DEF CallType, Points
      <3>3. CASE call' = NoCall
        BY <3>3, Starts
      <3> QED
        BY <1>6, <3>1, <3>2, <3>3 DEF Connect
    <2>2. file' \in FileType
      BY <1>1, <1>6 DEF Connect, FileType
    <2>3. session' \in SessionType /\ link' \in LinkType
      BY <1>1, <1>6, Starts DEF Connect
    <2>4. excuses' \subseteq Excuses /\ amiss' \subseteq {"failed", "shifted"}
      BY <1>6 DEF Connect, Types, Excuse, Lost, Excuses, Amiss
    <2>5. UNCHANGED <<stored, cache, rival, restOk, left>>
      BY <1>6 DEF Connect, disk
    <2> QED
      BY <2>1, <2>2, <2>3, <2>4, <2>5 DEF Types, Excuses
  <1>7. ASSUME GoOn PROVE Types'
    <2>1. session' \in SessionType /\ call' \in CallType /\ amiss' \subseteq {"failed", "shifted"}
      BY <1>1, <1>7, GoEffect, Sends DEF GoOn, Points
    <2> QED
      BY <1>7, <2>1 DEF GoOn, Types, disk
  <1>8. ASSUME OpenDataConnection PROVE Types'
    <2>1. session' \in SessionType /\ call' \in CallType /\ amiss' \subseteq {"failed", "shifted"}
      BY <1>1, <1>8, GoEffect, Sends DEF OpenDataConnection, Points, Waiting
    <2> QED
      BY <1>8, <2>1 DEF OpenDataConnection, Types, disk
  <1>9. ASSUME Accepts PROVE Types'
    <2>1. session' \in SessionType /\ call' \in CallType /\ amiss' \subseteq {"failed", "shifted"}
      BY <1>1, <1>9, GoEffect, Sends DEF Accepts, Points
    <2>2. file' \in FileType
      BY <1>1, <1>9 DEF Accepts, FileType
    <2> QED
      BY <1>9, <2>1, <2>2 DEF Accepts, Types, disk
  <1>10. ASSUME ReadDone PROVE Types'
    <2>1. call' \in CallType
      BY <1>1, <1>10, Starts DEF ReadDone, CallType
    <2> QED
      BY <1>10, <2>1 DEF ReadDone, Types, disk
  <1>11. ASSUME SuspendFile PROVE Types'
    <2>1. call' \in CallType
      BY <1>1, <1>11 DEF SuspendFile, CallType, Points, Waiting
    <2>2. file' \in FileType
      BY <1>1, <1>11 DEF SuspendFile, FileType
    <2>3. link' \in LinkType /\ excuses' \subseteq Excuses
      BY <1>1, <1>11, ClosesEffect DEF SuspendFile, Types, Excuses
    <2> QED
      BY <1>11, <2>1, <2>2, <2>3 DEF SuspendFile, Types, disk, Excuses
  <1>12. ASSUME FileResetOnError PROVE Types'
    BY <1>12, ResetEffect DEF Types, Excuses
  <1> QED
    BY <1>2, <1>3, <1>4, <1>5, <1>6, <1>7, <1>8, <1>9, <1>10, <1>11, <1>12 DEF ClientSteps

\* So do those that take replies.
LEMMA RepliesTypes ==
    ASSUME Types, TakesReplies
    PROVE  Types'
  <1>1. /\ session \in SessionType /\ call \in CallType /\ amiss \subseteq {"failed", "shifted"}
        /\ file \in FileType /\ link \in LinkType
    BY DEF Types
  <1>2. ASSUME NEW k \in Arrivals, NEW pc \in Points, NEW c, Sent(c), Took(k, pc, c), Still,
               file' \in FileType, link' \in LinkType, cache' \in [Places -> Cached]
        PROVE  Types'
    <2>1. session' \in SessionType /\ call' \in CallType /\ amiss' \subseteq {"failed", "shifted"}
      BY <1>1, <1>2, TookEffect
    <2> QED
      BY <1>2, <2>1 DEF Still, Types
  <1>3. cache \in [Places -> Cached] /\ [i \in Places |-> "none"] \in [Places -> Cached]
    BY DEF Types, Contents, Cached
  <1>4. ASSUME NEW k \in Arrivals, Skips(k) PROVE Types'
    BY <1>1, <1>2, <1>3, <1>4, Sends DEF Skips, CallType
  <1>5. ASSUME NEW k \in Arrivals, Moves(k) PROVE Types'
    BY <1>1, <1>2, <1>3, <1>5, Sends DEF Moves, Points, Waiting
  <1>6. ASSUME NEW k \in Arrivals, Removes(k) PROVE Types'
    BY <1>1, <1>2, <1>3, <1>6, Sends DEF Removes, Points
  <1>7. ASSUME NEW k \in Arrivals, FallsBack(k) PROVE Types'
    <2>1. file' \in FileType
      BY <1>1, <1>7 DEF FallsBack, FileType
    <2> QED
      BY <1>1, <1>2, <1>3, <1>7, <2>1, Sends DEF FallsBack, Points, Waiting
  <1>8. ASSUME NEW k \in Arrivals, Connects(k) PROVE Types'
    <2>1. file' \in FileType
      BY <1>1, <1>8 DEF Connects, FileType
    <2>2. link' \in LinkType
      BY <1>1, <1>8 DEF Connects, LinkType
    <2> QED
      BY <1>1, <1>2, <1>3, <1>8, <2>1, <2>2, Sends DEF Connects, Points, Waiting
  <1>9. ASSUME NEW k \in Arrivals, Asks(k) PROVE Types'
    <2>1. Wanted \in {"none"} \cup Transfers /\ Sent(<< <<Wanted, 0>> >>)
      BY Sends DEF Wanted, Transfers
    <2>2. link' \in LinkType
      BY <1>1, <1>9, <2>1 DEF Asks, LinkType
    <2> QED
      BY <1>1, <1>2, <1>3, <1>9, <2>1, <2>2 DEF Asks, Points, Waiting
  <1>10. ASSUME NEW k \in Arrivals, AsksAgain(k) PROVE Types'
    <2>1. SubSeq(session.replies, k + 1, Len(session.replies)) \in Seq(Codes)
      BY <1>1, ArrivalsAre, Shortened DEF SessionType
    <2>2. session.cmds \o << <<"TYPE", 0>> >> \in Seq(Commands)
      BY Fields, Sends, SentAppended
    <2>3. session' \in SessionType
      BY <1>1, <1>10, <2>1, <2>2 DEF AsksAgain, SessionType
    <2>4. call' \in CallType
      BY <1>1, <1>10, Zero DEF AsksAgain, CallType, Points, Waiting
    <2>5. amiss' \subseteq {"failed", "shifted"}
      BY <1>1, <1>10 DEF AsksAgain, Amiss, Shifted
    <2> QED
      BY <1>10, <2>3, <2>4, <2>5 DEF AsksAgain, Still, Types
  <1>11. ASSUME NEW k \in Arrivals, Suspends(k) PROVE Types'
    <2>1. file' \in FileType
      BY <1>1, <1>11 DEF Suspends, FileType
    <2> DEFINE pc == IF call.left > 0 THEN "begin" ELSE "idle"
    <2>2. pc \in Points
      BY DEF Points
    <2>3. Took(k, pc, <<>>)
      BY <1>11 DEF Suspends
    <2> HIDE DEF pc
    <2> QED
      BY <1>1, <1>2, <1>3, <1>11, <2>1, <2>2, <2>3, Sends DEF Suspends
  <1>12. ASSUME FileResetOnError PROVE Types'
    BY <1>12, ResetEffect DEF Types, Excuses
  <1> QED
    BY <1>4, <1>5, <1>6, <1>7, <1>8, <1>9, <1>10, <1>11, <1>12 DEF TakesReplies

\* What the server does, and its effect in the terms of the types.
LEMMA WithByteTypes ==
    ASSUME stored \in [Places -> Contents], NEW p, NEW kind \in Contents
    PROVE  WithByte(p, kind) \in [Places -> Contents]
  BY DEF WithByte, Contents

\* A byte of an upload that arrives.
LEMMA StoreEffect ==
    ASSUME Types, Store
    PROVE  /\ session.xfer = "STOR" /\ link.wire # <<>> /\ link.at < MaxSize
           /\ Len(link.wire) >= 1 /\ link.wire[1] \in Bytes
           /\ stored' = WithByte(link.at, IF link.wire[1].place = link.at
                                          THEN link.wire[1].kind ELSE "stale")
           /\ link' = [link EXCEPT !.at = link.at + 1, !.wire = Tail(link.wire)]
           /\ link' \in LinkType
           /\ Len(link'.wire) = Len(link.wire) - 1
           /\ \A j \in 1 .. Len(link.wire) - 1 : link'.wire[j] = link.wire[j + 1]
           /\ UNCHANGED <<file, call, session, cache, rival, restOk, excuses, amiss, left>>
  <1>1. link.wire \in Seq(Bytes) /\ link.wire # <<>> /\ link.at < MaxSize /\ link.at \in 0 .. MaxSize
    BY Fields DEF Store
  <1>2. /\ Tail(link.wire) \in Seq(Bytes) /\ Len(Tail(link.wire)) = Len(link.wire) - 1
        /\ \A i \in 1 .. Len(link.wire) - 1 : Tail(link.wire)[i] = link.wire[i + 1]
        /\ Head(link.wire) = link.wire[1] /\ Len(link.wire) >= 1 /\ link.wire[1] \in Bytes
    BY <1>1, Tailed
  <1>3. link' = [link EXCEPT !.at = link.at + 1, !.wire = Tail(link.wire)]
    BY DEF Store
  <1>4. link.at + 1 \in 0 .. MaxSize
    BY <1>1, Fields
  <1>5. link' \in LinkType /\ link'.wire = Tail(link.wire)
    BY <1>2, <1>3, <1>4 DEF Types, LinkType
  <1>6. stored' = WithByte(link.at, IF link.wire[1].place = link.at
                                    THEN link.wire[1].kind ELSE "stale")
    BY <1>2 DEF Store
  <1>7. /\ session.xfer = "STOR"
        /\ UNCHANGED <<file, call, session, cache, rival, restOk, excuses, amiss, left>>
    BY DEF Store
  <1> QED
    BY <1>1, <1>2, <1>3, <1>5, <1>6, <1>7

LEMMA AborEffect ==
    ASSUME Types, HandleAbor
    PROVE  /\ \E r \in {<<"226 ABOR">>, <<"225">>, <<"426", "226 ABOR">>} : Handles("ABOR", r)
           /\ session' \in SessionType
           /\ link' \in LinkType /\ link' = [link EXCEPT !.wire = <<>>]
           /\ excuses' = excuses \cup Lost(link.wire) /\ excuses' \subseteq Excuses
           /\ UNCHANGED <<file, call, stored, cache, rival, restOk, amiss, left>>
  <1>1. \E r \in {<<"226 ABOR">>, <<"225">>, <<"426", "226 ABOR">>} : Handles("ABOR", r)
    BY DEF HandleAbor
  <1>2. session' \in SessionType
    BY <1>1, Answers, HandlesEffect DEF Types
  <1>3. link' = [link EXCEPT !.wire = <<>>]
    BY DEF HandleAbor
  <1>4. link' \in LinkType
    BY <1>3, Zero DEF Types, LinkType
  <1>5. excuses' = excuses \cup Lost(link.wire) /\ excuses' \subseteq Excuses
    BY DEF HandleAbor, Types, Excuse, Excuses, Lost
  <1>6. UNCHANGED <<file, call, stored, cache, rival, restOk, amiss, left>>
    BY DEF HandleAbor, disk
  <1> QED
    BY <1>1, <1>2, <1>3, <1>4, <1>5, <1>6

LEMMA DeleEffect ==
    ASSUME session \in SessionType, HandleDele
    PROVE  /\ session' \in SessionType
           /\ \E c \in {"250", "550"} : Handles("DELE", <<c>>)
           /\ \/ stored' = [i \in Places |-> "none"] /\ rival' = [i \in Places |-> "none"]
              \/ UNCHANGED <<stored, rival>>
           /\ UNCHANGED <<file, call, link, cache, restOk, excuses, amiss, left>>
  <1>1. \E c \in {"250", "550"} : Handles("DELE", <<c>>)
    BY DEF HandleDele
  <1>2. session' \in SessionType
    BY <1>1, Answers, HandlesEffect
  <1> QED
    BY <1>1, <1>2 DEF HandleDele

\* The steps of the server keep the types.
LEMMA ServerTypes ==
    ASSUME Types, ServerSteps
    PROVE  Types'
  <1>1. session \in SessionType /\ link \in LinkType
    BY DEF Types
  <1>0. [i \in Places |-> "none"] \in [Places -> Contents]
        /\ [i \in Places |-> "none"] \in [Places -> {"latest", "stale", "none"}]
    BY DEF Contents
  <1>2. ASSUME HandleSimple PROVE Types'
    <2>1. session' \in SessionType
      <3>1. PICK v \in {"TYPE", "PORT", "PASV", "REST"}, c \in Codes : Handles(v, <<c>>)
        BY <1>1, <1>2, SimpleEffect
      <3>2. <<c>> \in Seq(Codes)
        OBVIOUS
      <3> QED
        BY <1>1, <3>1, <3>2, HandlesEffect
    <2> QED
      BY <1>2, <2>1 DEF HandleSimple, disk, Types
  <1>3. ASSUME HandleDele PROVE Types'
    BY <1>0, <1>1, <1>3, DeleEffect DEF Types
  <1>4. ASSUME HandleAbor PROVE Types'
    BY <1>4, AborEffect DEF Types, Excuses
  <1>5. ASSUME Store PROVE Types'
    <2> DEFINE kind == IF link.wire[1].place = link.at THEN link.wire[1].kind ELSE "stale"
    <2>1. kind \in Contents
      BY <1>5, StoreEffect DEF Bytes, Contents
    <2>2. stored' = WithByte(link.at, kind) /\ link' \in LinkType
      BY <1>5, StoreEffect
    <2> HIDE DEF kind
    <2>3. stored' \in [Places -> Contents]
      BY <2>1, <2>2, WithByteTypes DEF Types
    <2> QED
      BY <1>5, <2>2, <2>3 DEF Store, Types
  <1>6. ASSUME EndTransfer PROVE Types'
    BY <1>1, <1>6, EndEffect DEF Types, disk
  <1>7. ASSUME NEW v \in Transfers, HandleTransfer(v) PROVE Types'
    <2>1. /\ session' \in SessionType /\ link' \in LinkType
          /\ \/ Begins(v)
             \/ \E reply \in {"425", "550"} : Refuses(reply)
          /\ UNCHANGED <<file, call, cache, rival, restOk, amiss, left>>
      BY <1>1, <1>7, TransferEffect
    <2>2. stored' \in [Places -> Contents] /\ excuses' \subseteq {"lost", "crossed", "overtaken"}
      BY <1>0, <2>1 DEF Begins, Refuses, Types, Excuse, Lost
    <2> QED
      BY <2>1, <2>2 DEF Types
  <1> QED
    BY <1>2, <1>3, <1>4, <1>5, <1>6, <1>7 DEF ServerSteps

\* So do those of the other handle.
LEMMA OtherTypes ==
    ASSUME Types, NEW i \in Places, OtherWrites(i) \/ OtherStores(i)
    PROVE  Types'
  <1>1. link \in LinkType /\ stored \in [Places -> Contents] /\ cache \in [Places -> Cached]
        /\ rival \in [Places -> {"latest", "stale", "none"}]
    BY DEF Types
  <1>2. ASSUME OtherWrites(i) PROVE Types'
    <2>1. /\ left' \in [size : 1 .. MaxSize, calls : Nat, others : Nat]
          /\ \E b \in Bounds :
              left' \in [size : {b.size}, calls : 0 .. b.calls, others : 0 .. b.others]
      <3>1. left \in [size : 1 .. MaxSize, calls : Nat, others : Nat]
        BY DEF Types
      <3>2. left.calls - 1 \in 0 .. left.calls /\ left.others - 1 \in 0 .. left.others
        BY <1>2, <3>1 DEF OtherWrites
      <3>3. left' = [left EXCEPT !.calls = left.calls - 1, !.others = left.others - 1]
        BY <1>2 DEF OtherWrites
      <3> QED
        BY <3>2, <3>3, Counted
    <2>2. link' \in LinkType
      <3>1. AgedWire({i}) \in Seq(Bytes)
        BY Fields, AgedWireIs
      <3>2. link' = [link EXCEPT !.wire = AgedWire({i})]
        BY <1>2 DEF OtherWrites
      <3> QED
        BY <1>1, <3>1, <3>2 DEF LinkType
    <2>3. /\ stored' \in [Places -> Contents] /\ cache' \in [Places -> Cached]
          /\ rival' \in [Places -> {"latest", "stale", "none"}]
      BY <1>1, <1>2 DEF OtherWrites, Aged, Contents, Cached, WriteToCache
    <2>4. excuses' \subseteq {"lost", "crossed", "overtaken"}
      BY <1>2 DEF OtherWrites, Excuse, Types
    <2> QED
      BY <1>2, <2>1, <2>2, <2>3, <2>4 DEF OtherWrites, Types
  <1>3. ASSUME OtherStores(i) PROVE Types'
    <2>1. rival[i] \in Contents
      BY <1>1 DEF Contents
    <2>2. stored' \in [Places -> Contents]
      BY <1>1, <1>3, <2>1, WithByteTypes DEF OtherStores
    <2>3. link' \in LinkType /\ rival' \in [Places -> {"latest", "stale", "none"}]
      BY <1>1, <1>3 DEF OtherStores, LinkType
    <2> QED
      BY <1>3, <2>2, <2>3 DEF OtherStores, Types
  <1> QED
    BY <1>2, <1>3

\* Every step keeps the types.
LEMMA TypeStep ==
    ASSUME Types, CallInv, Dense, [Next]_vars
    PROVE  Types'
  <1>1. CASE UNCHANGED vars
    BY <1>1 DEF vars, disk, Types
  <1>2. CASE Next
    BY <1>2, StepCases, ReadFileTypes, WriteFileTypes, ClientTypes, ReceivedTypes, SentTypes,
       RepliesTypes, ServerTypes, OtherTypes DEF Types
  <1> QED
    BY <1>1, <1>2

LEMMA InitTypes == Init => Types
  <1> SUFFICES ASSUME Init PROVE Types
    OBVIOUS
  <1>1. PICK size \in 0 .. MaxSize, known \in {{}, Places} :
        /\ stored = [i \in Places |-> IF i < size THEN "latest" ELSE "none"]
        /\ cache = [i \in Places |-> IF i < size /\ i \in known THEN "latest" ELSE "none"]
        /\ file \in [pos : {0}, size : {size}, pasv : BOOLEAN,
                     changed : IF size = 0 THEN BOOLEAN ELSE {FALSE},
                     nocache : BOOLEAN, cmd : {FALSE}, data : {FALSE}]
    BY DEF Init
  <1>2. file \in FileType
    BY <1>1, Zero DEF FileType
  <1>3. stored \in [Places -> Contents] /\ cache \in [Places -> Cached]
        /\ rival \in [Places -> {"latest", "stale", "none"}]
    BY <1>1 DEF Init, Contents, Cached
  <1>4. call \in CallType /\ session \in SessionType /\ link \in LinkType
    BY Starts DEF Init
  <1>5. left \in [size : 1 .. MaxSize, calls : Nat, others : Nat]
        /\ \E b \in Bounds :
              left \in [size : {b.size}, calls : 0 .. b.calls, others : 0 .. b.others]
    <2>1. left \in Bounds /\ left \in [size : 1 .. MaxSize, calls : Nat, others : Nat]
      BY TransferAssumption DEF Init
    <2>2. left \in [size : {left.size}, calls : 0 .. left.calls, others : 0 .. left.others]
      BY <2>1
    <2> QED
      BY <2>1, <2>2
  <1> QED
    BY <1>2, <1>3, <1>4, <1>5 DEF Init, Types


----------------------------------------------------------------------------
\* What the server has stays a beginning of the file.
DenseUpTo(f, n) == \A i \in Places : f[i] # "none" <=> i < n

\* New bytes change no sizes.
LEMMA AgedKeeps ==
    ASSUME NEW new
    PROVE  /\ \A i \in Places : Aged(stored, new)[i] # "none" <=> stored[i] # "none"
           /\ \A i \in Places : Aged(rival, new)[i] # "none" <=> rival[i] # "none"
           /\ \A i \in Places : Aged(cache, new)[i] # "none" <=> cache[i] # "none"
  BY DEF Aged

\* A byte that arrives leaves no gap.
LEMMA WithByteDense ==
    ASSUME NEW n \in 0 .. MaxSize, DenseUpTo(stored, n), NEW p \in Places, NEW kind, kind # "none"
    PROVE  DenseUpTo(WithByte(p, kind), IF p < n THEN n ELSE p + 1)
           /\ (IF p < n THEN n ELSE p + 1) \in 0 .. MaxSize
  <1>1. p \in Nat /\ p < MaxSize /\ \A i \in Places : i \in Nat
    BY TransferAssumption DEF Places
  <1>2. ASSUME NEW i \in Places
        PROVE  WithByte(p, kind)[i] # "none" <=> i < IF p < n THEN n ELSE p + 1
    <2>1. WithByte(p, kind)[i] = IF i = p THEN kind
                                 ELSE IF i < p /\ stored[i] = "none" THEN "hole" ELSE stored[i]
      BY DEF WithByte
    <2>2. stored[i] # "none" <=> i < n
      BY DEF DenseUpTo
    <2> QED
      BY <1>1, <2>1, <2>2
  <1> QED
    BY <1>1, <1>2, TransferAssumption DEF DenseUpTo

\* Every step keeps Dense.
LEMMA DenseStep ==
    ASSUME Types, CallInv, Dense, [Next]_vars
    PROVE  Dense'
  <1>1. PICK n \in 0 .. MaxSize : DenseUpTo(stored, n)
    BY DEF Dense, DenseUpTo
  <1>0. ASSUME NEW k \in 0 .. MaxSize, DenseUpTo(stored', k) PROVE Dense'
    BY <1>0 DEF Dense, DenseUpTo
  <1>2. ASSUME UNCHANGED stored PROVE Dense'
    BY <1>0, <1>1, <1>2
  <1>3. ASSUME NEW new, stored' = Aged(stored, new) PROVE Dense'
    <2>1. DenseUpTo(stored', n)
      BY <1>1, <1>3, AgedKeeps DEF DenseUpTo
    <2> QED
      BY <1>0, <2>1
  <1>4. ASSUME stored' = [i \in Places |-> "none"] PROVE Dense'
    <2>1. DenseUpTo(stored', 0)
      BY <1>4, TransferAssumption DEF DenseUpTo, Places
    <2> QED
      BY <1>0, <2>1, Zero
  <1>5. ASSUME NEW p \in Places, NEW kind, kind # "none", stored' = WithByte(p, kind) PROVE Dense'
    BY <1>0, <1>1, <1>5, WithByteDense
  <1>6. CASE UNCHANGED vars
    BY <1>2, <1>6 DEF vars, disk
  <1>7. ASSUME NEW p \in Places, NEW k \in 1 .. MaxSize, ReadFile(p, k) \/ WriteFile(p, k)
        PROVE  Dense'
    BY <1>2, <1>7, ReadFileTypes, WriteFileTypes
  <1>8. ASSUME ClientSteps PROVE Dense'
    BY <1>2, <1>8 DEF ClientSteps, Remove, Begin, SetFilePointer, SeekElsewhere, Connect, GoOn,
       OpenDataConnection, Accepts, ReadDone, SuspendFile, FileResetOnError, disk
  <1>9. ASSUME NEW m \in 1 .. MaxSize, Received(m) \/ SendData(m) PROVE Dense'
    BY <1>2, <1>3, <1>9, ReceivedTypes, SentTypes
  <1>10. ASSUME TakesReplies PROVE Dense'
    BY <1>2, <1>10 DEF TakesReplies, Still, Skips, Moves, Removes, FallsBack, Connects, Asks,
       AsksAgain, Suspends, FileResetOnError, disk
  <1>11. ASSUME ServerSteps PROVE Dense'
    <2>1. ASSUME HandleSimple \/ HandleAbor \/ EndTransfer PROVE Dense'
      BY <1>2, <2>1 DEF HandleSimple, HandleAbor, EndTransfer, disk
    <2>2. ASSUME HandleDele PROVE Dense'
      BY <1>2, <1>4, <2>2, DeleEffect DEF Types
    <2>3. ASSUME Store PROVE Dense'
      <3>1. link.at \in Places
        BY <2>3, StoreEffect, Fields DEF Places
      <3>2. (IF link.wire[1].place = link.at THEN link.wire[1].kind ELSE "stale") # "none"
        BY <2>3, StoreEffect DEF Bytes
      <3> QED
        BY <1>5, <2>3, <3>1, <3>2, StoreEffect
    <2>4. ASSUME NEW v \in Transfers, HandleTransfer(v) PROVE Dense'
      BY <1>2, <1>4, <2>4, TransferEffect DEF Types, Begins, Refuses
    <2> QED
      BY <1>11, <2>1, <2>2, <2>3, <2>4 DEF ServerSteps
  <1>12. ASSUME NEW i \in Places, OtherWrites(i) \/ OtherStores(i) PROVE Dense'
    <2>1. ASSUME OtherWrites(i) PROVE Dense'
      BY <1>3, <2>1 DEF OtherWrites
    <2>2. ASSUME OtherStores(i) PROVE Dense'
      BY <1>5, <2>2 DEF OtherStores
    <2> QED
      BY <1>12, <2>1, <2>2
  <1>13. CASE Next
    BY <1>7, <1>8, <1>9, <1>10, <1>11, <1>12, <1>13, StepCases DEF Types
  <1> QED
    BY <1>6, <1>13

LEMMA InitDense == Init => Dense
  <1> SUFFICES ASSUME Init PROVE Dense
    OBVIOUS
  <1>1. PICK size \in 0 .. MaxSize :
            stored = [i \in Places |-> IF i < size THEN "latest" ELSE "none"]
    BY DEF Init
  <1>2. \A i \in Places : stored[i] # "none" <=> i < size
    BY <1>1
  <1> QED
    BY <1>2 DEF Dense

----------------------------------------------------------------------------
\* Where a call is, and what it has still to do.
LEMMA CallStep ==
    ASSUME Types, CallInv, Dense, [Next]_vars
    PROVE  CallInv'
  <1>0. /\ session \in SessionType /\ call \in CallType /\ amiss \subseteq {"failed", "shifted"}
        /\ file \in FileType /\ link \in LinkType /\ 0 \in 0 .. MaxSize /\ 0 <= MaxSize
    BY Zero, Fields DEF Types
  <1>1. ASSUME UNCHANGED <<file, call>> PROVE CallInv'
    BY <1>1 DEF CallInv
  <1>2. CASE UNCHANGED vars
    BY <1>1, <1>2 DEF vars
  <1>3. ASSUME NEW p \in Places, NEW k \in 1 .. MaxSize, ReadFile(p, k) PROVE CallInv'
    BY <1>3, ReadFileTypes DEF CallInv, Opening
  <1>4. ASSUME NEW p \in Places, NEW k \in 1 .. MaxSize, WriteFile(p, k) PROVE CallInv'
    <2>1. call'.pc \in {"remove", "begin"} /\ UNCHANGED file /\ call'.target + call'.left <= MaxSize
      BY <1>4, WriteFileTypes DEF NoCall
    <2> QED
      BY <2>1 DEF CallInv, Opening
  <1>5. ASSUME NEW m \in 1 .. MaxSize, Received(m) PROVE CallInv'
    <2>1. /\ call'.target + call'.left <= MaxSize /\ file'.data = file.data /\ file'.cmd = file.cmd
          /\ file'.changed = file.changed /\ call'.pc = call.pc /\ call'.write = call.write
          /\ call.pc \in {"seek", "transfer"} /\ file.data
      BY <1>0, <1>5, ReceivedTypes DEF FileType, Received
    <2>2. call.pc = "transfer" => file'.pos + call'.left <= MaxSize
      <3>1. file' = [file EXCEPT !.pos = file.pos + m]
            /\ (call.pc = "transfer" => call'.left = call.left - m)
        BY <1>5, ReceivedTypes
      <3>2. file'.pos = file.pos + m
        BY <1>0, <3>1 DEF FileType
      <3>3. call.pc = "transfer" => file.pos + call.left <= MaxSize
        BY DEF CallInv
      <3> QED
        BY <3>1, <3>2, <3>3, Fields
    <2> QED
      BY <2>1, <2>2 DEF CallInv, Opening
  <1>6. ASSUME call' = NoCall, file'.data => file'.cmd PROVE CallInv'
    BY <1>0, <1>6 DEF CallInv, Opening, NoCall
  <1>7. ASSUME NEW m \in 1 .. MaxSize, SendData(m) PROVE CallInv'
    <2>1. call' = NoCall /\ file'.data = file.data /\ file'.cmd = file.cmd
      BY <1>0, <1>7, SentTypes DEF FileType
    <2> QED
      BY <1>6, <2>1 DEF CallInv
  <1>8. ASSUME FileResetOnError PROVE CallInv'
    BY <1>0, <1>6, <1>8, ResetEffect DEF FileType
  <1>9. ASSUME ServerSteps PROVE CallInv'
    <2>1. UNCHANGED <<file, call>>
      BY <1>9 DEF ServerSteps, HandleSimple, HandleDele, HandleAbor, Store, EndTransfer,
         HandleTransfer
    <2> QED
      BY <1>1, <2>1
  <1>10. ASSUME NEW i \in Places, OtherWrites(i) \/ OtherStores(i) PROVE CallInv'
    BY <1>1, <1>10 DEF OtherWrites, OtherStores
  <1>11. ASSUME NEW pc \in Points, NEW t, NEW r, call' = [call EXCEPT !.pc = pc, !.tries = t, !.retry = r]
         PROVE  /\ call'.target = call.target /\ call'.left = call.left
                /\ call'.pc = pc /\ call'.write = call.write
    BY <1>0, <1>11 DEF CallType
  <1>12. ASSUME ClientSteps PROVE CallInv'
    <2>1. ASSUME Remove PROVE CallInv'
      <3>1. call' = [call EXCEPT !.pc = "removed", !.tries = 0] /\ call.pc = "remove" /\ file.cmd
            /\ UNCHANGED file
        BY <2>1 DEF Remove, Go
      <3> QED
        BY <1>0, <3>1 DEF CallInv, Opening, CallType
    <2>2. ASSUME Begin PROVE CallInv'
      <3>1. call' = [call EXCEPT !.pc = "seek", !.tries = 0] /\ file' = [file EXCEPT !.changed = TRUE]
        BY <2>2 DEF Begin, Go
      <3> QED
        BY <1>0, <3>1 DEF CallInv, Opening, CallType, FileType
    <2>3. ASSUME SetFilePointer PROVE CallInv'
      <3>1. call' = [call EXCEPT !.pc = "ensure", !.tries = 0] /\ call.pc = "seek"
            /\ file' = [file EXCEPT !.pos = call.target]
        BY <2>3 DEF SetFilePointer, Go
      <3> QED
        BY <1>0, <3>1 DEF CallInv, Opening, CallType, FileType
    <2>4. ASSUME SeekElsewhere PROVE CallInv'
      <3>1. call'.pc \in {"confirm", "aborted"} /\ call.pc = "seek" /\ file.data
            /\ call' = [call EXCEPT !.pc = call'.pc, !.tries = 0]
            /\ file' = [file EXCEPT !.data = FALSE]
        BY <1>0, <2>4 DEF SeekElsewhere, Go, CallType
      <3> QED
        BY <1>0, <3>1 DEF CallInv, Opening, CallType, FileType
    <2>5. ASSUME Connect PROVE CallInv'
      <3>1. ~file.data
        BY <2>5 DEF Connect, CallInv
      <3>2. CASE file' = [file EXCEPT !.cmd = TRUE] /\ call' = call
        BY <1>0, <3>1, <3>2 DEF CallInv, FileType
      <3>3. CASE UNCHANGED file /\ call' = IF call.pc = "remove" THEN [call EXCEPT !.pc = "begin"] ELSE NoCall
        <4>1. CASE call' = NoCall
          BY <1>6, <3>1, <3>3, <4>1
        <4>2. CASE call.pc = "remove" /\ call' = [call EXCEPT !.pc = "begin"]
          BY <1>0, <3>1, <3>3, <4>2 DEF CallInv, Opening, CallType
        <4> QED
          BY <3>3, <4>1, <4>2
      <3> QED
        BY <2>5, <3>2, <3>3 DEF Connect
    <2>6. ASSUME GoOn PROVE CallInv'
      <3>1. call' = [call EXCEPT !.pc = "transfer", !.tries = 0] /\ UNCHANGED file
            /\ call.pc = "ensure" /\ file.data
        BY <2>6 DEF GoOn, Go
      <3> QED
        BY <1>0, <3>1, Fields DEF CallInv, Opening, CallType
    <2>7. ASSUME OpenDataConnection PROVE CallInv'
      <3>1. call' = [call EXCEPT !.pc = "type", !.tries = 0] /\ UNCHANGED file
            /\ call.pc = "ensure" /\ file.cmd
        BY <2>7 DEF OpenDataConnection, Go
      <3> QED
        BY <1>0, <3>1 DEF CallInv, Opening, CallType
    <2>8. ASSUME Accepts PROVE CallInv'
      <3>1. call' = [call EXCEPT !.pc = "transfer", !.tries = 0] /\ call.pc = "accept"
            /\ file' = [file EXCEPT !.data = TRUE]
        BY <2>8 DEF Accepts, Go
      <3>2. call'.target = call.target /\ call'.left = call.left /\ call'.pc = "transfer"
            /\ call'.write = call.write
        BY <1>0, <3>1 DEF CallType
      <3>3. file'.data = TRUE /\ file'.pos = file.pos /\ file'.cmd = file.cmd
            /\ file'.changed = file.changed
        BY <1>0, <3>1 DEF FileType
      <3>4. file.pos = call.target /\ file.cmd /\ call.target + call.left <= MaxSize
            /\ (call.write => file.changed)
        BY <3>1 DEF CallInv, Opening
      <3> QED
        BY <3>2, <3>3, <3>4 DEF CallInv, Opening
    <2>9. ASSUME ReadDone PROVE CallInv'
      <3>1. call' = [NoCall EXCEPT !.got = call.got] /\ UNCHANGED file
        BY <2>9 DEF ReadDone
      <3> QED
        BY <1>0, <3>1 DEF CallInv, Opening, NoCall
    <2>10. ASSUME SuspendFile PROVE CallInv'
      <3>1. /\ call.pc \in {"idle", "begin"} /\ file.cmd
            /\ \/ file.data /\ file' = [file EXCEPT !.data = FALSE, !.cmd = file.changed]
               \/ ~file.data /\ file' = [file EXCEPT !.cmd = FALSE]
            /\ call' = IF file'.cmd THEN [call EXCEPT !.pc = "suspend"] ELSE call
        BY <2>10 DEF SuspendFile
      <3>2. ~file'.data /\ file'.changed = file.changed
        BY <1>0, <3>1 DEF FileType
      <3>3. call'.pc \in {call.pc, "suspend"} /\ call'.target = call.target
            /\ call'.left = call.left
        BY <1>0, <3>1 DEF CallType
      <3> QED
        BY <3>1, <3>2, <3>3 DEF CallInv, Opening
    <2> QED
      BY <1>8, <1>12, <2>1, <2>2, <2>3, <2>4, <2>5, <2>6, <2>7, <2>8, <2>9, <2>10 DEF ClientSteps
  <1>13. ASSUME NEW k \in Arrivals, NEW pc \in Points, NEW c, Sent(c), Took(k, pc, c)
         PROVE  /\ call'.target = call.target /\ call'.left = call.left
                /\ call'.pc = pc /\ call'.write = call.write
    <2>1. call' = [call EXCEPT !.pc = pc, !.tries = call'.tries]
      BY <1>0, <1>13, TookEffect
    <2> QED
      BY <1>0, <2>1 DEF CallType
  <1>14. ASSUME NEW k \in Arrivals, Skips(k) PROVE CallInv'
    <2>1. call'.target = call.target /\ call'.left = call.left /\ call'.pc = call.pc
          /\ call'.write = call.write /\ UNCHANGED file
      BY <1>0, <1>13, <1>14, Sends, Fields DEF Skips
    <2> QED
      BY <2>1 DEF CallInv
  <1>15. ASSUME NEW k \in Arrivals, Moves(k) PROVE CallInv'
    <2> DEFINE go == call'.target = call.target /\ call'.left = call.left
                     /\ call'.write = call.write /\ UNCHANGED file
    <2>1. ASSUME call.pc = "confirm", Took(k, "aborted", Abor) PROVE go /\ call'.pc = "aborted"
      BY <1>13, <1>15, <2>1, Sends DEF Moves, Points, Waiting
    <2>2. ASSUME call.pc = "aborted", Took(k, "seek", <<>>) PROVE go /\ call'.pc = "seek"
      BY <1>13, <1>15, <2>2, Sends DEF Moves, Points, Waiting
    <2>3. ASSUME call.pc = "type", Took(k, "port", << <<"PORT", 0>> >>) PROVE go /\ call'.pc = "port"
      BY <1>13, <1>15, <2>3, Sends DEF Moves, Points, Waiting
    <2>4. ASSUME call.pc = "port", Took(k, "rest", Rest) PROVE go /\ call'.pc = "rest"
      BY <1>13, <1>15, <2>4, Sends DEF Moves, Points, Waiting
    <2>5. ASSUME call.pc = "ask", Took(k, "accept", <<>>) PROVE go /\ call'.pc = "accept"
      BY <1>13, <1>15, <2>5, Sends DEF Moves, Points, Waiting
    <2> QED
      BY <1>15, <2>1, <2>2, <2>3, <2>4, <2>5 DEF Moves, CallInv, Opening
  <1>16. ASSUME NEW k \in Arrivals, Removes(k) PROVE CallInv'
    <2>1. call'.target = call.target /\ call'.left = call.left /\ call'.pc = "begin"
          /\ call'.write = call.write /\ UNCHANGED file /\ call.pc = "removed"
      BY <1>13, <1>16, Sends DEF Removes, Points, Waiting
    <2> QED
      BY <2>1 DEF CallInv, Opening
  <1>17. ASSUME NEW k \in Arrivals, FallsBack(k) PROVE CallInv'
    <2>1. call'.target = call.target /\ call'.left = call.left /\ call'.pc = "pasv"
          /\ call'.write = call.write /\ file' = [file EXCEPT !.pasv = TRUE] /\ call.pc = "type"
      BY <1>13, <1>17, Sends DEF FallsBack, Points, Waiting
    <2> QED
      BY <1>0, <2>1 DEF CallInv, Opening, FileType
  <1>18. ASSUME NEW k \in Arrivals, Connects(k) PROVE CallInv'
    <2>1. call'.target = call.target /\ call'.left = call.left /\ call'.pc = "rest"
          /\ call'.write = call.write /\ file' = [file EXCEPT !.data = TRUE] /\ call.pc = "pasv"
      BY <1>13, <1>18, Sends DEF Connects, Points, Waiting
    <2> QED
      BY <1>0, <2>1 DEF CallInv, Opening, FileType
  <1>19. ASSUME NEW k \in Arrivals, Asks(k) PROVE CallInv'
    <2>1. Sent(<< <<Wanted, 0>> >>)
      BY Sends DEF Wanted
    <2>2. call'.target = call.target /\ call'.left = call.left /\ call'.pc = "ask"
          /\ call'.write = call.write /\ UNCHANGED file /\ call.pc = "rest"
      BY <1>13, <1>19, <2>1 DEF Asks, Points, Waiting
    <2> QED
      BY <2>2 DEF CallInv, Opening
  <1>20. ASSUME NEW k \in Arrivals, AsksAgain(k) PROVE CallInv'
    <2>1. call'.target = call.target /\ call'.left = call.left /\ call'.pc = "type"
          /\ call'.write = call.write /\ UNCHANGED file /\ call.pc = "ask"
      BY <1>11, <1>20 DEF AsksAgain, Points, Waiting
    <2> QED
      BY <2>1 DEF CallInv, Opening
  <1>21. ASSUME NEW k \in Arrivals, Suspends(k) PROVE CallInv'
    <2> DEFINE pc == IF call.left > 0 THEN "begin" ELSE "idle"
    <2>1. pc \in Points /\ Took(k, pc, <<>>)
      BY <1>21 DEF Points, Suspends
    <2>2. call'.target = call.target /\ call'.left = call.left /\ call'.pc = pc
          /\ call'.write = call.write
      <3> HIDE DEF pc
      <3> QED
        BY <1>13, <2>1, Sends
    <2>3. call.pc = "suspend" /\ file' = [file EXCEPT !.cmd = FALSE] /\ ~file.data
      BY <1>21 DEF Suspends, CallInv
    <2> QED
      BY <1>0, <2>2, <2>3 DEF CallInv, Opening, FileType
  <1>22. ASSUME TakesReplies PROVE CallInv'
    BY <1>8, <1>14, <1>15, <1>16, <1>17, <1>18, <1>19, <1>20, <1>21, <1>22 DEF TakesReplies
  <1>23. CASE Next
    BY <1>0, <1>3, <1>4, <1>5, <1>7, <1>9, <1>10, <1>12, <1>22, <1>23, StepCases
  <1> QED
    BY <1>2, <1>23

\* CallInv holds at the start.
LEMMA InitCall == Init => CallInv
  <1> SUFFICES ASSUME Init PROVE CallInv
    OBVIOUS
  <1>1. file.data = FALSE
    BY DEF Init
  <1>2. call = NoCall
    BY DEF Init
  <1> QED
    BY <1>1, <1>2, TransferAssumption DEF CallInv, NoCall, Opening


----------------------------------------------------------------------------
\* Every step brings a call nearer to its end.
PhaseTable ==
    /\ call.pc = "idle" => Phase = 0
    /\ call.pc = "transfer" => Phase = 1
    /\ call.pc = "accept" => Phase = 2
    /\ call.pc = "ask" => IF call.retry THEN Phase = 3 ELSE Phase = 9
    /\ call.pc = "rest" => IF call.retry THEN Phase = 4 ELSE Phase = 10
    /\ call.pc \in {"port", "pasv"} => IF call.retry THEN Phase = 5 ELSE Phase = 11
    /\ call.pc = "type" => IF call.retry THEN Phase = 6 ELSE Phase = 12
    /\ call.pc = "ensure" => IF file.cmd THEN Phase = 13 ELSE Phase = 14
    /\ call.pc = "aborted" => Phase = 16
    /\ call.pc = "confirm" => Phase = 17
    /\ call.pc = "seek" => IF file.data THEN Phase = 18 ELSE Phase = 15
    /\ call.pc = "suspend" => Phase = 20
    /\ call.pc = "begin" => IF file.cmd THEN Phase = 21 ELSE Phase = 19
    /\ call.pc = "removed" => Phase = 22
    /\ call.pc = "remove" => IF file.cmd THEN Phase = 23 ELSE Phase = 24

\* The phases, one by one.
LEMMA PhaseIs == PhaseTable /\ PhaseTable'
  BY SMTT(60) DEF PhaseTable, Phase

LEMMA SamePhase ==
    ASSUME call'.pc = call.pc, call'.retry = call.retry, file'.cmd = file.cmd,
           file'.data = file.data
    PROVE  Phase' = Phase
  BY DEF Phase

LEMMA PhasePositive ==
    ASSUME call.pc \in Points, call.pc # "idle"
    PROVE  Phase \in Nat /\ 0 < Phase
  BY PhaseIs DEF PhaseTable, Points, Waiting

\* What there is to do, in numbers.
Ahead(pos, target) == IF pos <= target THEN target - pos ELSE 0
\* The parts of Work.
Doing(xfer) == IF xfer = "none" THEN 0 ELSE 2

\* The parts of Work are numbers.
LEMMA Numbers ==
    /\ \A p, t \in 0 .. MaxSize : Ahead(p, t) \in Nat
    /\ \A x : Doing(x) \in Nat
  BY TransferAssumption DEF Ahead, Doing

\* So they are in a state.
LEMMA Counts ==
    ASSUME Types
    PROVE  /\ Len(session.cmds) \in Nat /\ Len(session.replies) \in Nat
           /\ Len(link.wire) \in Nat /\ call.left \in Nat
           /\ Doing(session.xfer) \in Nat /\ Ahead(file.pos, call.target) \in Nat
  <1>1. /\ session.cmds \in Seq(Commands) /\ session.replies \in Seq(Codes)
        /\ link.wire \in Seq(Bytes)
        /\ call.left \in 0 .. MaxSize /\ file.pos \in 0 .. MaxSize
        /\ call.target \in 0 .. MaxSize
    BY Fields
  <1>2. ASSUME NEW S, NEW s \in Seq(S) PROVE Len(s) \in Nat
    OBVIOUS
  <1>3. call.left \in Nat
    BY <1>1, TransferAssumption
  <1> QED
    BY <1>1, <1>2, <1>3, Numbers

LEMMA WorkIs ==
    /\ Work = 4 * Len(session.cmds) + Len(session.replies) + Doing(session.xfer)
              + Len(link.wire) + call.left + Ahead(file.pos, call.target)
    /\ Work' = 4 * Len(session'.cmds) + Len(session'.replies) + Doing(session'.xfer)
              + Len(link'.wire) + call'.left + Ahead(file'.pos, call'.target)
  BY DEF Work, Backlog, Doing, Ahead

\* What CallAdvances says of a step of a call.
Advances ==
    \/ Phase' < Phase
    \/ Phase' = Phase /\ (Work' < Work \/ (Work' = Work /\ Others))

\* The server uses up what it has to do.
LEMMA ServerWorks ==
    ASSUME Types, ServerSteps
    PROVE  Phase' = Phase /\ Work' < Work
  <1>0. session \in SessionType /\ link \in LinkType
    BY DEF Types
  <1>1. UNCHANGED <<file, call>>
    BY DEF ServerSteps, HandleSimple, HandleDele, HandleAbor, Store, EndTransfer,
       HandleTransfer
  <1>2. Phase' = Phase
    BY <1>1, SamePhase
  <1>3. /\ Len(session.cmds) \in Nat /\ Len(session.replies) \in Nat /\ Len(link.wire) \in Nat
        /\ Doing(session.xfer) \in Nat /\ call.left \in Nat
        /\ Ahead(file.pos, call.target) \in Nat
        /\ Doing("none") = 0 /\ Doing("RETR") = 2 /\ Doing("STOR") = 2
        /\ session.cmds \in Seq(Commands) /\ session.replies \in Seq(Codes)
    BY Counts, Fields DEF Doing
  <1> DEFINE a == Len(session.cmds)
             b == Len(session.replies)
             d == Doing(session.xfer)
             w == Len(link.wire)
             e == call.left + Ahead(file.pos, call.target)
             Left(a1, b1, d1, w1) == 4 * a1 + b1 + d1 + w1 + e
  <1>4. Work = Left(a, b, d, w) /\ a \in Nat /\ b \in Nat /\ d \in Nat /\ w \in Nat /\ e \in Nat
    <2>1. Work = 4 * a + b + d + w + call.left + Ahead(file.pos, call.target)
      BY WorkIs
    <2> DEFINE l == call.left
               h == Ahead(file.pos, call.target)
    <2>2. a \in Nat /\ b \in Nat /\ d \in Nat /\ w \in Nat /\ l \in Nat /\ h \in Nat
      BY <1>3
    <2> HIDE DEF a, b, d, w, l, h
    <2>3. 4 * a + b + d + w + l + h = 4 * a + b + d + w + (l + h) /\ l + h \in Nat
      BY <2>2
    <2> QED
      BY <2>1, <2>2, <2>3 DEF l, h
  <1>11. ASSUME NEW a1 \in Nat, NEW b1 \in Nat, NEW d1 \in Nat, NEW w1 \in Nat,
                Len(session'.cmds) = a1, Len(session'.replies) = b1,
                Doing(session'.xfer) = d1, Len(link'.wire) = w1
         PROVE  Work' = Left(a1, b1, d1, w1)
    <2>1. Work' = 4 * a1 + b1 + d1 + w1 + call.left + Ahead(file.pos, call.target)
      BY <1>1, <1>11, WorkIs
    <2> DEFINE l == call.left
               h == Ahead(file.pos, call.target)
    <2>2. l \in Nat /\ h \in Nat
      BY <1>3
    <2> HIDE DEF l, h
    <2>3. 4 * a1 + b1 + d1 + w1 + l + h = 4 * a1 + b1 + d1 + w1 + (l + h)
      BY <2>2
    <2> QED
      BY <2>1, <2>3 DEF l, h
  <1>5. \A v, r : r \in Seq(Codes) /\ Handles(v, r) /\ v # "ABOR" /\ link' = link =>
            /\ Len(session'.cmds) = a - 1 /\ a >= 1 /\ Len(session'.replies) = b + Len(r)
            /\ Doing(session'.xfer) = d /\ Len(link'.wire) = w
    <2> SUFFICES ASSUME NEW v, NEW r \in Seq(Codes), Handles(v, r), v # "ABOR", link' = link
                 PROVE  /\ Len(session'.cmds) = a - 1 /\ a >= 1
                        /\ Len(session'.replies) = b + Len(r)
                        /\ Doing(session'.xfer) = d /\ Len(link'.wire) = w
      OBVIOUS
    <2>1. session.cmds # <<>> /\ session'.cmds = Tail(session.cmds)
          /\ session'.replies = session.replies \o r /\ session'.xfer = session.xfer
      BY <1>0, HandlesEffect
    <2>2. Len(session'.cmds) = a - 1 /\ a >= 1
      BY <1>3, <2>1, Tailed
    <2>3. Len(session'.replies) = Len(session.replies) + Len(r)
      BY <1>3, <2>1
    <2> QED
      BY <1>3, <2>1, <2>2, <2>3
  <1>6. ASSUME HandleSimple \/ HandleDele PROVE Work' < Work
    <2>1. PICK v \in {"TYPE", "PORT", "PASV", "REST", "DELE"}, c \in Codes : Handles(v, <<c>>)
      BY <1>0, <1>6, SimpleEffect DEF HandleDele, Codes
    <2>2. <<c>> \in Seq(Codes) /\ Len(<<c>>) = 1 /\ link' = link
      BY <1>6 DEF HandleSimple, HandleDele
    <2>3. /\ Len(session'.cmds) = a - 1 /\ a >= 1 /\ Len(session'.replies) = b + 1
          /\ Doing(session'.xfer) = d /\ Len(link'.wire) = w
      BY <1>5, <2>1, <2>2
    <2> HIDE DEF a, b, d, w, e
    <2>4. Work' = Left(a - 1, b + 1, d, w)
      BY <1>4, <1>11, <2>3
    <2> QED
      BY <1>4, <2>3, <2>4
  <1>7. ASSUME HandleAbor PROVE Work' < Work
    <2>1. link'.wire = <<>>
      <3>1. link' = [link EXCEPT !.wire = <<>>]
        BY <1>7, AborEffect
      <3> QED
        BY <1>0, <3>1 DEF LinkType
    <2>2. Len(link'.wire) = 0
      BY <2>1
    <2>3. ASSUME NEW r \in Seq(Codes), NEW n \in {1, 2}, Len(r) = n, Handles("ABOR", r)
          PROVE  /\ session.cmds # <<>> /\ session'.cmds = Tail(session.cmds)
                 /\ session'.xfer = "none" /\ Len(session'.replies) = b + n
      <3>1. /\ session.cmds # <<>> /\ session'.cmds = Tail(session.cmds)
            /\ session'.replies = session.replies \o r /\ session'.xfer = "none"
        BY <1>0, <2>3, HandlesEffect
      <3>2. Len(session.replies \o r) = b + Len(r)
        BY <1>3
      <3> QED
        BY <2>3, <3>1, <3>2
    <2>4. /\ Len(<<"226 ABOR">>) = 1 /\ Len(<<"225">>) = 1 /\ Len(<<"426", "226 ABOR">>) = 2
      OBVIOUS
    <2>5. \E n \in {1, 2} :
            /\ session.cmds # <<>> /\ session'.cmds = Tail(session.cmds)
            /\ session'.xfer = "none" /\ Len(session'.replies) = b + n
            /\ session.xfer = "none" => n = 1
      <3>1. CASE Handles("ABOR", <<"226 ABOR">>)
        BY <2>3, <2>4, <3>1, Answers
      <3>2. CASE Handles("ABOR", <<"225">>)
        BY <2>3, <2>4, <3>2, Answers
      <3>3. CASE Handles("ABOR", <<"426", "226 ABOR">>) /\ session.xfer # "none"
        BY <2>3, <2>4, <3>3, Answers
      <3> QED
        BY <1>7, <3>1, <3>2, <3>3 DEF HandleAbor
    <2>7. PICK n \in {1, 2} :
            /\ session.cmds # <<>> /\ session'.cmds = Tail(session.cmds)
            /\ session'.xfer = "none" /\ Len(session'.replies) = b + n
            /\ session.xfer = "none" => n = 1
      BY <2>5
    <2>6. Len(session'.cmds) = a - 1 /\ a >= 1
      BY <1>3, <2>7, Tailed
    <2>8. Doing(session'.xfer) = 0 /\ (n = 2 => d = 2)
      BY <1>3, <2>7, Fields DEF Transfers
    <2> HIDE DEF a, b, d, w, e
    <2>9. b + n \in Nat /\ a - 1 \in Nat
      BY <1>4, <2>6
    <2>10. Work' = Left(a - 1, b + n, 0, 0)
      BY <1>3, <1>11, <2>2, <2>6, <2>7, <2>8, <2>9
    <2>11. n \in Nat /\ n <= 2
      OBVIOUS
    <2> HIDE DEF Left
    <2>12. Left(a - 1, b + n, 0, 0) < Left(a, b, d, w)
      BY <1>4, <2>6, <2>11 DEF Left
    <2> QED
      BY <1>4, <2>10, <2>12
  <1>8. ASSUME Store PROVE Work' < Work
    <2>1. Len(link'.wire) = Len(link.wire) - 1 /\ Len(link.wire) >= 1 /\ UNCHANGED session
      BY <1>8, StoreEffect
    <2>3. /\ Len(link'.wire) = w - 1 /\ w >= 1 /\ Len(session'.cmds) = a
          /\ Len(session'.replies) = b /\ Doing(session'.xfer) = d
      BY <2>1
    <2> HIDE DEF a, b, d, w, e
    <2>2. w >= 1 /\ Work' = Left(a, b, d, w - 1)
      <3>2. w - 1 \in Nat
        BY <1>4, <2>3
      <3> QED
        BY <1>4, <1>11, <2>3, <3>2
    <2> QED
      BY <1>4, <2>2
  <1>9. ASSUME EndTransfer PROVE Work' < Work
    <2>1. PICK reply \in {"226", "426"} :
            /\ session' = [session EXCEPT !.xfer = "none", !.replies = Append(@, reply)]
            /\ session.xfer \in {"RETR", "STOR"} /\ UNCHANGED link
      BY <1>0, <1>9, EndEffect
    <2>2. Len(Append(session.replies, reply)) = Len(session.replies) + 1
      BY <1>3
    <2>3. session'.xfer = "none" /\ session'.cmds = session.cmds
          /\ session'.replies = Append(session.replies, reply)
      BY <1>0, <2>1 DEF SessionType
    <2>4. d = 2 /\ Len(session'.cmds) = a /\ Len(session'.replies) = b + 1
          /\ Doing(session'.xfer) = 0 /\ Len(link'.wire) = w
      BY <1>3, <2>1, <2>2, <2>3
    <2> HIDE DEF a, b, d, w, e
    <2>5. Work' = Left(a, b + 1, 0, w)
      BY <1>4, <1>11, <2>4
    <2> QED
      BY <1>4, <2>4, <2>5
  <1>10. ASSUME NEW v \in Transfers, HandleTransfer(v) PROVE Work' < Work
    <2>1. /\ session.cmds # <<>> /\ session.xfer = "none"
          /\ session'.cmds = Tail(session.cmds)
          /\ \/ Begins(v)
             \/ \E reply \in {"425", "550"} : Refuses(reply)
      BY <1>0, <1>10, TransferEffect
    <2>2. Len(session'.cmds) = a - 1 /\ a >= 1
      BY <1>3, <2>1, Tailed
    <2>3. \A c : Len(Append(session.replies, c)) = Len(session.replies) + 1
      BY <1>3
    <2>4. ASSUME Begins(v) PROVE Work' < Work
      <3>1. session'.replies = Append(session.replies, "150") /\ session'.xfer = v
        BY <1>0, <2>4 DEF Begins, SessionType
      <3>2. link'.wire = link.wire
        BY <1>0, <2>4 DEF Begins, LinkType
      <3>3. d = 0 /\ Len(session'.replies) = b + 1 /\ Doing(session'.xfer) = 2
            /\ Len(link'.wire) = w
        BY <1>3, <2>1, <2>3, <3>1, <3>2 DEF Transfers
      <3> HIDE DEF a, b, d, w, e
      <3>4. Work' = Left(a - 1, b + 1, 2, w)
        BY <1>4, <1>11, <2>2, <3>3
      <3> QED
        BY <1>4, <2>2, <3>3, <3>4
    <2>5. ASSUME NEW reply \in {"425", "550"}, Refuses(reply) PROVE Work' < Work
      <3>1. session'.replies = Append(session.replies, reply) /\ session'.xfer = session.xfer
        BY <1>0, <2>5 DEF Refuses, SessionType
      <3>2. link'.wire = <<>>
        BY <1>0, <2>5 DEF Refuses, LinkType
      <3>3. Len(link'.wire) = 0
        BY <3>2
      <3>4. Len(session'.replies) = b + 1 /\ Doing(session'.xfer) = d
        BY <2>3, <3>1
      <3> HIDE DEF a, b, d, w, e
      <3>5. Work' = Left(a - 1, b + 1, d, 0)
        BY <1>4, <1>11, <2>2, <3>3, <3>4
      <3> QED
        BY <1>4, <2>2, <3>5
    <2> QED
      BY <2>1, <2>4, <2>5
  <1> QED
    BY <1>2, <1>6, <1>7, <1>8, <1>9, <1>10 DEF ServerSteps


\* A reply is taken, or bytes are received: there is less to do.
LEMMA SkipWorks ==
    ASSUME Types, NEW k \in Arrivals, Skips(k)
    PROVE  Phase' = Phase /\ Work' < Work
  <1>0. session \in SessionType /\ call \in CallType /\ amiss \subseteq {"failed", "shifted"}
    BY DEF Types
  <1>1. /\ session' = [session EXCEPT !.replies = SubSeq(@, k + 1, Len(@)), !.cmds = @ \o <<>>]
        /\ call' = [call EXCEPT !.pc = call.pc, !.tries = call'.tries]
        /\ UNCHANGED <<file, link>>
    BY <1>0, Fields, Sends, TookEffect DEF Skips
  <1>2. call'.pc = call.pc /\ call'.retry = call.retry /\ call'.left = call.left
        /\ call'.target = call.target
    BY <1>0, <1>1 DEF CallType
  <1>3. Phase' = Phase
    BY <1>1, <1>2, SamePhase
  <1>4. k \in 1 .. Len(session.replies)
    <2>1. k \in 0 .. Len(session.replies) /\ k \in Nat
      BY <1>0, ArrivalsAre
    <2>2. k > 0
      BY DEF Skips
    <2> QED
      BY <2>1, <2>2
  <1>5. session.cmds \o <<>> = session.cmds
    BY Fields
  <1>6. session'.replies = SubSeq(session.replies, k + 1, Len(session.replies))
        /\ session'.cmds = session.cmds /\ session'.xfer = session.xfer
    BY <1>0, <1>1, <1>5 DEF SessionType
  <1>7. Len(session'.replies) = Len(session.replies) - k
    <2>1. k \in 0 .. Len(session.replies) /\ session.replies \in Seq(Codes)
      BY <1>4, Fields
    <2> QED
      BY <1>6, <2>1, Shortened
  <1>8. Work' < Work
    <2> DEFINE a == 4 * Len(session.cmds)
               b == Len(session.replies)
               d == Doing(session.xfer)
               w == Len(link.wire)
               l == call.left
               h == Ahead(file.pos, call.target)
    <2>1. Work = a + b + d + w + l + h /\ Work' = a + (b - k) + d + w + l + h
      BY <1>1, <1>2, <1>6, <1>7, WorkIs
    <2>2. a \in Nat /\ b \in Nat /\ d \in Nat /\ w \in Nat /\ l \in Nat /\ h \in Nat
      BY Counts
    <2>3. k \in Nat /\ 0 < k /\ k <= b
      BY <1>4
    <2> HIDE DEF a, b, d, w, l, h
    <2> QED
      BY <2>1, <2>2, <2>3
  <1> QED
    BY <1>3, <1>8

\* Bytes that are received are work done.
LEMMA ReceiveWorks ==
    ASSUME Types, CallInv, Dense, NEW m \in 1 .. MaxSize, Received(m)
    PROVE  Phase' = Phase /\ Work' < Work
  <1>0. file \in FileType /\ link \in LinkType /\ call \in CallType
    BY DEF Types
  <1>1. /\ file' = [file EXCEPT !.pos = file.pos + m] /\ link' = [link EXCEPT !.at = link.at + m]
        /\ UNCHANGED session
        /\ \/ call.pc = "seek" /\ call' = call
           \/ /\ call.pc = "transfer" /\ call'.left = call.left - m
              /\ call'.pc = call.pc /\ call'.target = call.target /\ call'.retry = call.retry
    BY ReceivedTypes
  <1>2. file'.pos = file.pos + m /\ file'.cmd = file.cmd /\ file'.data = file.data
    BY <1>0, <1>1 DEF FileType
  <1>3. link'.wire = link.wire
    BY <1>0, <1>1 DEF LinkType
  <1>4. Phase' = Phase
    BY <1>1, <1>2, SamePhase
  <1>5. Work' < Work
    <2> DEFINE a == 4 * Len(session.cmds)
               b == Len(session.replies)
               d == Doing(session.xfer)
               w == Len(link.wire)
               l == call.left
               h == Ahead(file.pos, call.target)
               h1 == Ahead(file.pos + m, call.target)
    <2>1. Work = a + b + d + w + l + h /\ Work' = a + b + d + w + call'.left + h1
      BY <1>1, <1>2, <1>3, WorkIs
    <2>2. a \in Nat /\ b \in Nat /\ d \in Nat /\ w \in Nat /\ l \in Nat /\ h \in Nat /\ h1 \in Nat
      <3>1. file.pos + m \in 1 .. MaxSize
        BY ReceivedTypes
      <3>2. call.target \in 0 .. MaxSize
        BY Fields
      <3>3. file.pos + m \in 0 .. MaxSize
        BY <3>1
      <3>4. h1 \in Nat
        BY <3>2, <3>3, Numbers, Zenon
      <3> HIDE DEF h1
      <3>5. b \in Nat /\ d \in Nat /\ w \in Nat /\ l \in Nat /\ h \in Nat
        BY Counts, Zenon
      <3>6. a \in Nat
        BY Counts
      <3> QED
        BY <3>4, <3>5, <3>6
    <2>3. m \in Nat /\ 0 < m /\ h1 <= h /\ (file.pos + m <= call.target => h1 = h - m)
      <3>1. file.pos \in Nat /\ call.target \in Nat /\ m \in Nat /\ 0 < m
        BY Fields
      <3> QED
        BY <3>1 DEF Ahead
    <2>4. \/ call'.left = l /\ h1 = h - m
          \/ call'.left = l - m
      BY <1>1, <2>3 DEF Received
    <2> HIDE DEF a, b, d, w, l, h, h1
    <2> QED
      BY <2>1, <2>2, <2>3, <2>4
  <1> QED
    BY <1>4, <1>5

\* What the other handle does makes no difference to this one.
LEMMA OthersWork ==
    ASSUME Types, NEW i \in Places, OtherWrites(i) \/ OtherStores(i)
    PROVE  Phase' = Phase /\ Work' = Work /\ Others
  <1>0. link \in LinkType
    BY DEF Types
  <1>1. UNCHANGED <<file, call, session>> /\ Others
    BY DEF OtherWrites, OtherStores, Others
  <1>2. Len(link'.wire) = Len(link.wire)
    <2>1. ASSUME OtherWrites(i) PROVE Len(link'.wire) = Len(link.wire)
      <3>1. link' = [link EXCEPT !.wire = AgedWire({i})] /\ Len(AgedWire({i})) = Len(link.wire)
        BY <2>1, Fields, AgedWireIs DEF OtherWrites
      <3> QED
        BY <1>0, <3>1 DEF LinkType
    <2>2. ASSUME OtherStores(i) PROVE Len(link'.wire) = Len(link.wire)
      BY <1>0, <2>2 DEF OtherStores, LinkType
    <2> QED
      BY <2>1, <2>2
  <1> QED
    BY <1>1, <1>2, SamePhase, WorkIs

\* All other steps of the client take the call to a later phase.
LEMMA ClientAdvances ==
    ASSUME Types, CallInv, call.pc # "idle", ClientSteps
    PROVE  Phase' < Phase
  <1>0. session \in SessionType /\ call \in CallType /\ file \in FileType
    BY DEF Types
  <1>1. call.retry \in BOOLEAN /\ file.cmd \in BOOLEAN /\ file.data \in BOOLEAN /\ call.pc \in Points
    BY <1>0 DEF CallType, FileType
  <1>2. call'.retry \in BOOLEAN /\ file'.cmd \in BOOLEAN /\ file'.data \in BOOLEAN
    BY ClientTypes DEF Types, CallType, FileType
  <1>3. ASSUME NEW pc, call' = [call EXCEPT !.pc = pc, !.tries = 0]
        PROVE  call'.pc = pc /\ call'.retry = call.retry
    BY <1>0, <1>3 DEF CallType
  <1>4. ASSUME NEW pc, call' = [call EXCEPT !.pc = pc]
        PROVE  call'.pc = pc /\ call'.retry = call.retry
    BY <1>0, <1>4 DEF CallType
  <1>5. ASSUME call'.pc = "idle", call'.retry \in BOOLEAN, file'.cmd \in BOOLEAN,
               file'.data \in BOOLEAN
        PROVE  Phase' < Phase
    BY <1>1, <1>5, PhaseIs, PhasePositive DEF PhaseTable
  <1>6. ASSUME Remove PROVE Phase' < Phase
    <2>1. call.pc = "remove" /\ file.cmd = TRUE /\ UNCHANGED file /\ call'.pc = "removed"
          /\ call'.retry = call.retry
      BY <1>1, <1>3, <1>6 DEF Remove, Go
    <2> QED
      BY <1>1, <1>2, <2>1, PhaseIs DEF PhaseTable
  <1>7. ASSUME Begin PROVE Phase' < Phase
    <2>1. call.pc = "begin" /\ call'.pc = "seek" /\ call'.retry = call.retry
          /\ file' = [file EXCEPT !.changed = TRUE]
      BY <1>3, <1>7 DEF Begin, Go
    <2>2. file'.cmd = file.cmd /\ file'.data = file.data
      BY <1>0, <2>1 DEF FileType
    <2>3. file.data = FALSE \/ file.cmd = TRUE
      BY <1>1 DEF CallInv
    <2> QED
      BY <1>1, <1>2, <2>1, <2>2, <2>3, PhaseIs DEF PhaseTable
  <1>8. ASSUME SetFilePointer PROVE Phase' < Phase
    <2>1. call.pc = "seek" /\ call'.pc = "ensure" /\ call'.retry = call.retry
          /\ file' = [file EXCEPT !.pos = call.target]
      BY <1>3, <1>8 DEF SetFilePointer, Go
    <2>2. file'.cmd = file.cmd /\ file'.data = file.data
      BY <1>0, <2>1 DEF FileType
    <2> QED
      BY <1>1, <1>2, <2>1, <2>2, PhaseIs DEF PhaseTable
  <1>9. ASSUME SeekElsewhere PROVE Phase' < Phase
    <2>1. call.pc = "seek" /\ call'.pc \in {"confirm", "aborted"} /\ call'.retry = call.retry
          /\ file.data = TRUE /\ file' = [file EXCEPT !.data = FALSE]
      BY <1>1, <1>3, <1>9 DEF SeekElsewhere, Go
    <2>2. file'.cmd = file.cmd /\ file'.data = FALSE
      BY <1>0, <2>1 DEF FileType
    <2> QED
      BY <1>1, <1>2, <2>1, <2>2, PhaseIs DEF PhaseTable
  <1>10. ASSUME Connect PROVE Phase' < Phase
    <2>1. call.pc \in {"remove", "ensure"} /\ file.cmd = FALSE
      BY <1>1, <1>10 DEF Connect
    <2>2. CASE file' = [file EXCEPT !.cmd = TRUE] /\ call' = call
      <3>1. file'.cmd = TRUE /\ file'.data = file.data
        BY <1>0, <2>2 DEF FileType
      <3> QED
        BY <1>1, <1>2, <2>1, <2>2, <3>1, PhaseIs DEF PhaseTable
    <2>3. CASE UNCHANGED file /\ call.pc = "remove" /\ call' = [call EXCEPT !.pc = "begin"]
      <3>1. call'.pc = "begin" /\ call'.retry = call.retry
        BY <1>4, <2>3
      <3> QED
        BY <1>1, <2>1, <2>3, <3>1, PhaseIs DEF PhaseTable
    <2>4. CASE UNCHANGED file /\ call' = NoCall
      BY <1>1, <1>5, <2>4 DEF NoCall
    <2> QED
      BY <1>10, <2>2, <2>3, <2>4 DEF Connect
  <1>11. ASSUME GoOn PROVE Phase' < Phase
    <2>1. call.pc = "ensure" /\ UNCHANGED file /\ call'.pc = "transfer"
          /\ call'.retry = call.retry
      BY <1>3, <1>11 DEF GoOn, Go
    <2> QED
      BY <1>1, <1>2, <2>1, PhaseIs DEF PhaseTable
  <1>12. ASSUME OpenDataConnection PROVE Phase' < Phase
    <2>1. call.pc = "ensure" /\ UNCHANGED file /\ call'.pc = "type"
          /\ call'.retry = call.retry
      BY <1>3, <1>12 DEF OpenDataConnection, Go
    <2> QED
      BY <1>1, <1>2, <2>1, PhaseIs DEF PhaseTable
  <1>13. ASSUME Accepts PROVE Phase' < Phase
    <2>1. call.pc = "accept" /\ call'.pc = "transfer" /\ call'.retry = call.retry
          /\ file' = [file EXCEPT !.data = TRUE]
      BY <1>3, <1>13 DEF Accepts, Go
    <2>2. file'.cmd = file.cmd /\ file'.data = TRUE
      BY <1>0, <2>1 DEF FileType
    <2> QED
      BY <1>1, <1>2, <2>1, <2>2, PhaseIs DEF PhaseTable
  <1>14. ASSUME ReadDone PROVE Phase' < Phase
    <2>1. call' = [NoCall EXCEPT !.got = call.got] /\ UNCHANGED file
      BY <1>14 DEF ReadDone
    <2>2. call'.pc = "idle" /\ call'.retry = FALSE
      BY <2>1 DEF NoCall
    <2> QED
      BY <1>1, <1>5, <2>1, <2>2
  <1>15. ASSUME SuspendFile PROVE Phase' < Phase
    <2>1. /\ call.pc = "begin" /\ file.cmd = TRUE
          /\ \/ file' = [file EXCEPT !.data = FALSE, !.cmd = file.changed]
             \/ file' = [file EXCEPT !.cmd = FALSE]
          /\ call' = IF file'.cmd THEN [call EXCEPT !.pc = "suspend"] ELSE call
      BY <1>1, <1>15 DEF SuspendFile
    <2>2. file'.cmd \in BOOLEAN /\ file'.data \in BOOLEAN
      BY <1>0, <2>1 DEF FileType
    <2>3. call'.retry = call.retry /\ call'.pc = IF file'.cmd THEN "suspend" ELSE "begin"
      BY <1>4, <2>1
    <2> QED
      BY <1>1, <1>2, <2>1, <2>2, <2>3, PhaseIs DEF PhaseTable
  <1>16. ASSUME FileResetOnError PROVE Phase' < Phase
    <2>1. call' = NoCall /\ file' \in FileType
      BY <1>16, ResetEffect
    <2> QED
      BY <1>5, <2>1 DEF NoCall, FileType
  <1> QED
    BY <1>6, <1>7, <1>8, <1>9, <1>10, <1>11, <1>12, <1>13, <1>14, <1>15, <1>16 DEF ClientSteps

\* A reply is used up, or the call gets to the next phase.
LEMMA RepliesAdvance ==
    ASSUME Types, CallInv, call.pc # "idle", TakesReplies
    PROVE  Advances
  <1>0. session \in SessionType /\ call \in CallType /\ file \in FileType
        /\ amiss \subseteq {"failed", "shifted"}
    BY DEF Types
  <1>1. call.retry \in BOOLEAN /\ file.cmd \in BOOLEAN /\ file.data \in BOOLEAN
    BY <1>0 DEF CallType, FileType
  <1>12. call'.retry \in BOOLEAN /\ file'.cmd \in BOOLEAN /\ file'.data \in BOOLEAN
    BY RepliesTypes DEF Types, CallType, FileType
  <1>2. ASSUME NEW k, NEW pc \in Points, NEW c, Took(k, pc, c)
        PROVE  call'.pc = pc /\ call'.retry = call.retry
    BY <1>0, <1>2 DEF CallType, Took
  <1>3. ASSUME NEW k \in Arrivals, Skips(k) PROVE Advances
    BY <1>3, SkipWorks DEF Advances
  <1>4. ASSUME NEW k \in Arrivals, Moves(k) PROVE Phase' < Phase
    <2>1. /\ UNCHANGED file /\ call'.retry = call.retry
          /\ \/ call.pc = "confirm" /\ call'.pc = "aborted"
             \/ call.pc = "aborted" /\ call'.pc = "seek"
             \/ call.pc = "type" /\ call'.pc = "port"
             \/ call.pc = "port" /\ call'.pc = "rest"
             \/ call.pc = "ask" /\ call'.pc = "accept"
      BY <1>2, <1>4 DEF Moves, Points, Waiting
    <2>2. call.pc = "aborted" => file.data = FALSE
      BY <1>1 DEF CallInv
    <2> QED
      BY <1>1, <1>12, <2>1, <2>2, PhaseIs DEF PhaseTable
  <1>5. ASSUME NEW k \in Arrivals, Removes(k) PROVE Phase' < Phase
    <2>1. UNCHANGED file /\ call'.retry = call.retry /\ call.pc = "removed" /\ call'.pc = "begin"
      BY <1>2, <1>5 DEF Removes, Points
    <2> QED
      BY <1>1, <1>12, <2>1, PhaseIs DEF PhaseTable
  <1>6. ASSUME NEW k \in Arrivals, FallsBack(k) PROVE Phase' < Phase
    <2>1. /\ call'.retry = call.retry /\ call.pc = "type" /\ call'.pc = "pasv"
          /\ file' = [file EXCEPT !.pasv = TRUE]
      BY <1>2, <1>6 DEF FallsBack, Points, Waiting
    <2>2. file'.cmd = file.cmd /\ file'.data = file.data
      BY <1>0, <2>1 DEF FileType
    <2> QED
      BY <1>1, <1>12, <2>1, <2>2, PhaseIs DEF PhaseTable
  <1>7. ASSUME NEW k \in Arrivals, Connects(k) PROVE Phase' < Phase
    <2>1. /\ call'.retry = call.retry /\ call.pc = "pasv" /\ call'.pc = "rest"
          /\ file' = [file EXCEPT !.data = TRUE]
      BY <1>2, <1>7 DEF Connects, Points, Waiting
    <2>2. file'.cmd = file.cmd /\ file'.data = TRUE
      BY <1>0, <2>1 DEF FileType
    <2> QED
      BY <1>1, <1>12, <2>1, <2>2, PhaseIs DEF PhaseTable
  <1>8. ASSUME NEW k \in Arrivals, Asks(k) PROVE Phase' < Phase
    <2>1. UNCHANGED file /\ call'.retry = call.retry /\ call.pc = "rest" /\ call'.pc = "ask"
      BY <1>2, <1>8 DEF Asks, Points, Waiting
    <2> QED
      BY <1>1, <1>12, <2>1, PhaseIs DEF PhaseTable
  <1>9. ASSUME NEW k \in Arrivals, AsksAgain(k) PROVE Phase' < Phase
    <2>1. call' = [call EXCEPT !.pc = "type", !.tries = 0, !.retry = TRUE]
      BY <1>9 DEF AsksAgain
    <2>2. UNCHANGED file /\ call.pc = "ask" /\ call.retry = FALSE
      BY <1>1, <1>9 DEF AsksAgain
    <2>3. call'.pc = "type" /\ call'.retry = TRUE
      BY <1>0, <2>1 DEF CallType
    <2> QED
      BY <1>1, <1>12, <2>2, <2>3, PhaseIs DEF PhaseTable
  <1>10. ASSUME NEW k \in Arrivals, Suspends(k) PROVE Phase' < Phase
    <2> DEFINE pc == IF call.left > 0 THEN "begin" ELSE "idle"
    <2>1. pc \in Points /\ Took(k, pc, <<>>) /\ call.pc = "suspend"
          /\ file' = [file EXCEPT !.cmd = FALSE] /\ pc \in {"begin", "idle"}
      BY <1>10 DEF Suspends, Points
    <2> HIDE DEF pc
    <2>2. call'.pc \in {"begin", "idle"} /\ call'.retry = call.retry
      BY <1>2, <2>1
    <2>3. file'.cmd = FALSE /\ file'.data = file.data
      BY <1>0, <2>1 DEF FileType
    <2> QED
      BY <1>1, <1>12, <2>1, <2>2, <2>3, PhaseIs DEF PhaseTable
  <1>11. ASSUME FileResetOnError PROVE Phase' < Phase
    BY <1>11, ClientAdvances DEF ClientSteps
  <1> QED
    BY <1>3, <1>4, <1>5, <1>6, <1>7, <1>8, <1>9, <1>10, <1>11 DEF TakesReplies, Advances

\* Every step brings a call that is under way nearer to its end.
LEMMA StepAdvances ==
    ASSUME Types, CallInv, Dense, call.pc # "idle", Next
    PROVE  Advances
  <1>1. ASSUME NEW p \in Places, NEW n \in 1 .. MaxSize, ReadFile(p, n) \/ WriteFile(p, n)
        PROVE  FALSE
    BY <1>1 DEF ReadFile, WriteFile
  <1>2. ASSUME NEW m \in 1 .. MaxSize, SendData(m) PROVE Phase' < Phase
    <2>1. call' = NoCall /\ file' \in FileType /\ call \in CallType /\ file \in FileType
      BY <1>2, SentTypes DEF Types
    <2>2. call'.pc = "idle" /\ call'.retry \in BOOLEAN /\ file'.cmd \in BOOLEAN /\ file'.data \in BOOLEAN
      BY <2>1 DEF NoCall, FileType
    <2>3. call.pc \in Points /\ call.retry \in BOOLEAN /\ file.cmd \in BOOLEAN /\ file.data \in BOOLEAN
      BY <2>1 DEF CallType, FileType
    <2> QED
      BY <2>2, <2>3, PhaseIs, PhasePositive DEF PhaseTable
  <1>3. ASSUME NEW m \in 1 .. MaxSize, Received(m) PROVE Advances
    BY <1>3, ReceiveWorks DEF Advances
  <1>4. session \in SessionType
    BY DEF Types
  <1> QED
    BY <1>1, <1>2, <1>3, <1>4, StepCases, ClientAdvances, RepliesAdvance, ServerWorks, OthersWork
       DEF Advances


----------------------------------------------------------------------------
\* What the client and the server have told each other.
Protocol == LinkInv /\ WireInv /\ RestInv /\ PasvInv /\ AskedInv /\ ActiveInv

\* Commands and replies, place by place.
LEMMA Queues ==
    ASSUME Types
    PROVE  /\ Len(session.cmds) \in Nat /\ Len(session.replies) \in Nat /\ Len(link.wire) \in Nat
           /\ DOMAIN session.cmds = 1 .. Len(session.cmds)
           /\ DOMAIN session.replies = 1 .. Len(session.replies)
           /\ DOMAIN link.wire = 1 .. Len(link.wire)
           /\ session.cmds = <<>> <=> Len(session.cmds) = 0
           /\ session.replies = <<>> <=> Len(session.replies) = 0
           /\ link.wire = <<>> <=> Len(link.wire) = 0
  <1>1. /\ session.cmds \in Seq(Commands) /\ session.replies \in Seq(Codes)
        /\ link.wire \in Seq(Bytes)
    BY Fields
  <1>2. ASSUME NEW S, NEW s \in Seq(S)
        PROVE  Len(s) \in Nat /\ DOMAIN s = 1 .. Len(s) /\ (s = <<>> <=> Len(s) = 0)
    OBVIOUS
  <1> QED
    BY <1>1, <1>2

\* The same after a step.
LEMMA QueuesNext ==
    ASSUME Types'
    PROVE  /\ Len(session'.cmds) \in Nat /\ Len(session'.replies) \in Nat
           /\ Len(link'.wire) \in Nat
           /\ DOMAIN session'.cmds = 1 .. Len(session'.cmds)
           /\ DOMAIN session'.replies = 1 .. Len(session'.replies)
           /\ DOMAIN link'.wire = 1 .. Len(link'.wire)
           /\ session'.cmds = <<>> <=> Len(session'.cmds) = 0
           /\ session'.replies = <<>> <=> Len(session'.replies) = 0
           /\ link'.wire = <<>> <=> Len(link'.wire) = 0
           /\ session'.cmds \in Seq(Commands) /\ session'.replies \in Seq(Codes)
           /\ link'.wire \in Seq(Bytes)
  <1>1. /\ session'.cmds \in Seq(Commands) /\ session'.replies \in Seq(Codes)
        /\ link'.wire \in Seq(Bytes)
    BY DEF Types, SessionType, LinkType
  <1> QED
    BY <1>1

\* The commands stay, or one is added.
Adds(c) ==
    /\ Len(session'.cmds) = Len(session.cmds) + Len(c)
    /\ \A i \in 1 .. Len(session.cmds) : session'.cmds[i] = session.cmds[i]
    /\ Len(c) = 1 => session'.cmds[Len(session.cmds) + 1] = c[1]
    /\ c = <<>> => session'.cmds = session.cmds

\* What is sent is added at the end.
LEMMA Added ==
    ASSUME session.cmds \in Seq(Commands), NEW c, Sent(c), session'.cmds = session.cmds \o c
    PROVE  Adds(c) /\ (c = <<>> \/ Len(c) = 1)
  <1>1. CASE c = <<>>
    BY <1>1 DEF Adds
  <1>2. ASSUME NEW d \in Commands, c = <<d>> PROVE Adds(c) /\ (c = <<>> \/ Len(c) = 1)
    <2>1. Len(c) = 1 /\ c[1] = d /\ c # <<>>
      BY <1>2
    <2>2. /\ Len(session'.cmds) = Len(session.cmds) + 1
          /\ \A i \in DOMAIN session.cmds : session'.cmds[i] = session.cmds[i]
          /\ session'.cmds[Len(session.cmds) + 1] = d
      BY <1>2, Appended
    <2>3. DOMAIN session.cmds = 1 .. Len(session.cmds)
      OBVIOUS
    <2> QED
      BY <2>1, <2>2, <2>3 DEF Adds
  <1> QED
    BY <1>1, <1>2 DEF Sent

\* The first k replies are taken.
Takes(k) ==
    /\ k \in 0 .. Len(session.replies) /\ k \in Nat
    /\ k = 0 => session.replies = <<>>
    /\ Len(session'.replies) = Len(session.replies) - k
    /\ \A i \in 1 .. Len(session.replies) - k : session'.replies[i] = session.replies[i + k]

\* A step after which nothing is amiss.
Clean(k, c) ==
    amiss' = {} => /\ amiss = {} /\ k # 0
                   /\ c \in {<<>>, Abor} \/ ~Owes(k)

\* The effect of Took on the fields.
LEMMA TookFields ==
    ASSUME Types, NEW k \in Arrivals, NEW pc \in Points, NEW c, Sent(c), Took(k, pc, c)
    PROVE  /\ call'.pc = pc /\ call'.write = call.write /\ call'.target = call.target
           /\ call'.left = call.left /\ call'.got = call.got
           /\ session'.rest = session.rest /\ session'.xfer = session.xfer
           /\ Adds(c) /\ (c = <<>> \/ Len(c) = 1) /\ Takes(k) /\ Clean(k, c)
  <1>0. session \in SessionType /\ call \in CallType /\ amiss \subseteq {"failed", "shifted"}
    BY DEF Types
  <1>1. call' = [call EXCEPT !.pc = pc, !.tries = call'.tries]
    BY <1>0, TookEffect
  <1>2. /\ call'.pc = pc /\ call'.write = call.write /\ call'.target = call.target
        /\ call'.left = call.left /\ call'.got = call.got
    BY <1>0, <1>1 DEF CallType
  <1>3. session' = [session EXCEPT !.replies = SubSeq(@, k + 1, Len(@)), !.cmds = @ \o c]
    BY <1>0, TookEffect
  <1>4. /\ session'.rest = session.rest /\ session'.xfer = session.xfer
        /\ session'.cmds = session.cmds \o c
        /\ session'.replies = SubSeq(session.replies, k + 1, Len(session.replies))
    BY <1>0, <1>3 DEF SessionType
  <1>5. Adds(c) /\ (c = <<>> \/ Len(c) = 1)
    BY <1>4, Fields, Added
  <1>6. k \in 0 .. Len(session.replies) /\ k \in Nat /\ (k = 0 => session.replies = <<>>)
    BY <1>0, ArrivalsAre
  <1>7. Takes(k)
    <2>1. session.replies \in Seq(Codes)
      BY Fields
    <2>2. /\ Len(session'.replies) = Len(session.replies) - k
          /\ \A i \in 1 .. Len(session.replies) - k : session'.replies[i] = session.replies[i + k]
      BY <1>4, <1>6, <2>1, Shortened
    <2> QED
      BY <1>6, <2>2 DEF Takes
  <1>8. Clean(k, c)
    <2>1. amiss' = amiss \cup ((IF k = 0 THEN {"failed"} ELSE {}) \cup Shifted(k, c))
      BY DEF Took, Amiss
    <2> QED
      BY <2>1 DEF Shifted, Clean
  <1> QED
    BY <1>2, <1>4, <1>5, <1>7, <1>8

\* The effect of Go on the fields.
LEMMA GoFields ==
    ASSUME Types, NEW pc \in Points, NEW c, Sent(c), Go(pc, c)
    PROVE  /\ call'.pc = pc /\ call'.write = call.write /\ call'.target = call.target
           /\ call'.left = call.left /\ call'.got = call.got
           /\ session'.rest = session.rest /\ session'.xfer = session.xfer
           /\ session'.replies = session.replies
           /\ Adds(c) /\ (c = <<>> \/ Len(c) = 1)
           /\ amiss' = {} => amiss = {} /\ (c \in {<<>>, Abor} \/ ~Owes(0))
  <1>0. session \in SessionType /\ call \in CallType /\ amiss \subseteq {"failed", "shifted"}
    BY DEF Types
  <1>1. /\ session' = [session EXCEPT !.cmds = @ \o c]
        /\ call' = [call EXCEPT !.pc = pc, !.tries = 0]
    BY <1>0, GoEffect
  <1>2. /\ call'.pc = pc /\ call'.write = call.write /\ call'.target = call.target
        /\ call'.left = call.left /\ call'.got = call.got
    BY <1>0, <1>1 DEF CallType
  <1>4. /\ session'.rest = session.rest /\ session'.xfer = session.xfer
        /\ session'.cmds = session.cmds \o c /\ session'.replies = session.replies
    BY <1>0, <1>1 DEF SessionType
  <1>5. Adds(c) /\ (c = <<>> \/ Len(c) = 1)
    BY <1>4, Fields, Added
  <1>8. amiss' = {} => amiss = {} /\ (c \in {<<>>, Abor} \/ ~Owes(0))
    BY DEF Go, Amiss, Shifted
  <1> QED
    BY <1>2, <1>4, <1>5, <1>8

\* Of what is owed only less is owed.
LEMMA TakesLess ==
    ASSUME Types, Types', NEW k, Takes(k)
    PROVE  /\ \A r : Owed(r)' => Owed(r)
           /\ \A i \in DOMAIN session'.replies :
                /\ i + k \in DOMAIN session.replies
                /\ session'.replies[i] = session.replies[i + k]
                /\ i + k = Len(session.replies) => i = Len(session'.replies)
           /\ session.replies = <<>> => session'.replies = <<>>
           /\ k = Len(session.replies) => session'.replies = <<>>
  <1>1. \A i \in DOMAIN session'.replies :
                /\ i + k \in DOMAIN session.replies
                /\ session'.replies[i] = session.replies[i + k]
                /\ i + k = Len(session.replies) => i = Len(session'.replies)
    <2> DEFINE n == Len(session.replies)
               n1 == Len(session'.replies)
    <2>1. /\ n \in Nat /\ k \in 0 .. n /\ n1 = n - k
          /\ DOMAIN session.replies = 1 .. n /\ DOMAIN session'.replies = 1 .. n1
          /\ \A i \in 1 .. n1 : session'.replies[i] = session.replies[i + k]
      BY Queues, QueuesNext DEF Takes
    <2> HIDE DEF n, n1
    <2>2. \A i \in 1 .. n1 : i + k \in 1 .. n /\ (i + k = n => i = n1)
      BY <2>1
    <2> QED
      BY <2>1, <2>2 DEF n, n1
  <1>2. /\ session.replies = <<>> => session'.replies = <<>>
        /\ k = Len(session.replies) => session'.replies = <<>>
    <2> DEFINE n == Len(session.replies)
               n1 == Len(session'.replies)
    <2>1. n \in Nat /\ k \in 0 .. n /\ n1 = n - k
      BY Queues DEF Takes
    <2>2. session.replies = <<>> <=> n = 0
      BY Queues
    <2>3. session'.replies = <<>> <=> n1 = 0
      BY QueuesNext
    <2> HIDE DEF n, n1
    <2>4. (n = 0 => n1 = 0) /\ (k = n => n1 = 0)
      BY <2>1
    <2> QED
      BY <2>2, <2>3, <2>4 DEF n
  <1>3. \A r : Owed(r)' => Owed(r)
    BY <1>1 DEF Owed
  <1> QED
    BY <1>1, <1>2, <1>3


\* No reply is there that was not there before.
Fewer ==
    /\ \A r : Owed(r)' => Owed(r)
    /\ \A i \in DOMAIN session'.replies :
         \E j \in DOMAIN session.replies :
            /\ session'.replies[i] = session.replies[j]
            /\ j = Len(session.replies) => i = Len(session'.replies)

LEMMA FewerTaken ==
    ASSUME Types, Types', NEW k, Takes(k)
    PROVE  Fewer
  BY TakesLess DEF Fewer

LEMMA FewerSame ==
    ASSUME session'.replies = session.replies
    PROVE  Fewer
  BY DEF Fewer, Owed

\* One more command.
LEMMA AddsOne ==
    ASSUME Types, Types', NEW c, Adds(c), Len(c) = 1
    PROVE  /\ \A v : Queued(v)' => Queued(v) \/ c[1][1] = v
           /\ \A v : Queued(v) => Queued(v)'
           /\ \A i \in DOMAIN session'.cmds :
                \/ i \in DOMAIN session.cmds /\ session'.cmds[i] = session.cmds[i]
                \/ i = Len(session'.cmds) /\ session'.cmds[i] = c[1] /\ i \notin DOMAIN session.cmds
           /\ session'.cmds # <<>> /\ session'.cmds[Len(session'.cmds)] = c[1]
           /\ Len(session'.cmds) = Len(session.cmds) + 1
           /\ \A i \in DOMAIN session.cmds :
                i \in DOMAIN session'.cmds /\ session'.cmds[i] = session.cmds[i]
  <1> DEFINE n == Len(session.cmds)
             n1 == Len(session'.cmds)
  <1>1. /\ n \in Nat /\ n1 = n + 1 /\ DOMAIN session.cmds = 1 .. n /\ DOMAIN session'.cmds = 1 .. n1
        /\ \A i \in 1 .. n : session'.cmds[i] = session.cmds[i]
        /\ session'.cmds[n + 1] = c[1]
        /\ session'.cmds = <<>> <=> n1 = 0
    BY Queues, QueuesNext DEF Adds
  <1> HIDE DEF n, n1
  <1>2. \A i \in 1 .. n1 : i \in 1 .. n \/ (i = n1 /\ i \notin 1 .. n)
    BY <1>1
  <1>3. \A i \in 1 .. n : i \in 1 .. n1
    BY <1>1
  <1>4. n1 # 0 /\ n1 = n + 1
    BY <1>1
  <1>5. \A i \in DOMAIN session'.cmds :
          \/ i \in DOMAIN session.cmds /\ session'.cmds[i] = session.cmds[i]
          \/ i = n1 /\ session'.cmds[i] = c[1] /\ i \notin DOMAIN session.cmds
    BY <1>1, <1>2, <1>4
  <1>6. \A i \in DOMAIN session.cmds :
          i \in DOMAIN session'.cmds /\ session'.cmds[i] = session.cmds[i]
    BY <1>1, <1>3
  <1>7. \A v : Queued(v)' => Queued(v) \/ c[1][1] = v
    BY <1>5 DEF Queued
  <1>8. \A v : Queued(v) => Queued(v)'
    BY <1>6 DEF Queued
  <1> QED
    BY <1>1, <1>4, <1>5, <1>6, <1>7, <1>8 DEF n, n1

\* Where a call is on its way to a data connection.
Asking == {"type", "port", "pasv", "rest", "ask", "accept"}

\* A step that sends nothing and leaves the data connection alone.
Alone ==
    /\ Fewer
    /\ session'.cmds = session.cmds /\ session'.xfer = session.xfer
    /\ session'.rest = session.rest /\ restOk' = restOk
    /\ link' = link
    /\ file'.pasv = file.pasv /\ file'.data = file.data
    /\ file.changed => file'.changed
    /\ excuses \subseteq excuses'
    /\ \/ call'.pc = call.pc /\ call'.write = call.write
       \/ call.pc \notin Asking /\ call'.pc \notin Asking
       \/ call.pc = "ask" /\ call'.pc = "accept" /\ call'.write = call.write
    /\ \/ file'.pos = file.pos
       \/ call.pc = "seek" /\ call'.pc \notin Asking /\ link.use = "none"

\* A step that touches neither the commands nor the data connection.
LEMMA AloneKeeps ==
    ASSUME Types, Types', Protocol, Alone
    PROVE  Protocol'
  <1>1. /\ session'.cmds = session.cmds /\ session'.xfer = session.xfer
        /\ session'.rest = session.rest /\ restOk' = restOk /\ link' = link
        /\ file'.pasv = file.pasv /\ file'.data = file.data
        /\ file.changed => file'.changed
        /\ excuses \subseteq excuses'
    BY DEF Alone
  <1>2. /\ \A r : Owed(r)' => Owed(r)
        /\ \A i \in DOMAIN session'.replies :
             \E j \in DOMAIN session.replies :
                /\ session'.replies[i] = session.replies[j]
                /\ j = Len(session.replies) => i = Len(session'.replies)
    BY DEF Alone, Fewer
  <1>3. \A v : Queued(v)' <=> Queued(v)
    BY <1>1 DEF Queued
  <1>4. /\ call'.pc \in Asking => call.pc \in Asking /\ call'.write = call.write
        /\ call'.pc \in Asking => call'.pc = call.pc \/ (call'.pc = "accept" /\ call.pc = "ask")
        /\ call.pc \in {"type", "port", "pasv", "rest"} => call'.pc = call.pc
        /\ call.pc \in {"ask", "accept"} => call'.pc \in {"ask", "accept"}
        /\ call'.pc \in {"ask", "accept"} => call.pc \in {"ask", "accept"}
        /\ \/ file'.pos = file.pos
           \/ call.pc = "seek" /\ call'.pc \notin Asking /\ link.use = "none"
    BY DEF Alone, Asking
  <1>5. LinkInv'
    BY <1>1, <1>2, <1>3, <1>4 DEF LinkInv, Protocol, Asking, Transfers
  <1>6. WireInv'
    BY <1>1, <1>3, <1>4 DEF WireInv, Protocol, Asking, Transfers
  <1>7. RestInv'
    BY <1>1, <1>2, <1>4 DEF RestInv, Protocol, Asking
  <1>8. PasvInv'
    BY <1>1, <1>2, <1>3, <1>4 DEF PasvInv, Protocol, Asking
  <1>9. AskedInv'
    <2>1. CASE file'.pos = file.pos
      <3>1. Start' = Start /\ (Awaited' <=> Awaited)
        BY <1>1, <2>1 DEF Start, Awaited
      <3> QED
        BY <1>1, <1>2, <1>3, <1>4, <3>1 DEF AskedInv, Protocol, Asking
    <2>2. CASE call.pc = "seek" /\ call'.pc \notin Asking /\ link.use = "none"
      <3>1. ~file.data
        BY <2>2 DEF Protocol, LinkInv
      <3>2. Awaited' <=> Awaited
        BY <1>1 DEF Awaited
      <3> QED
        BY <1>1, <1>2, <1>3, <2>2, <3>1, <3>2 DEF AskedInv, Protocol, Asking
    <2> QED
      BY <1>4, <2>1, <2>2
  <1>10. ActiveInv'
    BY <1>1, <1>2, <1>3, <1>4 DEF ActiveInv, Protocol, Asking
  <1> QED
    BY <1>5, <1>6, <1>7, <1>8, <1>9, <1>10 DEF Protocol

\* Both connections are new, or gone.
LEMMA RestartKeeps ==
    ASSUME session' = NoSession, link' = NoLink, ~file'.data, call'.pc \notin Asking
    PROVE  Protocol'
  <1>1. /\ session'.cmds = <<>> /\ session'.replies = <<>> /\ session'.xfer = "none"
        /\ session'.rest = 0 /\ link'.use = "none" /\ link'.wire = <<>>
    BY DEF NoSession, NoLink
  <1>2. Len(link'.wire) = 0 /\ DOMAIN session'.cmds = {} /\ DOMAIN session'.replies = {}
        /\ DOMAIN link'.wire = {}
    BY <1>1
  <1>3. \A v : ~Queued(v)' /\ ~Owed(v)'
    BY <1>2 DEF Queued, Owed
  <1>4. LinkInv'
    BY <1>1, <1>3 DEF LinkInv, Asking, Transfers
  <1>5. WireInv'
    BY <1>1, <1>2, TransferAssumption DEF WireInv
  <1>6. RestInv' /\ PasvInv'
    BY <1>1, <1>2, <1>3 DEF RestInv, PasvInv, Asking
  <1>7. AskedInv' /\ ActiveInv'
    BY <1>1, <1>2, <1>3 DEF AskedInv, ActiveInv, Awaited
  <1> QED
    BY <1>4, <1>5, <1>6, <1>7 DEF Protocol


\* A step that sends a command, none that begins a transfer.
Tells(d) ==
    /\ Fewer /\ Adds(<<d>>) /\ d \in Commands /\ d[1] \notin Transfers
    /\ session'.xfer = session.xfer /\ session'.rest = session.rest /\ restOk' = restOk
    /\ link' = link
    /\ file.pasv => file'.pasv
    /\ file'.data = file.data /\ file'.pos = file.pos /\ file'.changed = file.changed
    /\ excuses' = excuses
    /\ call.pc \notin {"rest", "pasv"} /\ call'.pc \notin {"ask", "accept"}
    /\ link.use # "none" => file.data
    /\ link.use \in Transfers => d[1] = "DELE" /\ call'.pc \notin Asking
    /\ link.use = "idle" => d[1] # "ABOR"
    /\ d[1] = "PASV" <=> call'.pc = "pasv"
    /\ call'.pc = "pasv" => file'.pasv
    /\ call'.pc = "port" => ~file'.pasv
    /\ call'.pc = "rest" => d = <<"REST", file.pos>> /\ ~Owed("425")'
    /\ \/ d[1] = "DELE" /\ call.pc \notin Asking /\ call'.pc \notin Asking
       \/ Awaited' => ~Queued("RETR") /\ ~Queued("STOR")
    /\ ~file'.pasv => ~Owed("425")' /\ ~Queued("RETR") /\ ~Queued("STOR")

\* A command that is sent, before a transfer is asked for.
LEMMA CommandKeeps ==
    ASSUME Types, Types', Protocol, NEW d, Tells(d)
    PROVE  Protocol'
  <1> USE DEF Transfers
  <1>1. /\ session'.xfer = session.xfer /\ session'.rest = session.rest /\ restOk' = restOk
        /\ link' = link /\ (file.pasv => file'.pasv)
        /\ file'.data = file.data /\ file'.pos = file.pos /\ file'.changed = file.changed
        /\ excuses' = excuses
        /\ call.pc \notin {"rest", "pasv"} /\ call'.pc \notin {"ask", "accept"}
    BY DEF Tells
  <1>2. /\ \A r : Owed(r)' => Owed(r)
        /\ \A i \in DOMAIN session'.replies :
             \E j \in DOMAIN session.replies :
                /\ session'.replies[i] = session.replies[j]
                /\ j = Len(session.replies) => i = Len(session'.replies)
    BY DEF Tells, Fewer
  <1>3. /\ \A v : Queued(v)' => Queued(v) \/ d[1] = v
        /\ \A v : Queued(v) => Queued(v)'
        /\ \A i \in DOMAIN session'.cmds :
             \/ i \in DOMAIN session.cmds /\ session'.cmds[i] = session.cmds[i]
             \/ i = Len(session'.cmds) /\ session'.cmds[i] = d /\ i \notin DOMAIN session.cmds
        /\ session'.cmds # <<>> /\ session'.cmds[Len(session'.cmds)] = d
        /\ \A i \in DOMAIN session.cmds :
             i \in DOMAIN session'.cmds /\ session'.cmds[i] = session.cmds[i]
    <2>1. Adds(<<d>>) /\ Len(<<d>>) = 1 /\ <<d>>[1] = d
      BY DEF Tells
    <2> QED
      BY <2>1, AddsOne
  <1>4. d[1] # "RETR" /\ d[1] # "STOR"
    BY DEF Tells
  <1>5. LinkInv'
    <2>1. /\ file'.data => link'.use # "none"
          /\ link'.use # "none" => file'.data
          /\ (file'.data /\ call'.pc # "rest") => link'.asked # "none"
      BY <1>1 DEF Tells, LinkInv, Protocol
    <2>2. link'.use \in Transfers =>
            /\ link'.asked = link'.use
            /\ \A i \in DOMAIN session'.cmds : session'.cmds[i][1] = "DELE"
            /\ ~Owed("425")' /\ call'.pc \notin {"type", "port", "pasv", "rest"}
      BY <1>1, <1>2, <1>3 DEF Tells, LinkInv, Protocol, Asking
    <2>3. /\ link'.use = "STOR" => session'.xfer = "STOR" /\ link'.at + Len(link'.wire) = file'.pos
          /\ link'.use = "RETR" =>
                link'.wire = <<>> /\ ("crossed" \notin excuses' => link'.at = file'.pos)
      BY <1>1 DEF LinkInv, Protocol
    <2>4. link'.use = "idle" => file'.pasv /\ session'.xfer = "none" /\ ~Queued("ABOR")'
      BY <1>1, <1>3 DEF Tells, LinkInv, Protocol
    <2> QED
      BY <1>1, <2>1, <2>2, <2>3, <2>4 DEF LinkInv
  <1>6. WireInv'
    BY <1>1, <1>3 DEF WireInv, Protocol
  <1>7. RestInv'
    BY <1>1, <1>2, <1>3 DEF RestInv, Protocol, Tells
  <1>8. PasvInv'
    <2>1. /\ ~Queued("PASV") /\ ~Owed("227")
          /\ \A i \in DOMAIN session.cmds : session.cmds[i][1] # "PASV"
          /\ \A i \in DOMAIN session'.replies : session'.replies[i] # "227"
      <3>1. ~Queued("PASV") /\ ~Owed("227") /\ ~Owed("227")'
        BY <1>1, <1>2 DEF PasvInv, Protocol
      <3> QED
        BY <3>1 DEF Queued, Owed
    <2>2. /\ d[1] = "PASV" <=> call'.pc = "pasv"
          /\ call'.pc = "pasv" => file'.pasv
          /\ call'.pc = "port" => ~file'.pasv
      BY DEF Tells
    <2> QED
      BY <1>2, <1>3, <2>1, <2>2 DEF PasvInv
  <1>9. AskedInv'
    <2> SUFFICES ASSUME Awaited' PROVE AskedInv'
      BY DEF AskedInv
    <2>1. Start' = Start
      BY <1>1 DEF Start
    <2>2. CASE d[1] = "DELE" /\ call.pc \notin Asking /\ call'.pc \notin Asking
      <3>1. CASE Awaited
        BY <1>1, <1>2, <1>3, <2>1, <2>2, <3>1 DEF AskedInv, Protocol, Asking
      <3>2. CASE ~Awaited
        <4>1. file.pasv # file'.pasv /\ ~file'.pasv /\ file.pasv
          BY <1>1, <3>2 DEF Awaited
        <4> QED
          BY <1>1, <4>1
      <3> QED
        BY <3>1, <3>2
    <2>3. CASE ~Queued("RETR") /\ ~Queued("STOR")
      <3>1. ~Queued("RETR")' /\ ~Queued("STOR")'
        BY <1>3, <1>4, <2>3
      <3>2. \A i \in DOMAIN session'.cmds : session'.cmds[i][1] \notin Transfers
        BY <3>1 DEF Queued
      <3>3. Owed("425")' => call'.pc # "rest"
        BY DEF Tells
      <3> QED
        BY <3>1, <3>2, <3>3 DEF AskedInv
    <2> QED
      BY <2>2, <2>3 DEF Tells
  <1>10. ActiveInv'
    <2> SUFFICES ASSUME ~file'.pasv PROVE ActiveInv'
      BY DEF ActiveInv
    <2>1. ~Owed("425")' /\ ~Queued("RETR") /\ ~Queued("STOR")
      BY DEF Tells
    <2>2. ~Queued("RETR")' /\ ~Queued("STOR")'
      BY <1>3, <1>4, <2>1
    <2>3. \A i \in DOMAIN session'.cmds : session'.cmds[i][1] \notin Transfers
      BY <2>2 DEF Queued
    <2>4. \A i \in DOMAIN session'.replies : session'.replies[i] # "425"
      BY <2>1 DEF Owed
    <2> QED
      BY <2>1, <2>2, <2>3, <2>4 DEF ActiveInv
  <1> QED
    BY <1>5, <1>6, <1>7, <1>8, <1>9, <1>10 DEF Protocol


\* The data connection is closed.
Leaves(c) ==
    /\ c \in {<<>>, Abor} /\ Adds(c) /\ session'.replies = session.replies
    /\ session'.xfer = session.xfer /\ session'.rest = session.rest /\ restOk' = restOk
    /\ link'.use = "none" /\ link'.wire = (IF file.changed THEN link.wire ELSE <<>>)
    /\ link'.at = link.at
    /\ file'.pasv = file.pasv /\ file'.data = FALSE /\ file'.pos = file.pos
    /\ file'.changed = file.changed
    /\ call.pc \notin Asking /\ call'.pc \notin Asking

\* The data connection is closed.
LEMMA CloseKeeps ==
    ASSUME Types, Types', Protocol, NEW c, Leaves(c)
    PROVE  Protocol'
  <1> USE DEF Transfers
  <1>1. /\ session'.replies = session.replies
        /\ session'.xfer = session.xfer /\ session'.rest = session.rest /\ restOk' = restOk
        /\ link'.use = "none" /\ link'.at = link.at
        /\ link'.wire = (IF file.changed THEN link.wire ELSE <<>>)
        /\ file'.pasv = file.pasv /\ file'.data = FALSE /\ file'.pos = file.pos
        /\ file'.changed = file.changed
        /\ call.pc \notin Asking /\ call'.pc \notin Asking
    BY DEF Leaves
  <1>2. \A r : Owed(r)' <=> Owed(r)
    BY <1>1 DEF Owed
  <1>3. /\ \A v : Queued(v)' => Queued(v) \/ v = "ABOR"
        /\ \A v : Queued(v) => Queued(v)'
    <2>1. CASE c = <<>>
      <3>1. session'.cmds = session.cmds
        BY <2>1 DEF Leaves, Adds
      <3> QED
        BY <3>1 DEF Queued
    <2>2. CASE c = Abor
      <3>1. Len(c) = 1 /\ c[1][1] = "ABOR" /\ Adds(c)
        BY <2>2 DEF Abor, Leaves
      <3> QED
        BY <3>1, AddsOne
    <2> QED
      BY <2>1, <2>2 DEF Leaves
  <1>4. ~Queued("PASV") /\ ~Owed("227")
    BY <1>1 DEF PasvInv, Protocol, Asking
  <1>5. LinkInv'
    BY <1>1 DEF LinkInv, Asking
  <1>6. WireInv'
    <2>1. link'.wire # <<>> => file.changed /\ link'.wire = link.wire
      BY <1>1
    <2>2. CASE link'.wire = <<>>
      <3>1. Len(link'.wire) = 0 /\ DOMAIN link'.wire = {}
        BY <2>2
      <3> QED
        BY <1>1, <2>2, <3>1, TransferAssumption DEF WireInv
    <2>3. CASE link'.wire = link.wire /\ file.changed
      BY <1>1, <1>3, <2>3 DEF WireInv, Protocol
    <2> QED
      BY <2>1, <2>2, <2>3
  <1>7. RestInv'
    BY <1>1, <1>2 DEF RestInv, Protocol, Asking
  <1>8. PasvInv'
    <2>1. ~Queued("PASV")' /\ ~Owed("227")'
      BY <1>2, <1>3, <1>4
    <2> QED
      BY <1>1, <2>1 DEF PasvInv, Queued, Owed, Asking
  <1>9. ~file.pasv => ~Owed("425") /\ ~Queued("RETR") /\ ~Queued("STOR")
    BY <1>1 DEF ActiveInv, Protocol, Asking
  <1>10. ~file'.pasv => ~Owed("425")' /\ ~Queued("RETR")' /\ ~Queued("STOR")'
    BY <1>1, <1>2, <1>3, <1>9
  <1>11. AskedInv'
    <2>1. Awaited' => ~file'.pasv
      BY <1>1 DEF Awaited
    <2> QED
      BY <1>10, <2>1 DEF AskedInv, Queued
  <1>12. ActiveInv'
    BY <1>10 DEF ActiveInv, Queued, Owed
  <1> QED
    BY <1>5, <1>6, <1>7, <1>8, <1>11, <1>12 DEF Protocol

\* The data connection of passive mode: everything before has been handled.
LEMMA ConnectsKeeps ==
    ASSUME Types, Types', CallInv, Protocol, NEW k \in Arrivals, Connects(k)
    PROVE  Protocol'
  <1> USE DEF Transfers
  <1>0. session \in SessionType /\ file \in FileType /\ link \in LinkType
    BY DEF Types
  <1>1. /\ call'.pc = "rest" /\ session'.rest = session.rest /\ session'.xfer = session.xfer
        /\ Adds(Rest) /\ Takes(k) /\ call.pc = "pasv"
    BY Sends, TookFields DEF Connects, Points, Waiting
  <1>2. file' = [file EXCEPT !.data = TRUE] /\ link' = [link EXCEPT !.use = "idle"]
        /\ UNCHANGED <<restOk, excuses>>
    BY DEF Connects, Still
  <1>3. /\ file'.data = TRUE /\ file'.pos = file.pos /\ file'.pasv = file.pasv
        /\ link'.use = "idle" /\ link'.wire = link.wire
    BY <1>0, <1>2 DEF FileType, LinkType
  <1>4. k \in DOMAIN session.replies /\ session.replies[k] = "227"
    <2>1. k \in 0 .. Len(session.replies) /\ k # 0 /\ Response(k) = session.replies[k]
      BY <1>0, ArrivalsAre DEF Connects
    <2> QED
      BY <2>1, Queues DEF Connects
  <1>5. k = Len(session.replies) /\ session.cmds = <<>> /\ session.xfer = "none"
    BY <1>4 DEF PasvInv, Protocol
  <1>6. session'.replies = <<>>
    BY <1>1, <1>5, TakesLess
  <1>7. link.wire = <<>>
    <2>1. ~Queued("STOR")
      BY <1>5 DEF Queued
    <2> QED
      BY <1>5, <2>1 DEF WireInv, Protocol
  <1>8. file.pasv
    BY <1>1 DEF PasvInv, Protocol
  <1>9. /\ session'.cmds # <<>> /\ Len(session'.cmds) = 1 /\ DOMAIN session'.cmds = {1}
        /\ session'.cmds[1] = <<"REST", file.pos>>
    <2>1. Len(Rest) = 1 /\ Rest[1] = <<"REST", file.pos>>
      BY DEF Rest
    <2>2. Len(session.cmds) = 0
      BY <1>5
    <2>3. Len(session'.cmds) = 1 /\ session'.cmds[1] = <<"REST", file.pos>>
      BY <1>1, <2>1, <2>2 DEF Adds
    <2>4. DOMAIN session'.cmds = 1 .. 1 /\ session'.cmds # <<>>
      BY <2>3, QueuesNext
    <2> QED
      BY <2>3, <2>4
  <1>10. session'.cmds[1][1] = "REST"
    BY <1>9
  <1>11. \A v : Queued(v)' => v = "REST"
    BY <1>9, <1>10 DEF Queued
  <1>12. DOMAIN session'.replies = {} /\ \A r : ~Owed(r)'
    BY <1>6 DEF Owed
  <1>13. Len(link'.wire) = 0 /\ DOMAIN link'.wire = {} /\ link'.wire = <<>>
    BY <1>3, <1>7
  <1>14. LinkInv'
    BY <1>1, <1>3, <1>5, <1>8, <1>11 DEF LinkInv
  <1>15. WireInv'
    <2>1. 0 <= MaxSize /\ 0 <= file'.pos
      BY <1>0, <1>3, TransferAssumption DEF FileType
    <2> QED
      BY <1>13, <2>1 DEF WireInv
  <1>16. RestInv'
    BY <1>1, <1>2, <1>3, <1>9, <1>12 DEF RestInv, Protocol
  <1>17. PasvInv'
    BY <1>1, <1>9, <1>10, <1>11, <1>12 DEF PasvInv
  <1>18. AskedInv' /\ ActiveInv'
    BY <1>3, <1>8, <1>9, <1>10, <1>12 DEF AskedInv, ActiveInv
  <1> QED
    BY <1>14, <1>15, <1>16, <1>17, <1>18 DEF Protocol

\* The transfer is asked for, where the client wants to go on.
LEMMA AsksKeeps ==
    ASSUME Types, Types', Protocol, NEW k \in Arrivals, Asks(k)
    PROVE  Protocol'
  <1> USE DEF Transfers
  <1>0. session \in SessionType /\ file \in FileType /\ link \in LinkType
    BY DEF Types
  <1> DEFINE d == <<Wanted, 0>>
  <1>1. /\ call'.pc = "ask" /\ session'.rest = session.rest /\ session'.xfer = session.xfer
        /\ Adds(<<d>>) /\ Takes(k) /\ call.pc = "rest" /\ call'.write = call.write
    BY Sends, TookFields DEF Asks, Points, Waiting, Wanted
  <1>2. link' = [link EXCEPT !.asked = Wanted] /\ UNCHANGED <<file, restOk, excuses>>
    BY DEF Asks, Still
  <1>3. /\ link'.asked = Wanted /\ link'.use = link.use /\ link'.wire = link.wire
        /\ link'.at = link.at
    BY <1>0, <1>2 DEF LinkType
  <1>4. Fewer
    BY <1>1, FewerTaken
  <1>5. d[1] = Wanted /\ d[1] \in {"RETR", "STOR"} /\ Len(<<d>>) = 1 /\ <<d>>[1] = d
    BY DEF Wanted
  <1>6. /\ \A v : Queued(v)' => Queued(v) \/ d[1] = v
        /\ \A v : Queued(v) => Queued(v)'
        /\ \A i \in DOMAIN session'.cmds :
             \/ i \in DOMAIN session.cmds /\ session'.cmds[i] = session.cmds[i]
             \/ i = Len(session'.cmds) /\ session'.cmds[i] = d /\ i \notin DOMAIN session.cmds
        /\ Len(session'.cmds) = Len(session.cmds) + 1
        /\ \A i \in DOMAIN session.cmds :
             i \in DOMAIN session'.cmds /\ session'.cmds[i] = session.cmds[i]
    BY <1>1, <1>5, AddsOne
  <1>7. /\ \A r : Owed(r)' => Owed(r)
    BY <1>4 DEF Fewer
  <1> HIDE DEF d
  <1>8. /\ link.use \in {"none", "idle"}
        /\ link.use = "idle" => file.pasv /\ session.xfer = "none" /\ file.data
        /\ file.data => link.use = "idle"
    <2>1. link.use \in {"none", "idle"} \cup Transfers
      BY <1>0 DEF LinkType
    <2> QED
      BY <1>1, <2>1 DEF LinkInv, Protocol
  <1>9. ~Queued("PASV") /\ ~Owed("227")
    BY <1>1 DEF PasvInv, Protocol
  <1>10. (Awaited' <=> Awaited) /\ Start' = Start
    BY <1>2, <1>3 DEF Awaited, Start
  <1>11. Awaited => ~Owed("425") /\ \A i \in DOMAIN session.cmds : session.cmds[i][1] \notin Transfers
    BY <1>1 DEF AskedInv, Protocol
  <1>12. ~file.pasv => ~Owed("425") /\ ~Queued("RETR") /\ ~Queued("STOR")
    BY <1>1 DEF ActiveInv, Protocol
  <1>13. link.use = "idle" => link.wire = <<>>
    <2> SUFFICES ASSUME link.use = "idle" PROVE link.wire = <<>>
      OBVIOUS
    <2>1. ~Queued("STOR")
      BY <1>11 DEF Queued, Awaited
    <2> QED
      BY <1>8, <2>1 DEF WireInv, Protocol
  <1>14. Start = file.pos
    <2>1. link.use = "idle" => Len(link.wire) = 0
      BY <1>13
    <2> QED
      BY <1>0, <2>1 DEF Start, FileType
  <1>15. ~restOk => file.pos = 0 /\ session.rest = 0
    <2> SUFFICES ASSUME ~restOk PROVE file.pos = 0 /\ session.rest = 0
      OBVIOUS
    <2>1. session.rest = 0 /\ ~Owed("350")
      BY DEF RestInv, Protocol
    <2>2. Response(k) # "350"
      <3>1. k \in 0 .. Len(session.replies) /\ (k = 0 => Response(k) = "timeout")
            /\ (k # 0 => Response(k) = session.replies[k])
        BY <1>0, ArrivalsAre
      <3>2. k # 0 => k \in DOMAIN session.replies
        BY <3>1, Queues
      <3> QED
        BY <2>1, <3>1, <3>2 DEF Owed
    <2>3. Response(k) # "110"
      BY <1>0, ArrivalsAre DEF Codes
    <2> QED
      BY <2>1, <2>2, <2>3 DEF Asks
  <1>16. LinkInv'
    BY <1>1, <1>2, <1>3, <1>5, <1>6, <1>8 DEF LinkInv, Wanted, Protocol
  <1>17. WireInv'
    BY <1>1, <1>2, <1>3, <1>6 DEF WireInv, Protocol
  <1>18. RestInv'
    BY <1>1, <1>2, <1>7 DEF RestInv, Protocol
  <1>19. PasvInv'
    <2>1. ~Queued("PASV")' /\ ~Owed("227")'
      BY <1>5, <1>6, <1>7, <1>9
    <2> QED
      BY <1>1, <2>1 DEF PasvInv, Queued, Owed
  <1>20. AskedInv'
    <2> SUFFICES ASSUME Awaited' PROVE AskedInv'
      BY DEF AskedInv
    <2>1. ~Owed("425")'
      BY <1>7, <1>10, <1>11
    <2>2. ASSUME NEW i \in DOMAIN session'.cmds, session'.cmds[i][1] \in Transfers
          PROVE  i = Len(session'.cmds) /\ session'.cmds[i] = d
      BY <1>6, <1>10, <1>11, <2>2
    <2>3. ASSUME NEW i \in DOMAIN session'.cmds, session'.cmds[i][1] \in Transfers
          PROVE  IF i = 1 THEN session'.rest = Start'
                 ELSE session'.cmds[i - 1] = <<"REST", Start>> /\ (restOk \/ Start = 0)
      <3> DEFINE n == Len(session.cmds)
      <3>1. i = n + 1 /\ n \in Nat /\ DOMAIN session.cmds = 1 .. n /\ (session.cmds = <<>> <=> n = 0)
        BY <1>6, <2>2, <2>3, Queues
      <3> HIDE DEF n
      <3>2. CASE n = 0
        <4>1. session'.rest = file.pos
          BY <1>1, <1>15, <3>1, <3>2 DEF RestInv, Protocol
        <4>2. i = 1
          BY <3>1, <3>2
        <4> QED
          BY <1>10, <1>14, <4>1, <4>2
      <3>3. CASE n # 0
        <4>1. i # 1 /\ i - 1 = n /\ n \in 1 .. n
          BY <3>1, <3>3
        <4>2. session.cmds[n] = <<"REST", file.pos>>
          BY <1>1, <3>1, <3>3 DEF RestInv, Protocol, n
        <4>3. session'.cmds[n] = session.cmds[n]
          BY <1>6, <3>1, <4>1
        <4> QED
          BY <1>14, <1>15, <4>1, <4>2, <4>3
      <3> QED
        BY <3>2, <3>3
    <2>4. ASSUME NEW i \in DOMAIN session'.cmds, session'.cmds[i][1] \in Transfers,
                 NEW j \in DOMAIN session'.cmds, j > i
          PROVE  FALSE
      <3>1. i = Len(session'.cmds) /\ Len(session'.cmds) \in Nat
            /\ DOMAIN session'.cmds = 1 .. Len(session'.cmds)
        BY <2>2, <2>4, QueuesNext
      <3> QED
        BY <2>4, <3>1
    <2>5. link'.use = "idle" => link'.wire = <<>>
      BY <1>3, <1>13
    <2>6. ASSUME NEW i \in DOMAIN session'.cmds, session'.cmds[i][1] \in Transfers
          PROVE  session'.cmds[i][1] = link'.asked
      BY <1>3, <1>5, <2>2, <2>6
    <2>7. restOk' = restOk /\ call'.pc = "ask"
      BY <1>1, <1>2
    <2> QED
      BY <1>10, <2>1, <2>3, <2>4, <2>5, <2>6, <2>7 DEF AskedInv
  <1>21. ActiveInv'
    <2> SUFFICES ASSUME ~file'.pasv PROVE ActiveInv'
      BY DEF ActiveInv
    <2>1. ~file.pasv
      BY <1>2
    <2>2. ~Owed("425")' /\ ~Queued("RETR") /\ ~Queued("STOR")
      BY <1>7, <1>12, <2>1
    <2>3. \A i \in DOMAIN session.cmds : session.cmds[i][1] \notin Transfers
      BY <2>2 DEF Queued
    <2>4. \A i \in DOMAIN session'.cmds :
            session'.cmds[i][1] \in Transfers => i = Len(session'.cmds)
      BY <1>6, <2>3
    <2>5. link'.use = "none" /\ call'.pc = "ask"
      BY <1>1, <1>3, <1>8, <2>1
    <2>6. \A i \in DOMAIN session'.replies : session'.replies[i] # "425"
      BY <2>2 DEF Owed
    <2> QED
      BY <2>4, <2>5, <2>6 DEF ActiveInv
  <1> QED
    BY <1>16, <1>17, <1>18, <1>19, <1>20, <1>21 DEF Protocol

\* Bytes come, or are sent: the place at the server moves as the position does.
LEMMA ReceivedKeeps ==
    ASSUME Types, Types', CallInv, Dense, Protocol, NEW m \in 1 .. MaxSize, Received(m)
    PROVE  Protocol'
  <1> USE DEF Transfers
  <1>0. file \in FileType /\ link \in LinkType /\ call \in CallType
    BY DEF Types
  <1>1. /\ link.use = "RETR"
        /\ file' = [file EXCEPT !.pos = file.pos + m]
        /\ link' = [link EXCEPT !.at = link.at + m]
        /\ call'.pc = call.pc /\ call.pc \in {"seek", "transfer"}
        /\ UNCHANGED <<session, restOk>> /\ excuses \subseteq excuses'
    BY ReceivedTypes DEF Received
  <1>2. /\ file'.data = file.data /\ file'.pasv = file.pasv /\ file'.changed = file.changed
        /\ link'.use = "RETR" /\ link'.asked = link.asked /\ link'.wire = link.wire
    BY <1>0, <1>1 DEF FileType, LinkType
  <1>3. file'.pos = file.pos + m /\ link'.at = link.at + m
    BY <1>0, <1>1 DEF FileType, LinkType
  <1>4. link.wire = <<>> /\ Len(link.wire) = 0 /\ DOMAIN link.wire = {}
    BY <1>1 DEF LinkInv, Protocol
  <1>5. (\A v : Queued(v)' <=> Queued(v)) /\ (\A r : Owed(r)' <=> Owed(r))
    BY <1>1 DEF Queued, Owed
  <1>6. "crossed" \notin excuses' => link'.at = file'.pos
    <2>1. "crossed" \notin excuses' => link.at = file.pos
      BY <1>1 DEF LinkInv, Protocol
    <2> QED
      BY <1>3, <2>1
  <1>7. LinkInv'
    BY <1>1, <1>2, <1>4, <1>5, <1>6 DEF LinkInv, Protocol
  <1>8. WireInv'
    BY <1>2, <1>4, TransferAssumption DEF WireInv
  <1>9. RestInv' /\ PasvInv'
    BY <1>1, <1>5 DEF RestInv, PasvInv, Protocol
  <1>10. AskedInv' /\ ActiveInv'
    BY <1>1, <1>2, <1>5 DEF AskedInv, ActiveInv, Awaited, Protocol
  <1> QED
    BY <1>7, <1>8, <1>9, <1>10 DEF Protocol

\* SendData keeps the protocol.
LEMMA SendKeeps ==
    ASSUME Types, Types', CallInv, Protocol, NEW m \in 1 .. MaxSize, SendData(m)
    PROVE  Protocol'
  <1> USE DEF Transfers
  <1>0. file \in FileType /\ link \in LinkType /\ call \in CallType
    BY DEF Types
  <1> DEFINE n == Len(link.wire)
             o == Len(Onto(m))
             w == link.wire
             w1 == link'.wire
  <1>1. /\ call.pc = "transfer" /\ call' = NoCall
        /\ file' = [file EXCEPT !.pos = file.pos + m,
                                !.size = Greater(file.size, file.pos + m)]
        /\ link' = [link EXCEPT !.wire = AgedWire(New(m)) \o Onto(m)]
        /\ UNCHANGED <<session, restOk>> /\ excuses \subseteq excuses'
        /\ link.asked = "RETR" => "crossed" \in excuses'
    BY SentTypes
  <1>2. /\ file'.data = file.data /\ file'.pasv = file.pasv /\ file'.changed = file.changed
        /\ file'.pos = file.pos + m
        /\ link'.use = link.use /\ link'.asked = link.asked /\ link'.at = link.at
    BY <1>0, <1>1 DEF FileType, LinkType
  <1>3. file.data /\ file.changed /\ call'.pc = "idle"
    BY <1>1, SentTypes DEF CallInv, NoCall
  <1>4. /\ link.use \in {"idle", "RETR", "STOR"} /\ link.asked \in {"RETR", "STOR"}
        /\ link.use # "idle" => link.asked = link.use
    <2>1. link.use \in {"none", "idle"} \cup Transfers /\ link.asked \in {"none"} \cup Transfers
      BY <1>0 DEF LinkType
    <2> QED
      BY <1>1, <1>3, <2>1 DEF LinkInv, Protocol
  <1>5. (\A v : Queued(v)' <=> Queued(v)) /\ (\A r : Owed(r)' <=> Owed(r))
    BY <1>1 DEF Queued, Owed
  <1>9. /\ file.pos \in Nat /\ m \in Nat /\ m >= 1 /\ file.pos + m <= MaxSize /\ link.at \in Nat
        /\ MaxSize \in Nat
    <2>1. file.pos + m \in 1 .. MaxSize
      BY SentTypes
    <2>2. /\ file.pos \in 0 .. MaxSize /\ link.at \in 0 .. MaxSize /\ MaxSize \in Nat
      BY Fields
    <2> QED
      BY <2>1, <2>2
  <1>6. /\ Onto(m) = <<>> \/ (o = m /\ Onto(m) # <<>>)
        /\ Onto(m) = <<>> => o = 0
        /\ Onto(m) = <<>> <=> ~(link.asked = "STOR" /\ Uploads)
    <2>1. Onto(m) = <<>> => o = 0
      OBVIOUS
    <2>2. Onto(m) # <<>> => o = m /\ link.asked = "STOR" /\ Uploads
      BY SentTypes
    <2>3. link.asked = "STOR" /\ Uploads => Onto(m) # <<>>
      <3> SUFFICES ASSUME link.asked = "STOR", Uploads PROVE Onto(m) # <<>>
        OBVIOUS
      <3>1. Onto(m) = Fresh(file.pos, m)
        BY DEF Onto
      <3>2. file.pos \in Nat /\ m \in Nat /\ file.pos + m <= MaxSize
        BY <1>9
      <3>3. Len(Fresh(file.pos, m)) = m
        BY <3>2, FreshIs
      <3> QED
        BY <3>1, <3>3
    <2> QED
      BY <2>1, <2>2, <2>3
  <1>7. /\ Len(w1) = n + o
        /\ \A j \in 1 .. n : w1[j].place = w[j].place
        /\ Onto(m) # <<>> => \A j \in 1 .. m : w1[n + j].place = file.pos + j - 1
    <2>1. /\ Len(w1) = n + o
          /\ \A j \in 1 .. n : w1[j].place = w[j].place
          /\ Onto(m) # <<>> => \A j \in 1 .. m : w1[n + j] =
                         [place |-> file.pos + j - 1, kind |-> "latest"]
      BY SentTypes
    <2> HIDE DEF n, o, w, w1
    <2>2. Onto(m) # <<>> => \A j \in 1 .. m : w1[n + j].place = file.pos + j - 1
      <3> SUFFICES ASSUME Onto(m) # <<>>, NEW j \in 1 .. m
                   PROVE  w1[n + j].place = file.pos + j - 1
        OBVIOUS
      <3>1. w1[n + j] = [place |-> file.pos + j - 1, kind |-> "latest"]
        BY <2>1
      <3> QED
        BY <3>1
    <2> QED
      BY <2>1, <2>2
  <1>8. /\ n \in Nat /\ (w = <<>> <=> n = 0) /\ DOMAIN w = 1 .. n
        /\ Len(w1) \in Nat /\ (w1 = <<>> <=> Len(w1) = 0) /\ DOMAIN w1 = 1 .. Len(w1)
    BY Queues, QueuesNext
  <1>10. Uploads <=> session.xfer = "STOR" \/ Queued("STOR")
    BY DEF Uploads, Queued
  <1>11. ASSUME link.use = "STOR"
         PROVE  /\ session.xfer = "STOR" /\ link.at + n = file.pos
                /\ Onto(m) # <<>> /\ o = m
    BY <1>4, <1>6, <1>10, <1>11 DEF LinkInv, Protocol
  <1>12. ASSUME link.use = "RETR"
         PROVE  n = 0 /\ o = 0 /\ w1 = <<>> /\ "crossed" \in excuses'
    <2>1. n = 0
      BY <1>8, <1>12 DEF LinkInv, Protocol
    <2>2. o = 0
      BY <1>4, <1>6, <1>12
    <2> QED
      BY <1>1, <1>4, <1>7, <1>8, <1>12, <2>1, <2>2
  <1>13. ASSUME link.use = "idle"
         PROVE  /\ file.pasv /\ session.xfer = "none" /\ ~Queued("ABOR")
                /\ Onto(m) = <<>> => n = 0
                /\ link.asked = "RETR" => n = 0
                /\ \A j \in 1 .. n : w[j].place = file.pos - n + j - 1
                /\ n <= file.pos
    <2>1. file.pasv /\ session.xfer = "none" /\ ~Queued("ABOR")
      BY <1>13 DEF LinkInv, Protocol
    <2>2. n # 0 => Queued("STOR")
      BY <1>8, <2>1 DEF WireInv, Protocol
    <2>3. Queued("STOR") => link.asked = "STOR"
      BY <1>13 DEF Queued, AskedInv, Awaited, Protocol
    <2>4. (\A j \in 1 .. n : w[j].place = file.pos - n + j - 1) /\ n <= file.pos
      BY <1>8, <1>13 DEF WireInv, Protocol
    <2> QED
      BY <1>4, <1>6, <1>10, <2>1, <2>2, <2>3, <2>4
  <1> HIDE DEF n, o, w, w1
  <1>14. LinkInv'
    <2>1. link'.use = "STOR" => session'.xfer = "STOR" /\ link'.at + Len(w1) = file'.pos
      BY <1>1, <1>2, <1>7, <1>8, <1>9, <1>11
    <2>2. link'.use = "RETR" => w1 = <<>> /\ "crossed" \in excuses'
      BY <1>2, <1>12
    <2>3. link'.use = "idle" => file'.pasv /\ session'.xfer = "none" /\ ~Queued("ABOR")'
      BY <1>1, <1>2, <1>5, <1>13
    <2>4. link'.use \in Transfers =>
            /\ link'.asked = link'.use
            /\ \A i \in DOMAIN session'.cmds : session'.cmds[i][1] = "DELE"
            /\ ~Owed("425")' /\ call'.pc \notin {"type", "port", "pasv", "rest"}
      BY <1>1, <1>2, <1>3, <1>5 DEF LinkInv, Protocol
    <2> QED
      BY <1>2, <1>3, <1>4, <2>1, <2>2, <2>3, <2>4 DEF LinkInv, w1
  <1>15. WireInv'
    <2>1. w1 # <<>> => file'.changed
                       /\ (session'.xfer = "STOR" \/ (file'.pasv /\ Queued("STOR")'))
      <3>1. CASE n # 0
        BY <1>1, <1>2, <1>3, <1>5, <1>8, <3>1 DEF WireInv, Protocol, w
      <3>2. CASE link.use = "idle" /\ Onto(m) # <<>>
        BY <1>1, <1>2, <1>3, <1>5, <1>6, <1>10, <1>13, <3>2
      <3>3. CASE n = 0 /\ Onto(m) = <<>>
        BY <1>6, <1>7, <1>8, <3>3
      <3> QED
        BY <1>1, <1>2, <1>3, <1>4, <1>11, <1>12, <3>1, <3>2, <3>3
    <2>2. Len(w1) <= MaxSize
      <3>1. CASE link.use = "STOR"
        <4>1. n <= file.pos
          BY <1>8, <1>9, <1>11, <3>1
        <4> QED
          BY <1>7, <1>8, <1>9, <1>11, <3>1, <4>1
      <3>2. CASE link.use = "RETR"
        BY <1>7, <1>9, <1>12, <3>2
      <3>3. CASE link.use = "idle"
        <4>1. n <= file.pos /\ o <= m /\ o \in Nat
          BY <1>6, <1>9, <1>13, <3>3
        <4> QED
          BY <1>7, <1>8, <1>9, <4>1
      <3> QED
        BY <1>4, <3>1, <3>2, <3>3
    <2>3. ASSUME session'.xfer = "STOR", NEW j \in DOMAIN w1
          PROVE  w1[j].place = link'.at + j - 1
      <3>1. link.use = "STOR"
        <4>1. link.use # "idle"
          BY <1>1, <1>13, <2>3
        <4>2. link.use # "RETR"
          BY <1>8, <1>12, <2>3
        <4> QED
          BY <1>4, <4>1, <4>2
      <3>2. link.at + n = file.pos /\ o = m /\ Onto(m) # <<>> /\ j \in 1 .. n + m
        BY <1>7, <1>8, <1>11, <2>3, <3>1
      <3>3. CASE j \in 1 .. n
        <4>1. w[j].place = link.at + j - 1
          BY <1>1, <1>8, <2>3, <3>3 DEF WireInv, Protocol, w
        <4> QED
          BY <1>2, <1>7, <3>3, <4>1
      <3>4. CASE j \notin 1 .. n
        <4> DEFINE i == j - n
        <4>1. i \in 1 .. m /\ n + i = j /\ file.pos + i - 1 = link.at + j - 1
          BY <1>8, <1>9, <3>2, <3>4
        <4>2. w1[n + i].place = file.pos + i - 1
          BY <1>7, <3>2, <4>1
        <4> QED
          BY <1>2, <4>1, <4>2
      <3> QED
        BY <3>3, <3>4
    <2>4. ASSUME link'.use = "idle"
          PROVE  Len(w1) <= file'.pos
      <3>1. n <= file.pos /\ o <= m /\ o \in Nat
        BY <1>2, <1>6, <1>9, <1>13, <2>4
      <3> QED
        BY <1>2, <1>7, <1>8, <1>9, <3>1
    <2>5. ASSUME link'.use = "idle", NEW j \in DOMAIN w1
          PROVE  w1[j].place = file'.pos - Len(w1) + j - 1
      <3>1. link.use = "idle" /\ j \in 1 .. n + o
        BY <1>2, <1>7, <1>8, <2>5
      <3>2. Onto(m) # <<>> /\ o = m
        <4>1. Onto(m) = <<>> => n = 0 /\ o = 0
          BY <1>6, <1>13, <3>1
        <4>2. n + o # 0
          BY <1>8, <1>9, <3>1, <1>6
        <4> QED
          BY <1>6, <4>1, <4>2
      <3>3. file'.pos - Len(w1) + j - 1 = file.pos - n + j - 1
        <4>1. j \in Nat
          BY <1>7, <1>8, <2>5
        <4> QED
          BY <1>2, <1>7, <1>8, <1>9, <3>2, <4>1
      <3>4. CASE j \in 1 .. n
        BY <1>7, <1>13, <3>1, <3>3, <3>4
      <3>5. CASE j \notin 1 .. n
        <4> DEFINE i == j - n
        <4>1. i \in 1 .. m /\ n + i = j /\ file.pos + i - 1 = file.pos - n + j - 1
          <5>1. j \in Int /\ n \in Nat /\ file.pos \in Nat /\ j \in 1 .. n + m /\ j \notin 1 .. n
            BY <1>8, <1>9, <3>1, <3>2, <3>5
          <5> QED
            BY <5>1
        <4>2. w1[n + i].place = file.pos + i - 1
          BY <1>7, <3>2, <4>1
        <4> QED
          BY <3>3, <4>1, <4>2
      <3> QED
        BY <3>4, <3>5
    <2> QED
      BY <2>1, <2>2, <2>3, <2>4, <2>5 DEF WireInv, w1
  <1>16. RestInv' /\ PasvInv'
    BY <1>1, <1>3, <1>5 DEF RestInv, PasvInv, Protocol
  <1>17. AskedInv'
    <2> SUFFICES ASSUME link.use = "idle" PROVE AskedInv'
      BY <1>2, <1>4 DEF AskedInv, Awaited
    <2>1. Awaited
      BY DEF Awaited
    <2>2. Owed("425")' => call'.pc # "rest" /\ ~Queued("RETR")' /\ ~Queued("STOR")'
      BY <1>3, <1>5, <2>1 DEF AskedInv, Protocol
    <2>3. link.asked = "RETR" => w1 = <<>> /\ "crossed" \in excuses'
      <3> SUFFICES ASSUME link.asked = "RETR" PROVE w1 = <<>> /\ "crossed" \in excuses'
        OBVIOUS
      <3>1. n = 0 /\ o = 0
        BY <1>6, <1>13
      <3> QED
        BY <1>1, <1>7, <1>8, <3>1
    <2>4. ASSUME NEW i \in DOMAIN session.cmds, session.cmds[i][1] \in Transfers
          PROVE  /\ session.cmds[i][1] = link.asked
                 /\ \A j \in DOMAIN session.cmds : j > i => session.cmds[j][1] = "DELE"
                 /\ link.asked = "STOR" \/ "crossed" \notin excuses =>
                      IF i = 1 THEN session.rest = Start
                      ELSE session.cmds[i - 1] = <<"REST", Start>> /\ (restOk \/ Start = 0)
      BY <2>1, <2>4 DEF AskedInv, Protocol
    <2>5. Queued("STOR") => Start' = Start
      <3> SUFFICES ASSUME Queued("STOR") PROVE Start' = Start
        OBVIOUS
      <3>1. link.asked = "STOR"
        BY <2>4 DEF Queued
      <3>2. o = m
        BY <1>6, <1>10, <3>1
      <3>3. Start = file.pos - n /\ Start' = file'.pos - Len(w1)
        BY <1>2 DEF Start, n, w1
      <3> QED
        BY <1>2, <1>7, <1>8, <1>9, <3>2, <3>3
    <2>6. ASSUME NEW i \in DOMAIN session.cmds, session.cmds[i][1] \in Transfers,
                 link.asked = "STOR" \/ "crossed" \notin excuses'
          PROVE  IF i = 1 THEN session.rest = Start'
                 ELSE session.cmds[i - 1] = <<"REST", Start'>> /\ (restOk \/ Start' = 0)
      <3>1. link.asked = "STOR"
        BY <1>1, <1>4, <2>6
      <3>2. Queued("STOR")
        BY <2>4, <2>6, <3>1 DEF Queued
      <3> QED
        BY <2>4, <2>5, <2>6, <3>1, <3>2
    <2> QED
      BY <1>1, <1>2, <1>3, <2>2, <2>3, <2>4, <2>6 DEF AskedInv, w1
  <1>18. ActiveInv'
    BY <1>1, <1>2, <1>4, <1>5 DEF ActiveInv, Protocol
  <1> QED
    BY <1>14, <1>15, <1>16, <1>17, <1>18 DEF Protocol

\* The server's connection is taken.
LEMMA AcceptsKeeps ==
    ASSUME Types, Types', Protocol, Accepts
    PROVE  Protocol'
  <1> USE DEF Transfers
  <1>0. file \in FileType /\ link \in LinkType
    BY DEF Types
  <1>1. /\ call.pc = "accept" /\ link.use # "none" /\ UNCHANGED <<link, restOk, excuses>>
        /\ file' = [file EXCEPT !.data = TRUE]
    BY DEF Accepts
  <1>2. file'.data /\ file'.pasv = file.pasv /\ file'.pos = file.pos /\ file'.changed = file.changed
    BY <1>0, <1>1 DEF FileType
  <1>3. /\ call'.pc = "transfer" /\ session'.rest = session.rest /\ session'.xfer = session.xfer
        /\ session'.replies = session.replies /\ Adds(<<>>)
    BY Sends, GoFields DEF Accepts, Points
  <1>4. session'.cmds = session.cmds
    BY <1>3 DEF Adds
  <1>5. (\A v : Queued(v)' <=> Queued(v)) /\ (\A r : Owed(r)' <=> Owed(r))
    BY <1>3, <1>4 DEF Queued, Owed
  <1>6. LinkInv'
    BY <1>1, <1>2, <1>3, <1>4, <1>5 DEF LinkInv, Protocol
  <1>7. WireInv'
    BY <1>1, <1>2, <1>3, <1>5 DEF WireInv, Protocol
  <1>8. RestInv' /\ PasvInv'
    BY <1>1, <1>3, <1>4, <1>5 DEF RestInv, PasvInv, Protocol
  <1>9. Start' = Start /\ (Awaited' <=> Awaited)
    BY <1>1, <1>2 DEF Start, Awaited
  <1>10. AskedInv'
    BY <1>1, <1>2, <1>3, <1>4, <1>5, <1>9 DEF AskedInv, Protocol
  <1>11. ActiveInv'
    BY <1>1, <1>2, <1>3, <1>4, <1>5 DEF ActiveInv, Protocol
  <1> QED
    BY <1>6, <1>7, <1>8, <1>10, <1>11 DEF Protocol

\* The server takes the first command, and replies.
Pops ==
    /\ \A v : Queued(v)' => Queued(v)
    /\ \A v : Queued(v) => Queued(v)' \/ v = session.cmds[1][1]
    /\ 1 \in DOMAIN session.cmds
    /\ \A i \in DOMAIN session'.cmds :
         /\ i \in Nat /\ i + 1 \in DOMAIN session.cmds /\ i + 1 > 1
         /\ session'.cmds[i] = session.cmds[i + 1]
         /\ i = Len(session'.cmds) <=> i + 1 = Len(session.cmds)
    /\ session'.cmds = <<>> <=> Len(session.cmds) = 1
    /\ session'.cmds # <<>> =>
         session'.cmds[Len(session'.cmds)] = session.cmds[Len(session.cmds)]

\* The server takes the first command.
LEMMA Popped ==
    ASSUME Types, Types', session.cmds # <<>>, session'.cmds = Tail(session.cmds)
    PROVE  Pops
  <1> DEFINE n == Len(session.cmds)
             n1 == Len(session'.cmds)
  <1>1. /\ n \in Nat /\ n >= 1 /\ n1 = n - 1
        /\ DOMAIN session.cmds = 1 .. n /\ DOMAIN session'.cmds = 1 .. n1
        /\ \A i \in 1 .. n - 1 : session'.cmds[i] = session.cmds[i + 1]
        /\ session'.cmds = <<>> <=> n1 = 0
    BY Fields, Tailed, Queues, QueuesNext
  <1> HIDE DEF n, n1
  <1>2. /\ 1 \in 1 .. n /\ (n1 = 0 <=> n = 1) /\ (n1 # 0 => n1 \in 1 .. n - 1 /\ n1 + 1 = n)
        /\ \A i \in 1 .. n1 : i \in 1 .. n - 1 /\ i + 1 \in 1 .. n /\ i + 1 > 1 /\ i \in Nat
                              /\ (i = n1 <=> i + 1 = n)
    BY <1>1
  <1>3. \A i \in DOMAIN session'.cmds :
          /\ i \in Nat /\ i + 1 \in DOMAIN session.cmds /\ i + 1 > 1
          /\ session'.cmds[i] = session.cmds[i + 1]
          /\ i = n1 <=> i + 1 = n
    BY <1>1, <1>2
  <1>4. \A v : Queued(v)' => Queued(v)
    BY <1>3 DEF Queued
  <1>5. \A v : Queued(v) => Queued(v)' \/ v = session.cmds[1][1]
    <2>0. ASSUME NEW i \in 1 .. n, i # 1
          PROVE  \E j \in 1 .. n1 : session'.cmds[j] = session.cmds[i]
      <3>1. i - 1 \in 1 .. n1 /\ i - 1 + 1 = i
        BY <1>1, <2>0
      <3> QED
        BY <1>1, <1>3, <3>1
    <2> SUFFICES ASSUME NEW v, Queued(v), v # session.cmds[1][1]
                 PROVE  Queued(v)'
      OBVIOUS
    <2>1. PICK i \in DOMAIN session.cmds : session.cmds[i][1] = v
      BY DEF Queued
    <2>2. i \in 1 .. n /\ i # 1
      BY <1>1, <2>1
    <2>3. PICK j \in 1 .. n1 : session'.cmds[j] = session.cmds[i]
      BY <2>0, <2>2
    <2> QED
      BY <1>1, <2>1, <2>3 DEF Queued
  <1>6. session'.cmds # <<>> => session'.cmds[n1] = session.cmds[n]
    BY <1>1, <1>2
  <1> QED
    BY <1>1, <1>2, <1>3, <1>4, <1>5, <1>6 DEF Pops, n, n1

\* A reply is added.
Gets(c) ==
    /\ \A r : Owed(r)' => Owed(r) \/ r = c
    /\ \A i \in DOMAIN session'.replies :
         \/ i \in DOMAIN session.replies /\ session'.replies[i] = session.replies[i]
         \/ i = Len(session'.replies) /\ session'.replies[i] = c

LEMMA Got ==
    ASSUME Types, Types', NEW c \in Codes, session'.replies = session.replies \o <<c>>
    PROVE  Gets(c)
  <1> DEFINE n == Len(session.replies)
             n1 == Len(session'.replies)
  <1>1. /\ n \in Nat /\ n1 = n + 1
        /\ DOMAIN session.replies = 1 .. n /\ DOMAIN session'.replies = 1 .. n1
        /\ \A i \in 1 .. n : session'.replies[i] = session.replies[i]
        /\ session'.replies[n + 1] = c
    BY Fields, Appended, Queues, QueuesNext
  <1> HIDE DEF n, n1
  <1>2. \A i \in 1 .. n1 : i \in 1 .. n \/ (i = n1 /\ i = n + 1)
    BY <1>1
  <1>3. \A i \in DOMAIN session'.replies :
         \/ i \in DOMAIN session.replies /\ session'.replies[i] = session.replies[i]
         \/ i = n1 /\ session'.replies[i] = c
    BY <1>1, <1>2
  <1>4. \A r : Owed(r)' => Owed(r) \/ r = c
    BY <1>3 DEF Owed
  <1> QED
    BY <1>3, <1>4 DEF Gets, n1

\* A command that is no transfer and no ABOR is handled.
LEMMA HandledKeeps ==
    ASSUME Types, Types', Protocol,
           NEW v \in {"TYPE", "PORT", "PASV", "REST", "DELE"}, NEW c \in Codes,
           Handles(v, <<c>>), v = "PASV" <=> c = "227", c = "350" => restOk, c # "425",
           UNCHANGED <<file, call, link, restOk, excuses>>
    PROVE  Protocol'
  <1> USE DEF Transfers
  <1>1. /\ session.cmds # <<>> /\ session.cmds[1][1] = v
        /\ session.xfer = "none"
        /\ session'.cmds = Tail(session.cmds)
        /\ session'.replies = session.replies \o <<c>>
        /\ session'.rest = IF v = "REST" /\ restOk THEN session.cmds[1][2] ELSE session.rest
        /\ session'.xfer = session.xfer
    <2>1. session \in SessionType /\ <<c>> \in Seq(Codes)
      BY DEF Types
    <2> QED
      BY <2>1, HandlesEffect
  <1>2. Pops
    BY <1>1, Popped
  <1>3. Gets(c)
    BY <1>1, Got
  <1>4. /\ \A w : Queued(w)' => Queued(w)
        /\ \A w : Queued(w) => Queued(w)' \/ w = v
        /\ 1 \in DOMAIN session.cmds
        /\ \A i \in DOMAIN session'.cmds :
             /\ i \in Nat /\ i + 1 \in DOMAIN session.cmds /\ i + 1 > 1
             /\ session'.cmds[i] = session.cmds[i + 1]
             /\ i = Len(session'.cmds) <=> i + 1 = Len(session.cmds)
    BY <1>1, <1>2 DEF Pops
  <1>5. /\ session'.cmds = <<>> <=> Len(session.cmds) = 1
        /\ session'.cmds # <<>> =>
             session'.cmds[Len(session'.cmds)] = session.cmds[Len(session.cmds)]
    BY <1>2 DEF Pops
  <1>6. \A r : Owed(r)' => Owed(r) \/ r = c
    BY <1>3 DEF Gets
  <1>7. Queued(v)
    BY <1>1, <1>4 DEF Queued
  <1>8. LinkInv'
    BY <1>1, <1>4, <1>6 DEF LinkInv, Protocol
  <1>9. WireInv'
    BY <1>1, <1>4 DEF WireInv, Protocol
  <1>10. RestInv'
    <2>1. ~restOk' => session'.rest = 0 /\ ~Owed("350")'
      BY <1>1, <1>6 DEF RestInv, Protocol
    <2>2. ASSUME call'.pc = "rest", session'.cmds = <<>>, restOk'
          PROVE  session'.rest = file'.pos
      <3>1. session.cmds[1] = <<"REST", file.pos>>
        BY <1>1, <1>5, <2>2 DEF RestInv, Protocol
      <3> QED
        BY <1>1, <2>2, <3>1
    <2>3. ASSUME call'.pc = "rest", session'.cmds # <<>>
          PROVE  session'.cmds[Len(session'.cmds)] = <<"REST", file'.pos>>
      BY <1>1, <1>5, <2>3 DEF RestInv, Protocol
    <2> QED
      BY <2>1, <2>2, <2>3 DEF RestInv
  <1>11. PasvInv'
    <2>1. /\ call.pc = "pasv" => file.pasv
          /\ call.pc = "port" => ~file.pasv
          /\ call.pc # "pasv" => ~Queued("PASV")' /\ ~Owed("227")'
      BY <1>4, <1>6, <1>7 DEF PasvInv, Protocol
    <2>2. ASSUME NEW i \in DOMAIN session'.cmds, session'.cmds[i][1] = "PASV"
          PROVE  i = Len(session'.cmds) /\ ~Owed("227")'
      <3>1. i + 1 = Len(session.cmds) /\ ~Owed("227")
        BY <1>4, <2>2 DEF PasvInv, Protocol
      <3>2. v # "PASV"
        <4>1. v = "PASV" => 1 = Len(session.cmds)
          BY <1>1, <1>4 DEF PasvInv, Protocol
        <4>2. i + 1 # 1
          BY <1>4
        <4> QED
          BY <3>1, <4>1, <4>2
      <3> QED
        BY <1>4, <1>6, <3>1, <3>2
    <2>3. ASSUME NEW i \in DOMAIN session'.replies, session'.replies[i] = "227"
          PROVE  i = Len(session'.replies) /\ session'.cmds = <<>> /\ session'.xfer = "none"
      <3>1. i = Len(session'.replies) /\ c = "227"
        BY <1>1, <1>3, <2>3 DEF PasvInv, Protocol, Gets
      <3>2. 1 = Len(session.cmds)
        BY <1>1, <1>4, <3>1 DEF PasvInv, Protocol
      <3> QED
        BY <1>1, <1>5, <3>1, <3>2
    <2> QED
      BY <2>1, <2>2, <2>3 DEF PasvInv
  <1>12. (Awaited' <=> Awaited) /\ Start' = Start
    BY DEF Awaited, Start
  <1>13. AskedInv'
    <2> SUFFICES ASSUME Awaited PROVE AskedInv'
      BY <1>12 DEF AskedInv
    <2>1. Owed("425")' => call'.pc # "rest" /\ ~Queued("RETR")' /\ ~Queued("STOR")'
      BY <1>4, <1>6 DEF AskedInv, Protocol
    <2>2. ASSUME NEW i \in DOMAIN session'.cmds, session'.cmds[i][1] \in Transfers
          PROVE  /\ file.data \/ call.pc \in {"ask", "accept"}
                 /\ call.pc \notin {"type", "port", "pasv", "rest"}
                 /\ session'.cmds[i][1] = link.asked
                 /\ link.use = "idle" /\ link.asked = "RETR" => link.wire = <<>>
      BY <1>4, <2>2 DEF AskedInv, Protocol
    <2>3. ASSUME NEW i \in DOMAIN session'.cmds, session'.cmds[i][1] \in Transfers,
                 NEW j \in DOMAIN session'.cmds, j > i
          PROVE  session'.cmds[j][1] = "DELE"
      <3>1. j + 1 > i + 1 /\ i + 1 \in DOMAIN session.cmds /\ j + 1 \in DOMAIN session.cmds
        BY <1>4, <2>3
      <3>2. session.cmds[j + 1][1] = "DELE"
        BY <1>4, <2>3, <3>1 DEF AskedInv, Protocol
      <3> QED
        BY <1>4, <3>2
    <2>4. ASSUME NEW i \in DOMAIN session'.cmds, session'.cmds[i][1] \in Transfers,
                 link.asked = "STOR" \/ "crossed" \notin excuses
          PROVE  IF i = 1 THEN session'.rest = Start
                 ELSE session'.cmds[i - 1] = <<"REST", Start>> /\ (restOk \/ Start = 0)
      <3>1. i + 1 # 1 /\ i + 1 - 1 = i /\ i \in Nat /\ i >= 1
        BY <1>4
      <3>2. session.cmds[i] = <<"REST", Start>> /\ (restOk \/ Start = 0)
        BY <1>4, <2>4, <3>1 DEF AskedInv, Protocol
      <3>3. CASE i = 1
        <4>1. session.cmds[1][1] = "REST" /\ session.cmds[1][2] = Start
          BY <3>2, <3>3
        <4>2. ~restOk => session.rest = 0
          BY DEF RestInv, Protocol
        <4> QED
          BY <1>1, <3>2, <3>3, <4>1, <4>2
      <3>4. CASE i # 1
        <4>1. i - 1 \in DOMAIN session'.cmds /\ i - 1 + 1 = i
          <5>1. i \in 1 .. Len(session'.cmds) /\ DOMAIN session'.cmds = 1 .. Len(session'.cmds)
                /\ Len(session'.cmds) \in Nat
            BY QueuesNext, <2>4
          <5> QED
            BY <3>1, <3>4, <5>1
        <4>2. session'.cmds[i - 1] = session.cmds[i]
          BY <1>4, <4>1
        <4> QED
          BY <3>2, <3>4, <4>2
      <3> QED
        BY <3>3, <3>4
    <2> QED
      BY <1>12, <2>1, <2>2, <2>3, <2>4 DEF AskedInv
  <1>14. ActiveInv'
    <2> SUFFICES ASSUME ~file.pasv PROVE ActiveInv'
      BY DEF ActiveInv
    <2>1. call.pc \notin {"ask", "accept"} \/ link.use # "none" =>
            ~Owed("425")' /\ ~Queued("RETR")' /\ ~Queued("STOR")'
      BY <1>4, <1>6 DEF ActiveInv, Protocol
    <2>2. ASSUME NEW i \in DOMAIN session'.cmds, session'.cmds[i][1] \in Transfers
          PROVE  i = Len(session'.cmds)
      BY <1>4, <2>2 DEF ActiveInv, Protocol
    <2>3. ASSUME NEW i \in DOMAIN session'.replies, session'.replies[i] = "425"
          PROVE  FALSE
      BY <1>1, <1>3, <2>3 DEF ActiveInv, Protocol, Gets
    <2> QED
      BY <2>1, <2>2, <2>3 DEF ActiveInv
  <1> QED
    BY <1>8, <1>9, <1>10, <1>11, <1>13, <1>14 DEF Protocol

\* The replies to ABOR.
AborCodes == {"225", "226 ABOR", "426"}

LEMMA AborAnswers ==
    /\ <<"225">> \in Seq(AborCodes) /\ <<"226 ABOR">> \in Seq(AborCodes)
    /\ <<"426", "226 ABOR">> \in Seq(AborCodes)
  BY DEF AborCodes

\* Facts about sequences.
LEMMA Elements ==
    ASSUME NEW S, NEW s \in Seq(S)
    PROVE  \A i \in DOMAIN s : s[i] \in S
  OBVIOUS

LEMMA Chained ==
    ASSUME NEW s \in Seq(Codes), NEW r \in Seq(Codes)
    PROVE  \A i \in DOMAIN (s \o r) :
             \/ i \in DOMAIN s /\ (s \o r)[i] = s[i]
             \/ \E j \in DOMAIN r : (s \o r)[i] = r[j]
  <1> DEFINE n == Len(s)
             m == Len(r)
             t == s \o r
  <1>1. /\ n \in Nat /\ m \in Nat /\ DOMAIN s = 1 .. n /\ DOMAIN r = 1 .. m
        /\ DOMAIN t = 1 .. n + m
        /\ \A i \in 1 .. n + m : t[i] = IF i <= n THEN s[i] ELSE r[i - n]
    OBVIOUS
  <1> HIDE DEF n, m, t
  <1>2. \A i \in 1 .. n + m : i \in 1 .. n \/ (i - n \in 1 .. m /\ ~(i <= n))
    BY <1>1
  <1>3. \A i \in 1 .. n : i \in 1 .. n + m /\ i <= n
    BY <1>1
  <1> QED
    BY <1>1, <1>2, <1>3 DEF t

\* An ABOR is only sent when the data connection is closed.
LEMMA AborKeeps ==
    ASSUME Types, Types', Protocol, HandleAbor
    PROVE  Protocol'
  <1> USE DEF Transfers
  <1>0. session \in SessionType /\ link \in LinkType
    BY DEF Types
  <1>1. /\ session.cmds # <<>> /\ session.cmds[1][1] = "ABOR"
        /\ session'.cmds = Tail(session.cmds)
        /\ session'.rest = session.rest /\ session'.xfer = "none"
        /\ \E r \in {<<"226 ABOR">>, <<"225">>, <<"426", "226 ABOR">>} :
             session'.replies = session.replies \o r
    <2>1. PICK r \in {<<"226 ABOR">>, <<"225">>, <<"426", "226 ABOR">>} : Handles("ABOR", r)
      BY DEF HandleAbor
    <2>2. r \in Seq(Codes)
      BY Answers
    <2> QED
      BY <1>0, <2>1, <2>2, HandlesEffect
  <1>2. /\ link' = [link EXCEPT !.wire = <<>>] /\ excuses \subseteq excuses'
        /\ UNCHANGED <<file, call, restOk>>
    BY DEF HandleAbor, Excuse
  <1>3. link'.use = link.use /\ link'.asked = link.asked /\ link'.wire = <<>>
    BY <1>0, <1>2 DEF LinkType
  <1>4. Pops
    BY <1>1, Popped
  <1>5. /\ \A w : Queued(w)' => Queued(w)
        /\ 1 \in DOMAIN session.cmds
        /\ \A i \in DOMAIN session'.cmds :
             /\ i \in Nat /\ i + 1 \in DOMAIN session.cmds /\ i + 1 > 1
             /\ session'.cmds[i] = session.cmds[i + 1]
             /\ i = Len(session'.cmds) <=> i + 1 = Len(session.cmds)
        /\ session'.cmds = <<>> <=> Len(session.cmds) = 1
        /\ session'.cmds # <<>> =>
             session'.cmds[Len(session'.cmds)] = session.cmds[Len(session.cmds)]
    BY <1>4 DEF Pops
  <1>6. /\ Owed("425")' => Owed("425")
        /\ Owed("227")' => Owed("227")
        /\ Owed("350")' => Owed("350")
    <2>1. PICK r \in Seq(AborCodes) : session'.replies = session.replies \o r
      BY <1>1, AborAnswers, Zenon
    <2>2. session.replies \in Seq(Codes) /\ r \in Seq(Codes)
      <3>1. AborCodes \subseteq Codes
        BY DEF AborCodes, Codes
      <3> QED
        BY <3>1, Fields
    <2>3. \A i \in DOMAIN r : r[i] \in AborCodes
      BY Elements
    <2>4. \A i \in DOMAIN session'.replies :
            \/ i \in DOMAIN session.replies /\ session'.replies[i] = session.replies[i]
            \/ \E j \in DOMAIN r : session'.replies[i] = r[j]
      <3>1. session'.replies = session.replies \o r
        BY <2>1
      <3>2. \A i \in DOMAIN (session.replies \o r) :
              \/ i \in DOMAIN session.replies /\ (session.replies \o r)[i] = session.replies[i]
              \/ \E j \in DOMAIN r : (session.replies \o r)[i] = r[j]
        BY <2>2, Chained
      <3> QED
        BY <3>1, <3>2, Zenon
    <2>5. \A c \in {"425", "227", "350"} : \A j \in DOMAIN r : r[j] # c
      BY <2>3 DEF AborCodes
    <2>6. \A c \in {"425", "227", "350"} : \A i \in DOMAIN session'.replies :
            session'.replies[i] = c =>
              i \in DOMAIN session.replies /\ session.replies[i] = c
      BY <2>4, <2>5
    <2> QED
      BY <2>6 DEF Owed
  <1>7. link.use = "none" /\ ~file.data
    <2>1. Queued("ABOR")
      BY <1>1, <1>5 DEF Queued
    <2>2. link.use \notin Transfers
      BY <1>1, <1>5 DEF LinkInv, Protocol
    <2>3. link.use # "idle"
      BY <2>1 DEF LinkInv, Protocol
    <2>4. link.use = "none"
      BY <1>0, <2>2, <2>3 DEF LinkType
    <2> QED
      BY <2>4 DEF LinkInv, Protocol
  <1>8. LinkInv'
    BY <1>2, <1>3, <1>7 DEF LinkInv, Protocol
  <1>9. WireInv'
    <2>1. Len(link'.wire) = 0 /\ DOMAIN link'.wire = {}
      BY <1>3
    <2> QED
      BY <1>3, <1>7, <2>1, TransferAssumption DEF WireInv
  <1>10. RestInv'
    <2>1. ~restOk' => session'.rest = 0 /\ ~Owed("350")'
      BY <1>1, <1>2, <1>6 DEF RestInv, Protocol
    <2>2. ASSUME call'.pc = "rest"
          PROVE  session'.cmds # <<>> /\ session'.cmds[Len(session'.cmds)] = <<"REST", file'.pos>>
      <3>1. session.cmds[Len(session.cmds)] = <<"REST", file.pos>>
        BY <1>1, <1>2, <2>2 DEF RestInv, Protocol
      <3>2. session.cmds[Len(session.cmds)][1] = "REST"
        BY <3>1
      <3> QED
        BY <1>1, <1>2, <1>5, <3>1, <3>2
    <2> QED
      BY <2>1, <2>2 DEF RestInv
  <1>11. PasvInv'
    <2>1. /\ call'.pc = "pasv" => file'.pasv
          /\ call'.pc = "port" => ~file'.pasv
          /\ call'.pc # "pasv" => ~Queued("PASV")' /\ ~Owed("227")'
      BY <1>2, <1>5, <1>6 DEF PasvInv, Protocol
    <2>2. ~Owed("227")
      BY <1>1 DEF PasvInv, Protocol, Owed
    <2>3. ~Owed("227")'
      BY <1>6, <2>2
    <2>4. \A i \in DOMAIN session'.cmds :
            session'.cmds[i][1] = "PASV" => i = Len(session'.cmds)
      BY <1>5 DEF PasvInv, Protocol
    <2> QED
      BY <2>1, <2>3, <2>4 DEF PasvInv, Owed
  <1>12. (Awaited' <=> Awaited) /\ Start' = Start
    BY <1>2, <1>3, <1>7 DEF Awaited, Start
  <1>13. AskedInv'
    <2> SUFFICES ASSUME Awaited PROVE AskedInv'
      BY <1>12 DEF AskedInv
    <2>1. Owed("425")' => call'.pc # "rest" /\ ~Queued("RETR")' /\ ~Queued("STOR")'
      BY <1>2, <1>5, <1>6 DEF AskedInv, Protocol
    <2>2. ASSUME NEW i \in DOMAIN session'.cmds, session'.cmds[i][1] \in Transfers
          PROVE  /\ file.data \/ call.pc \in {"ask", "accept"}
                 /\ call.pc \notin {"type", "port", "pasv", "rest"}
                 /\ session'.cmds[i][1] = link.asked
      BY <1>5, <2>2 DEF AskedInv, Protocol
    <2>3. ASSUME NEW i \in DOMAIN session'.cmds, session'.cmds[i][1] \in Transfers,
                 NEW j \in DOMAIN session'.cmds, j > i
          PROVE  session'.cmds[j][1] = "DELE"
      <3>1. j + 1 > i + 1 /\ i + 1 \in DOMAIN session.cmds /\ j + 1 \in DOMAIN session.cmds
        BY <1>5, <2>3
      <3>2. session.cmds[j + 1][1] = "DELE"
        BY <1>5, <2>3, <3>1 DEF AskedInv, Protocol
      <3> QED
        BY <1>5, <3>2
    <2>4. ASSUME NEW i \in DOMAIN session'.cmds, session'.cmds[i][1] \in Transfers,
                 link.asked = "STOR" \/ "crossed" \notin excuses'
          PROVE  IF i = 1 THEN session'.rest = Start
                 ELSE session'.cmds[i - 1] = <<"REST", Start>> /\ (restOk \/ Start = 0)
      <3>1. i + 1 # 1 /\ i + 1 - 1 = i /\ i \in Nat /\ i >= 1
        BY <1>5
      <3>2. session.cmds[i] = <<"REST", Start>> /\ (restOk \/ Start = 0)
        <4>1. link.asked = "STOR" \/ "crossed" \notin excuses
          BY <1>2, <2>4
        <4>2. session.cmds[i + 1][1] \in Transfers /\ i + 1 \in DOMAIN session.cmds
          BY <1>5, <2>4
        <4>3. session.cmds[i + 1 - 1] = <<"REST", Start>> /\ (restOk \/ Start = 0)
          BY <3>1, <4>1, <4>2 DEF AskedInv, Protocol
        <4> QED
          BY <3>1, <4>3
      <3>3. i # 1
        <4>1. session.cmds[i][1] = "REST"
          BY <3>2
        <4> QED
          BY <1>1, <4>1
      <3>4. i - 1 \in DOMAIN session'.cmds /\ i - 1 + 1 = i
        <4>1. i \in 1 .. Len(session'.cmds) /\ DOMAIN session'.cmds = 1 .. Len(session'.cmds)
              /\ Len(session'.cmds) \in Nat
          BY QueuesNext, <2>4
        <4> QED
          BY <3>1, <3>3, <4>1
      <3>5. session'.cmds[i - 1] = session.cmds[i]
        BY <1>5, <3>4
      <3> QED
        BY <3>2, <3>3, <3>5
    <2> QED
      BY <1>2, <1>3, <1>7, <1>12, <2>1, <2>2, <2>3, <2>4 DEF AskedInv
  <1>14. ActiveInv'
    <2> SUFFICES ASSUME ~file.pasv PROVE ActiveInv'
      BY <1>2 DEF ActiveInv
    <2>1. call.pc \notin {"ask", "accept"} \/ link.use # "none" =>
            ~Owed("425")' /\ ~Queued("RETR")' /\ ~Queued("STOR")'
      BY <1>5, <1>6 DEF ActiveInv, Protocol
    <2>2. \A i \in DOMAIN session'.cmds :
            session'.cmds[i][1] \in Transfers => i = Len(session'.cmds)
      BY <1>5 DEF ActiveInv, Protocol
    <2>3. ~Owed("425")
      BY <1>1 DEF ActiveInv, Protocol, Owed
    <2>4. ~Owed("425")'
      BY <1>6, <2>3
    <2> QED
      BY <1>2, <1>3, <2>1, <2>2, <2>4 DEF ActiveInv, Owed
  <1> QED
    BY <1>8, <1>9, <1>10, <1>11, <1>13, <1>14 DEF Protocol

\* A transfer begins.
LEMMA BeginsKeeps ==
    ASSUME Types, Types', Protocol, NEW v \in Transfers,
           session.cmds # <<>>, session.cmds[1][1] = v, session.xfer = "none", Begins(v),
           UNCHANGED <<file, call, restOk>>
    PROVE  Protocol'
  <1> USE DEF Transfers
  <1>0. session \in SessionType /\ link \in LinkType
    BY DEF Types
  <1>1. /\ link.use = (IF file.pasv THEN "idle" ELSE "none")
        /\ session' = [session EXCEPT !.cmds = Tail(@), !.replies = Append(@, "150"),
                                      !.xfer = v, !.rest = 0]
        /\ link' = [link EXCEPT !.use = v, !.at = session.rest, !.old = {}]
        /\ excuses' = excuses
    BY DEF Begins
  <1>2. /\ session'.cmds = Tail(session.cmds) /\ session'.replies = Append(session.replies, "150")
        /\ session'.xfer = v /\ session'.rest = 0
        /\ link'.use = v /\ link'.at = session.rest /\ link'.wire = link.wire
        /\ link'.asked = link.asked
    BY <1>0, <1>1 DEF SessionType, LinkType
  <1>3. Pops
    BY <1>2, Popped
  <1>4. Gets("150")
    <2>1. "150" \in Codes /\ session.replies \in Seq(Codes)
      BY Fields DEF Codes
    <2>2. session'.replies = session.replies \o <<"150">>
      BY <1>2, <2>1
    <2> QED
      BY <2>1, <2>2, Got
  <1>5. \A w : Queued(w)' => Queued(w)
    BY <1>3 DEF Pops
  <1>6. \A r : Owed(r)' => Owed(r) \/ r = "150"
    BY <1>4 DEF Gets
  <1>7. 1 \in DOMAIN session.cmds /\ Queued(v)
    BY <1>3 DEF Pops, Queued
  <1>8. Awaited
    BY <1>1 DEF Awaited
  <1>9. /\ file.data \/ call.pc \in {"ask", "accept"}
        /\ call.pc \notin {"type", "port", "pasv", "rest"}
        /\ link.asked = v
        /\ \A j \in DOMAIN session.cmds : j > 1 => session.cmds[j][1] = "DELE"
        /\ link.use = "idle" /\ link.asked = "RETR" => link.wire = <<>>
        /\ v = "STOR" \/ "crossed" \notin excuses => session.rest = Start
        /\ ~Owed("425")
    BY <1>7, <1>8 DEF AskedInv, Protocol
  <1>10. \A i \in DOMAIN session'.cmds : session'.cmds[i][1] = "DELE"
    BY <1>3, <1>9 DEF Pops
  <1>11. \A w \in Verbs : Queued(w)' => w = "DELE"
    BY <1>10 DEF Queued
  <1>12. ~file.pasv => link.wire = <<>>
    BY DEF WireInv, Protocol
  <1>13. v = "RETR" => link.wire = <<>>
    BY <1>1, <1>9, <1>12
  <1>14. Len(link.wire) \in Nat /\ file.pos \in Nat /\ (link.wire = <<>> <=> Len(link.wire) = 0)
         /\ DOMAIN link.wire = 1 .. Len(link.wire)
    BY Fields, Queues
  <1>15. Start = file.pos - Len(link.wire)
    BY <1>1, <1>12, <1>14 DEF Start
  <1>16. LinkInv'
    <2>1. file'.data => link'.use # "none"
      BY <1>2
    <2>2. (link'.use # "none" /\ ~file'.data) => ~file'.pasv /\ call'.pc \in {"ask", "accept"}
      BY <1>1, <1>9 DEF LinkInv, Protocol
    <2>3. /\ (file'.data /\ call'.pc # "rest") => link'.asked # "none"
          /\ call'.pc \in {"ask", "accept"} => link'.asked = IF call'.write THEN "STOR" ELSE "RETR"
      BY <1>2 DEF LinkInv, Protocol
    <2>4. /\ link'.asked = link'.use
          /\ \A i \in DOMAIN session'.cmds : session'.cmds[i][1] = "DELE"
          /\ ~Owed("425")' /\ call'.pc \notin {"type", "port", "pasv", "rest"}
      BY <1>2, <1>6, <1>9, <1>10
    <2>5. link'.use = "STOR" => session'.xfer = "STOR" /\ link'.at + Len(link'.wire) = file'.pos
      <3> SUFFICES ASSUME v = "STOR" PROVE link'.at + Len(link'.wire) = file.pos
        BY <1>2
      <3>1. link'.at = file.pos - Len(link.wire) /\ link'.wire = link.wire
        BY <1>2, <1>9, <1>15
      <3> QED
        BY <1>14, <3>1
    <2>6. link'.use = "RETR" =>
            link'.wire = <<>> /\ ("crossed" \notin excuses' => link'.at = file'.pos)
      <3> SUFFICES ASSUME v = "RETR", "crossed" \notin excuses PROVE session.rest = file.pos
        BY <1>1, <1>2, <1>13
      <3>1. Len(link.wire) = 0
        BY <1>13, <1>14
      <3> QED
        BY <1>9, <1>14, <1>15, <3>1
    <2> QED
      BY <1>2, <2>1, <2>2, <2>3, <2>4, <2>5, <2>6 DEF LinkInv
  <1>17. WireInv'
    <2>1. link'.wire # <<>> => file'.changed /\ session'.xfer = "STOR"
      BY <1>2, <1>13 DEF WireInv, Protocol
    <2>2. Len(link'.wire) <= MaxSize
      BY <1>2 DEF WireInv, Protocol
    <2>3. ASSUME session'.xfer = "STOR", NEW j \in DOMAIN link'.wire
          PROVE  link'.wire[j].place = link'.at + j - 1
      <3>1. link.use = "idle"
        BY <1>1, <1>2, <1>12, <2>3
      <3>2. link.wire[j].place = file.pos - Len(link.wire) + j - 1
        BY <1>2, <2>3, <3>1 DEF WireInv, Protocol
      <3>3. link'.at = file.pos - Len(link.wire)
        BY <1>2, <1>9, <1>15, <2>3
      <3> QED
        BY <1>2, <3>2, <3>3
    <2>4. link'.use # "idle"
      BY <1>2
    <2> QED
      BY <2>1, <2>2, <2>3, <2>4 DEF WireInv
  <1>18. RestInv'
    BY <1>2, <1>6, <1>9 DEF RestInv, Protocol
  <1>19. PasvInv'
    <2>1. ~Owed("227")
      BY DEF PasvInv, Protocol, Owed
    <2>2. ~Owed("227")'
      BY <1>6, <2>1
    <2> QED
      BY <1>5, <1>10, <2>2 DEF PasvInv, Protocol, Owed
  <1>20. AskedInv'
    BY <1>2 DEF AskedInv, Awaited
  <1>21. ActiveInv'
    <2>1. ~Owed("425")'
      BY <1>6, <1>9
    <2>2. ~Queued("RETR")' /\ ~Queued("STOR")'
      BY <1>11 DEF Verbs
    <2> QED
      BY <2>1, <2>2 DEF ActiveInv, Queued, Owed
  <1> QED
    BY <1>16, <1>17, <1>18, <1>19, <1>20, <1>21 DEF Protocol

\* Or is refused.
LEMMA RefusesKeeps ==
    ASSUME Types, Types', Protocol, NEW v \in Transfers, NEW reply \in {"425", "550"},
           session.cmds # <<>>, session.cmds[1][1] = v, session.xfer = "none", Refuses(reply),
           UNCHANGED <<file, call, restOk>>
    PROVE  Protocol'
  <1> USE DEF Transfers
  <1>0. session \in SessionType /\ link \in LinkType
    BY DEF Types
  <1>1. /\ session' = [session EXCEPT !.cmds = Tail(@), !.replies = Append(@, reply), !.rest = 0]
        /\ link' = [link EXCEPT !.wire = <<>>]
        /\ excuses \subseteq excuses'
    BY DEF Refuses, Excuse
  <1>2. /\ session'.cmds = Tail(session.cmds) /\ session'.replies = Append(session.replies, reply)
        /\ session'.xfer = "none" /\ session'.rest = 0
        /\ link'.use = link.use /\ link'.at = link.at /\ link'.wire = <<>>
        /\ link'.asked = link.asked
    BY <1>0, <1>1 DEF SessionType, LinkType
  <1>3. Pops
    BY <1>2, Popped
  <1>4. Gets(reply)
    <2>1. reply \in Codes /\ session.replies \in Seq(Codes)
      BY Fields DEF Codes
    <2>2. session'.replies = session.replies \o <<reply>>
      BY <1>2, <2>1
    <2> QED
      BY <2>1, <2>2, Got
  <1>5. /\ \A w : Queued(w)' => Queued(w)
        /\ \A i \in DOMAIN session'.cmds :
             /\ i \in Nat /\ i + 1 \in DOMAIN session.cmds /\ i + 1 > 1
             /\ session'.cmds[i] = session.cmds[i + 1]
             /\ i = Len(session'.cmds) <=> i + 1 = Len(session.cmds)
        /\ session'.cmds = <<>> <=> Len(session.cmds) = 1
        /\ session'.cmds # <<>> =>
             session'.cmds[Len(session'.cmds)] = session.cmds[Len(session.cmds)]
    BY <1>3 DEF Pops
  <1>6. \A r : Owed(r)' => Owed(r) \/ r = reply
    BY <1>4 DEF Gets
  <1>7. 1 \in DOMAIN session.cmds /\ Queued(v)
    BY <1>3 DEF Pops, Queued
  <1>8. link.use \in {"none", "idle"}
    <2>1. link.use \notin Transfers
      BY <1>7 DEF LinkInv, Protocol
    <2> QED
      BY <1>0, <2>1 DEF LinkType
  <1>9. Len(link'.wire) = 0 /\ DOMAIN link'.wire = {}
    BY <1>2
  <1>10. LinkInv'
    BY <1>1, <1>2, <1>5, <1>8 DEF LinkInv, Protocol
  <1>11. WireInv'
    <2>1. 0 <= MaxSize /\ 0 <= file'.pos
      BY Fields
    <2> QED
      BY <1>2, <1>9, <2>1 DEF WireInv
  <1>12. RestInv'
    <2>1. ~restOk' => session'.rest = 0 /\ ~Owed("350")'
      BY <1>2, <1>6 DEF RestInv, Protocol
    <2>2. ASSUME call'.pc = "rest"
          PROVE  session'.cmds # <<>> /\ session'.cmds[Len(session'.cmds)] = <<"REST", file'.pos>>
      <3>1. session.cmds[Len(session.cmds)] = <<"REST", file.pos>>
        BY <2>2 DEF RestInv, Protocol
      <3>2. session.cmds[Len(session.cmds)][1] = "REST"
        BY <3>1
      <3> QED
        BY <1>5, <3>1, <3>2
    <2> QED
      BY <2>1, <2>2 DEF RestInv
  <1>13. PasvInv'
    <2>1. ~Owed("227")
      BY DEF PasvInv, Protocol, Owed
    <2>2. ~Owed("227")'
      BY <1>6, <2>1
    <2>3. /\ \A i \in DOMAIN session.cmds :
               session.cmds[i][1] = "PASV" => i = Len(session.cmds)
          /\ call.pc # "pasv" => ~Queued("PASV")
          /\ call.pc = "pasv" => file.pasv
          /\ call.pc = "port" => ~file.pasv
      BY DEF PasvInv, Protocol
    <2>4. /\ \A i \in DOMAIN session'.cmds :
               session'.cmds[i][1] = "PASV" => i = Len(session'.cmds)
          /\ call'.pc # "pasv" => ~Queued("PASV")'
      BY <1>5, <2>3
    <2>5. \A i \in DOMAIN session'.replies : session'.replies[i] # "227"
      BY <2>2 DEF Owed
    <2> QED
      BY <2>2, <2>3, <2>4, <2>5 DEF PasvInv
  <1>14. AskedInv'
    <2> SUFFICES ASSUME Awaited PROVE AskedInv'
      BY <1>2 DEF AskedInv, Awaited
    <2>1. /\ call.pc \notin {"type", "port", "pasv", "rest"}
          /\ \A j \in DOMAIN session.cmds : j > 1 => session.cmds[j][1] = "DELE"
      BY <1>7 DEF AskedInv, Protocol
    <2>2. \A i \in DOMAIN session'.cmds : session'.cmds[i][1] = "DELE"
      BY <1>5, <2>1
    <2>3. ~Queued("RETR")' /\ ~Queued("STOR")'
      BY <2>2 DEF Queued
    <2> QED
      BY <2>1, <2>2, <2>3 DEF AskedInv
  <1>15. ActiveInv'
    <2> SUFFICES ASSUME ~file.pasv PROVE ActiveInv'
      BY DEF ActiveInv
    <2>1. 1 = Len(session.cmds)
      BY <1>7 DEF ActiveInv, Protocol
    <2>2. session'.cmds = <<>> /\ DOMAIN session'.cmds = {}
      BY <1>5, <2>1
    <2>3. call.pc \in {"ask", "accept"} /\ link.use = "none"
      BY <1>7 DEF ActiveInv, Protocol
    <2>4. ASSUME NEW i \in DOMAIN session'.replies, session'.replies[i] = "425"
          PROVE  i = Len(session'.replies)
      BY <1>4, <2>4 DEF ActiveInv, Protocol, Gets
    <2> QED
      BY <1>2, <2>2, <2>3, <2>4 DEF ActiveInv
  <1> QED
    BY <1>10, <1>11, <1>12, <1>13, <1>14, <1>15 DEF Protocol

\* A byte arrives at the server, the transfer ends, or the bytes under way get
\* another content.
LEMMA StoreKeeps ==
    ASSUME Types, Types', Protocol, Store
    PROVE  Protocol'
  <1> USE DEF Transfers
  <1>0. link \in LinkType
    BY DEF Types
  <1>1. /\ session.xfer = "STOR" /\ link.wire # <<>>
        /\ link' = [link EXCEPT !.at = @ + 1, !.wire = Tail(@)]
        /\ UNCHANGED <<file, call, session, restOk, excuses>>
    BY DEF Store
  <1>2. /\ link'.use = link.use /\ link'.asked = link.asked /\ link'.at = link.at + 1
        /\ link'.wire = Tail(link.wire)
    BY <1>0, <1>1 DEF LinkType
  <1>3. /\ Len(link'.wire) = Len(link.wire) - 1 /\ Len(link.wire) \in Nat /\ link.at \in Nat
        /\ \A i \in 1 .. Len(link.wire) - 1 : link'.wire[i] = link.wire[i + 1]
    BY <1>1, <1>2, Fields, Tailed
  <1>4. link.use # "idle" /\ link.use # "RETR"
    BY <1>1 DEF LinkInv, Protocol
  <1>5. (\A v : Queued(v)' <=> Queued(v)) /\ (\A r : Owed(r)' <=> Owed(r))
    BY <1>1 DEF Queued, Owed
  <1>6. LinkInv'
    <2>1. link.use = "STOR" => link'.at + Len(link'.wire) = file.pos
      <3> DEFINE n == Len(link.wire)
                 n1 == Len(link'.wire)
      <3>1. link.use = "STOR" => link.at + n = file.pos
        BY DEF LinkInv, Protocol
      <3>2. n1 = n - 1 /\ n \in Nat /\ link.at \in Nat /\ link'.at = link.at + 1
        BY <1>2, <1>3
      <3> HIDE DEF n, n1
      <3>3. link'.at + n1 = link.at + n
        BY <3>2
      <3> QED
        BY <3>1, <3>3 DEF n1
    <2> QED
      BY <1>1, <1>2, <1>4, <1>5, <2>1 DEF LinkInv, Protocol
  <1>7. WireInv'
    <2>1. file'.changed
      BY <1>1 DEF WireInv, Protocol
    <2>2. Len(link'.wire) <= MaxSize
      <3>1. Len(link.wire) <= MaxSize
        BY DEF WireInv, Protocol
      <3> QED
        BY <1>3, <3>1, TransferAssumption
    <2>3. ASSUME NEW j \in DOMAIN link'.wire
          PROVE  link'.wire[j].place = link'.at + j - 1
      <3>1. /\ j \in 1 .. Len(link.wire) - 1 /\ j + 1 \in DOMAIN link.wire /\ j \in Nat
        <4>1. DOMAIN link'.wire = 1 .. Len(link'.wire) /\ DOMAIN link.wire = 1 .. Len(link.wire)
          BY Queues, QueuesNext
        <4> QED
          BY <1>3, <2>3, <4>1
      <3>2. link.wire[j + 1].place = link.at + (j + 1) - 1
        BY <1>1, <3>1 DEF WireInv, Protocol
      <3>3. link'.wire[j] = link.wire[j + 1]
        BY <1>3, <3>1
      <3> QED
        BY <1>2, <1>3, <3>1, <3>2, <3>3
    <2> QED
      BY <1>1, <1>2, <1>4, <2>1, <2>2, <2>3 DEF WireInv
  <1>8. RestInv' /\ PasvInv'
    BY <1>1, <1>5 DEF RestInv, PasvInv, Protocol
  <1>9. (Awaited' <=> Awaited) /\ (Awaited => Start' = Start)
    BY <1>1, <1>2, <1>4 DEF Start, Awaited
  <1>10. AskedInv'
    BY <1>1, <1>2, <1>4, <1>5, <1>9 DEF AskedInv, Protocol
  <1>11. ActiveInv'
    BY <1>1, <1>2, <1>5 DEF ActiveInv, Protocol
  <1> QED
    BY <1>6, <1>7, <1>8, <1>10, <1>11 DEF Protocol

\* The end of a transfer keeps the protocol.
LEMMA EndKeeps ==
    ASSUME Types, Types', Protocol, EndTransfer
    PROVE  Protocol'
  <1> USE DEF Transfers
  <1>0. session \in SessionType
    BY DEF Types
  <1>1. PICK reply \in {"226", "426"} :
              /\ session' = [session EXCEPT !.xfer = "none", !.replies = Append(@, reply)]
              /\ \/ session.xfer = "RETR"
                 \/ session.xfer = "STOR" /\ link.use # "STOR" /\ link.wire = <<>>
              /\ UNCHANGED <<file, call, link, restOk, excuses>>
    BY <1>0, EndEffect
  <1>2. /\ session'.cmds = session.cmds /\ session'.replies = Append(session.replies, reply)
        /\ session'.xfer = "none" /\ session'.rest = session.rest
    BY <1>0, <1>1 DEF SessionType
  <1>3. Gets(reply)
    <2>1. reply \in Codes /\ session.replies \in Seq(Codes)
      BY Fields DEF Codes
    <2>2. session'.replies = session.replies \o <<reply>>
      BY <1>2, <2>1
    <2> QED
      BY <2>1, <2>2, Got
  <1>4. (\A v : Queued(v)' <=> Queued(v)) /\ (\A r : Owed(r)' => Owed(r) \/ r = reply)
    BY <1>2, <1>3 DEF Queued, Gets
  <1>5. session.xfer # "none"
    BY <1>1
  <1>6. LinkInv'
    BY <1>1, <1>2, <1>4 DEF LinkInv, Protocol
  <1>7. WireInv'
    BY <1>1, <1>2, <1>4 DEF WireInv, Protocol
  <1>8. RestInv'
    BY <1>1, <1>2, <1>4 DEF RestInv, Protocol
  <1>9. PasvInv'
    <2>1. ~Owed("227")
      BY <1>5 DEF PasvInv, Protocol, Owed
    <2>2. ~Owed("227")'
      BY <1>4, <2>1
    <2> QED
      BY <1>1, <1>2, <1>4, <2>2 DEF PasvInv, Protocol, Owed
  <1>10. AskedInv'
    <2>1. (Awaited' <=> Awaited) /\ Start' = Start
      BY <1>1 DEF Awaited, Start
    <2> QED
      BY <1>1, <1>2, <1>4, <2>1 DEF AskedInv, Protocol
  <1>11. ActiveInv'
    <2> SUFFICES ASSUME ~file.pasv PROVE ActiveInv'
      BY <1>1 DEF ActiveInv
    <2>1. ~Owed("425")
      BY <1>5 DEF ActiveInv, Protocol, Owed
    <2>2. ~Owed("425")'
      BY <1>4, <2>1
    <2> QED
      BY <1>1, <1>2, <1>4, <2>2 DEF ActiveInv, Protocol, Owed
  <1> QED
    BY <1>6, <1>7, <1>8, <1>9, <1>10, <1>11 DEF Protocol

\* So does the other handle.
LEMMA OthersKeep ==
    ASSUME Types, Types', Protocol, NEW i \in Places, OtherWrites(i) \/ OtherStores(i)
    PROVE  Protocol'
  <1> USE DEF Transfers
  <1>0. link \in LinkType
    BY DEF Types
  <1>1. UNCHANGED <<file, call, session, restOk>> /\ excuses \subseteq excuses'
    BY DEF OtherWrites, OtherStores, Excuse
  <1>2. /\ link'.use = link.use /\ link'.asked = link.asked /\ link'.at = link.at
        /\ Len(link'.wire) = Len(link.wire)
        /\ \A j \in 1 .. Len(link.wire) : link'.wire[j].place = link.wire[j].place
    <2>1. CASE OtherWrites(i)
      <3>1. link' = [link EXCEPT !.wire = AgedWire({i})]
        BY <2>1 DEF OtherWrites
      <3>2. /\ link'.use = link.use /\ link'.asked = link.asked /\ link'.at = link.at
            /\ link'.wire = AgedWire({i})
        BY <1>0, <3>1 DEF LinkType
      <3>3. /\ Len(AgedWire({i})) = Len(link.wire)
            /\ \A j \in 1 .. Len(link.wire) : AgedWire({i})[j].place = link.wire[j].place
        BY Fields, AgedWireIs
      <3> QED
        BY <3>2, <3>3
    <2>2. CASE OtherStores(i)
      <3>1. link' = link \/ link' = [link EXCEPT !.old = @ \cup {i}]
        BY <2>2 DEF OtherStores
      <3> QED
        BY <1>0, <3>1 DEF LinkType
    <2> QED
      BY <2>1, <2>2
  <1>3. /\ link'.wire = <<>> <=> link.wire = <<>>
        /\ DOMAIN link'.wire = DOMAIN link.wire
        /\ \A j \in DOMAIN link.wire : link'.wire[j].place = link.wire[j].place
    BY <1>2, Queues, QueuesNext
  <1>4. Len(link'.wire) = Len(link.wire)
    BY <1>2
  <1>5. (\A v : Queued(v)' <=> Queued(v)) /\ (\A r : Owed(r)' <=> Owed(r))
    BY <1>1 DEF Queued, Owed
  <1>6. (Awaited' <=> Awaited) /\ Start' = Start
    BY <1>1, <1>2 DEF Awaited, Start
  <1>7. LinkInv'
    BY <1>1, <1>2, <1>3, <1>5 DEF LinkInv, Protocol
  <1>8. WireInv'
    BY <1>1, <1>2, <1>3, <1>5 DEF WireInv, Protocol
  <1>9. RestInv' /\ PasvInv'
    BY <1>1, <1>5 DEF RestInv, PasvInv, Protocol
  <1>10. AskedInv'
    BY <1>1, <1>2, <1>3, <1>5, <1>6 DEF AskedInv, Protocol
  <1>11. ActiveInv'
    BY <1>1, <1>2, <1>5 DEF ActiveInv, Protocol
  <1> QED
    BY <1>7, <1>8, <1>9, <1>10, <1>11 DEF Protocol

\* Every step keeps the protocol.
LEMMA ClientKeeps ==
    ASSUME Types, Types', CallInv, Protocol, ClientSteps
    PROVE  Protocol'
  <1>0. /\ session \in SessionType /\ file \in FileType /\ link \in LinkType /\ call \in CallType
        /\ call.pc \notin {"ask", "accept"} /\ ~file.data => link.use = "none"
        /\ call.pc \notin {"ask", "accept"} /\ ~file.pasv =>
              ~Owed("425") /\ ~Queued("RETR") /\ ~Queued("STOR")
    BY DEF Types, LinkInv, ActiveInv, Protocol
  <1> DEFINE dele == <<"DELE", 0>>
             type == <<"TYPE", 0>>
  <1>1. dele \in Commands /\ type \in Commands
    BY Zero DEF Commands, Verbs
  <1>2. ASSUME Remove PROVE Protocol'
    <2>1. /\ call.pc = "remove" /\ Go("removed", <<dele>>)
          /\ UNCHANGED <<file, link, restOk, excuses>>
      BY <1>2 DEF Remove
    <2>2. /\ call'.pc = "removed" /\ Adds(<<dele>>) /\ session'.replies = session.replies
          /\ session'.rest = session.rest /\ session'.xfer = session.xfer
      BY <2>1, Sends, GoFields DEF Points, Waiting
    <2>3. Fewer /\ \A r : Owed(r)' <=> Owed(r)
      BY <2>2, FewerSame DEF Owed
    <2>4. dele[1] = "DELE"
      OBVIOUS
    <2> HIDE DEF dele
    <2>5. link.use # "none" => file.data
      BY <1>0, <2>1
    <2>6. Tells(dele)
      BY <1>0, <1>1, <2>1, <2>2, <2>3, <2>4, <2>5 DEF Tells, Asking, Transfers
    <2> QED
      BY <2>6, CommandKeeps
  <1>3. ASSUME Begin PROVE Protocol'
    <2>1. /\ call.pc = "begin" /\ Go("seek", <<>>) /\ file' = [file EXCEPT !.changed = TRUE]
          /\ UNCHANGED <<link, restOk, excuses>>
      BY <1>3 DEF Begin
    <2>2. /\ call'.pc = "seek" /\ Adds(<<>>) /\ session'.replies = session.replies
          /\ session'.rest = session.rest /\ session'.xfer = session.xfer
      BY <2>1, Sends, GoFields DEF Points
    <2>3. /\ file'.pasv = file.pasv /\ file'.data = file.data /\ file'.changed
          /\ file'.pos = file.pos
      BY <1>0, <2>1 DEF FileType
    <2>4. session'.cmds = session.cmds /\ Fewer
      BY <2>2, FewerSame DEF Adds
    <2>5. Alone
      BY <2>1, <2>2, <2>3, <2>4 DEF Alone, Asking
    <2> QED
      BY <2>5, AloneKeeps
  <1>4. ASSUME SetFilePointer PROVE Protocol'
    <2>1. /\ call.pc = "seek" /\ Go("ensure", <<>>) /\ file' = [file EXCEPT !.pos = call.target]
          /\ file.pos = call.target \/ ~file.data
          /\ UNCHANGED <<link, restOk, excuses>>
      BY <1>4 DEF SetFilePointer
    <2>2. /\ call'.pc = "ensure" /\ Adds(<<>>) /\ session'.replies = session.replies
          /\ session'.rest = session.rest /\ session'.xfer = session.xfer
      BY <2>1, Sends, GoFields DEF Points
    <2>3. /\ file'.pasv = file.pasv /\ file'.data = file.data /\ file'.changed = file.changed
          /\ file'.pos = call.target
      BY <1>0, <2>1 DEF FileType
    <2>4. session'.cmds = session.cmds /\ Fewer
      BY <2>2, FewerSame DEF Adds
    <2>5. Alone
      BY <1>0, <2>1, <2>2, <2>3, <2>4 DEF Alone, Asking
    <2> QED
      BY <2>5, AloneKeeps
  <1>5. ASSUME SeekElsewhere PROVE Protocol'
    <2>1. /\ call.pc = "seek" /\ Closes /\ file' = [file EXCEPT !.data = FALSE]
          /\ Go("confirm", <<>>) \/ Go("aborted", Abor)
          /\ restOk' = restOk
      BY <1>5 DEF SeekElsewhere
    <2>2. link' = [link EXCEPT !.use = "none", !.asked = "none", !.old = {},
                               !.wire = IF file.changed THEN @ ELSE <<>>]
      BY <2>1, ClosesEffect
    <2>3. /\ link'.use = "none" /\ link'.at = link.at
          /\ link'.wire = (IF file.changed THEN link.wire ELSE <<>>)
      BY <1>0, <2>2 DEF LinkType
    <2>4. /\ file'.pasv = file.pasv /\ file'.data = FALSE /\ file'.changed = file.changed
          /\ file'.pos = file.pos
      BY <1>0, <2>1 DEF FileType
    <2>5. ASSUME NEW pc \in {"confirm", "aborted"}, NEW c \in {<<>>, Abor}, Go(pc, c)
          PROVE  Leaves(c)
      <3>1. Sent(c) /\ pc \in Points
        BY Sends DEF Points, Waiting
      <3>2. /\ call'.pc = pc /\ Adds(c) /\ session'.replies = session.replies
            /\ session'.rest = session.rest /\ session'.xfer = session.xfer
        BY <2>5, <3>1, GoFields
      <3> QED
        BY <2>1, <2>3, <2>4, <3>2 DEF Leaves, Asking
    <2> QED
      BY <2>1, <2>5, CloseKeeps
  <1>6. ASSUME Connect PROVE Protocol'
    <2>1. call.pc \in {"remove", "ensure"} /\ ~file.cmd /\ restOk' = restOk
      BY <1>6 DEF Connect
    <2>2. CASE file' = [file EXCEPT !.cmd = TRUE] /\ session' = NoSession /\ link' = NoLink
               /\ call' = call
      <3>1. ~file'.data
        BY <1>0, <2>1, <2>2 DEF FileType, CallInv
      <3> QED
        BY <2>1, <2>2, <3>1, RestartKeeps DEF Asking
    <2>3. CASE /\ call' \in {[call EXCEPT !.pc = "begin"], NoCall}
               /\ UNCHANGED <<file, session, link, excuses>>
      <3>1. call'.pc \in {"begin", "idle"}
        BY <1>0, <2>3 DEF CallType, NoCall
      <3>2. Fewer
        BY <2>3, FewerSame
      <3>3. Alone
        BY <2>1, <2>3, <3>1, <3>2 DEF Alone, Asking
      <3> QED
        BY <3>3, AloneKeeps
    <2> QED
      BY <1>6, <2>2, <2>3 DEF Connect
  <1>7. ASSUME GoOn PROVE Protocol'
    <2>1. /\ call.pc = "ensure" /\ Go("transfer", <<>>)
          /\ UNCHANGED <<file, link, restOk, excuses>>
      BY <1>7 DEF GoOn
    <2>2. /\ call'.pc = "transfer" /\ Adds(<<>>) /\ session'.replies = session.replies
          /\ session'.rest = session.rest /\ session'.xfer = session.xfer
      BY <2>1, Sends, GoFields DEF Points
    <2>3. session'.cmds = session.cmds /\ Fewer
      BY <2>2, FewerSame DEF Adds
    <2>4. Alone
      BY <2>1, <2>2, <2>3 DEF Alone, Asking
    <2> QED
      BY <2>4, AloneKeeps
  <1>8. ASSUME OpenDataConnection PROVE Protocol'
    <2>1. /\ call.pc = "ensure" /\ ~file.data /\ Go("type", <<type>>)
          /\ UNCHANGED <<file, link, restOk, excuses>>
      BY <1>8 DEF OpenDataConnection
    <2>2. /\ call'.pc = "type" /\ Adds(<<type>>) /\ session'.replies = session.replies
          /\ session'.rest = session.rest /\ session'.xfer = session.xfer
      BY <2>1, Sends, GoFields DEF Points, Waiting
    <2>3. Fewer /\ \A r : Owed(r)' <=> Owed(r)
      BY <2>2, FewerSame DEF Owed
    <2>4. type[1] = "TYPE"
      OBVIOUS
    <2> HIDE DEF type
    <2>5. link.use = "none"
      BY <1>0, <2>1
    <2>6. Awaited' => ~file.pasv
      BY <2>1, <2>5 DEF Awaited
    <2>7. Tells(type)
      BY <1>0, <1>1, <2>1, <2>2, <2>3, <2>4, <2>5, <2>6 DEF Tells, Asking, Transfers
    <2> QED
      BY <2>7, CommandKeeps
  <1>9. ASSUME ReadDone PROVE Protocol'
    <2>1. /\ call.pc = "transfer" /\ call' = [NoCall EXCEPT !.got = call.got]
          /\ UNCHANGED <<file, session, link, restOk, excuses>>
      BY <1>9 DEF ReadDone
    <2>2. call'.pc = "idle"
      BY <2>1 DEF NoCall
    <2>3. Alone
      BY <2>1, <2>2, FewerSame DEF Alone, Asking
    <2> QED
      BY <2>3, AloneKeeps
  <1>10. ASSUME SuspendFile PROVE Protocol'
    <2>1. /\ call.pc \in {"idle", "begin"} /\ UNCHANGED <<session, restOk>>
          /\ call' \in {[call EXCEPT !.pc = "suspend"], call}
          /\ \/ /\ Closes /\ file' = [file EXCEPT !.data = FALSE, !.cmd = file.changed]
             \/ file' = [file EXCEPT !.cmd = FALSE] /\ UNCHANGED <<link, excuses>>
      BY <1>10 DEF SuspendFile
    <2>2. call'.pc \in {"suspend", "idle", "begin"}
      BY <1>0, <2>1 DEF CallType
    <2>3. CASE Closes /\ file' = [file EXCEPT !.data = FALSE, !.cmd = file.changed]
      <3>2. link' = [link EXCEPT !.use = "none", !.asked = "none", !.old = {},
                                 !.wire = IF file.changed THEN @ ELSE <<>>]
        BY <2>3, ClosesEffect
      <3>3. /\ link'.use = "none" /\ link'.at = link.at
            /\ link'.wire = (IF file.changed THEN link.wire ELSE <<>>)
        BY <1>0, <3>2 DEF LinkType
      <3>4. /\ file'.pasv = file.pasv /\ file'.data = FALSE /\ file'.changed = file.changed
            /\ file'.pos = file.pos
        BY <1>0, <2>3 DEF FileType
      <3>5. Adds(<<>>)
        BY <2>1 DEF Adds
      <3>6. Leaves(<<>>)
        BY <2>1, <2>2, <3>3, <3>4, <3>5 DEF Leaves, Asking
      <3> QED
        BY <3>6, CloseKeeps
    <2>4. CASE file' = [file EXCEPT !.cmd = FALSE] /\ UNCHANGED <<link, excuses>>
      <3>1. /\ file'.pasv = file.pasv /\ file'.data = file.data /\ file'.changed = file.changed
            /\ file'.pos = file.pos
        BY <1>0, <2>4 DEF FileType
      <3>2. Alone
        BY <2>1, <2>2, <2>4, <3>1, FewerSame DEF Alone, Asking
      <3> QED
        BY <3>2, AloneKeeps
    <2> QED
      BY <2>1, <2>3, <2>4
  <1>11. ASSUME FileResetOnError PROVE Protocol'
    <2>1. /\ file' = [file EXCEPT !.cmd = FALSE, !.data = FALSE] /\ call' = NoCall
          /\ session' = NoSession /\ link' = NoLink
      BY <1>11, ResetEffect
    <2>2. ~file'.data /\ call'.pc = "idle"
      BY <1>0, <2>1 DEF FileType, NoCall
    <2> QED
      BY <2>1, <2>2, RestartKeeps DEF Asking
  <1> QED
    BY <1>2, <1>3, <1>4, <1>5, <1>6, <1>7, <1>8, <1>9, <1>10, <1>11, AcceptsKeeps
    DEF ClientSteps

\* The steps that take replies keep the protocol.
LEMMA RepliesKeep ==
    ASSUME Types, Types', CallInv, Protocol, TakesReplies
    PROVE  Protocol'
  <1>0. /\ session \in SessionType /\ file \in FileType /\ link \in LinkType /\ call \in CallType
        /\ amiss \subseteq {"failed", "shifted"}
        /\ call.pc \notin {"ask", "accept"} /\ ~file.data => link.use = "none"
        /\ call.pc \notin {"ask", "accept"} /\ ~file.pasv =>
              ~Owed("425") /\ ~Queued("RETR") /\ ~Queued("STOR")
    BY DEF Types, LinkInv, ActiveInv, Protocol
  <1> DEFINE abor == <<"ABOR", 0>>
             port == <<"PORT", 0>>
             pasv == <<"PASV", 0>>
             type == <<"TYPE", 0>>
             rest == <<"REST", file.pos>>
  <1>1. /\ abor \in Commands /\ port \in Commands /\ pasv \in Commands /\ type \in Commands
        /\ rest \in Commands
    BY Zero, Fields DEF Commands, Verbs
  <1>2. ASSUME NEW k \in Arrivals, NEW pc \in Points, Took(k, pc, <<>>), Still,
               UNCHANGED link, file' = file \/ file' = [file EXCEPT !.cmd = FALSE],
               \/ pc = call.pc
               \/ call.pc \notin Asking /\ pc \notin Asking
               \/ call.pc = "ask" /\ pc = "accept"
        PROVE  Protocol'
    <2>1. /\ call'.pc = pc /\ call'.write = call.write
          /\ session'.rest = session.rest /\ session'.xfer = session.xfer
          /\ Adds(<<>>) /\ Takes(k)
      BY <1>2, Sends, TookFields
    <2>2. session'.cmds = session.cmds /\ Fewer
      BY <2>1, FewerTaken DEF Adds
    <2>3. /\ file'.pasv = file.pasv /\ file'.data = file.data /\ file'.changed = file.changed
          /\ file'.pos = file.pos
      BY <1>0, <1>2 DEF FileType
    <2>4. restOk' = restOk /\ excuses' = excuses
      BY <1>2 DEF Still
    <2>5. Alone
      BY <1>2, <2>1, <2>2, <2>3, <2>4 DEF Alone
    <2> QED
      BY <2>5, AloneKeeps
  <1>3. ASSUME NEW k \in Arrivals, NEW pc \in Points, NEW d \in Commands, Took(k, pc, <<d>>), Still
        PROVE  /\ call'.pc = pc /\ session'.rest = session.rest /\ session'.xfer = session.xfer
               /\ Adds(<<d>>) /\ Fewer /\ \A r : Owed(r)' => Owed(r)
               /\ restOk' = restOk /\ excuses' = excuses
    <2>1. Sent(<<d>>)
      BY DEF Sent
    <2>2. /\ call'.pc = pc /\ session'.rest = session.rest /\ session'.xfer = session.xfer
          /\ Adds(<<d>>) /\ Takes(k)
      BY <1>3, <2>1, TookFields
    <2>3. Fewer /\ restOk' = restOk /\ excuses' = excuses
      BY <1>3, <2>2, FewerTaken DEF Still
    <2> QED
      BY <2>2, <2>3 DEF Fewer
  <1>4. /\ abor[1] = "ABOR" /\ port[1] = "PORT" /\ pasv[1] = "PASV" /\ type[1] = "TYPE"
        /\ rest[1] = "REST" /\ rest = <<"REST", file.pos>>
        /\ Abor = <<abor>> /\ Rest = <<rest>>
    BY DEF Abor, Rest
  <1>5. ASSUME NEW k \in Arrivals, Skips(k) PROVE Protocol'
    BY <1>0, <1>2, <1>5 DEF Skips, CallType
  <1>6. ASSUME NEW k \in Arrivals, Moves(k) PROVE Protocol'
    <2>1. CASE call.pc = "confirm" /\ Took(k, "aborted", Abor)
      <3>1. UNCHANGED <<file, link>> /\ Still
        BY <1>6 DEF Moves
      <3>2. Took(k, "aborted", <<abor>>) /\ "aborted" \in Points
        BY <1>4, <2>1 DEF Points, Waiting
      <3>3. /\ call'.pc = "aborted" /\ session'.rest = session.rest /\ session'.xfer = session.xfer
            /\ Adds(<<abor>>) /\ Fewer /\ \A r : Owed(r)' => Owed(r)
            /\ restOk' = restOk /\ excuses' = excuses
        BY <1>1, <1>3, <3>1, <3>2
      <3>4. link.use = "none"
        BY <1>0, <2>1 DEF CallInv
      <3>5. Awaited' => ~file.pasv
        BY <3>1, <3>4 DEF Awaited
      <3> HIDE DEF abor
      <3>6. Tells(abor)
        BY <1>0, <1>1, <1>4, <2>1, <3>1, <3>3, <3>4, <3>5 DEF Tells, Asking, Transfers
      <3> QED
        BY <3>6, CommandKeeps
    <2>2. CASE call.pc = "aborted" /\ Took(k, "seek", <<>>)
      BY <1>2, <1>6, <2>2 DEF Moves, Points, Asking
    <2>3. CASE call.pc = "type" /\ ~file.pasv /\ Took(k, "port", << <<"PORT", 0>> >>)
      <3>1. UNCHANGED <<file, link>> /\ Still
        BY <1>6 DEF Moves
      <3>2. "port" \in Points
        BY DEF Points, Waiting
      <3>3. /\ call'.pc = "port" /\ session'.rest = session.rest /\ session'.xfer = session.xfer
            /\ Adds(<<port>>) /\ Fewer /\ \A r : Owed(r)' => Owed(r)
            /\ restOk' = restOk /\ excuses' = excuses
        BY <1>1, <1>3, <2>3, <3>1, <3>2
      <3>4. link.use = "none"
        <4>1. link.use \notin Transfers /\ link.use # "idle"
          BY <2>3 DEF LinkInv, Protocol
        <4> QED
          BY <1>0, <4>1 DEF LinkType
      <3> HIDE DEF port
      <3>6. Tells(port)
        BY <1>0, <1>1, <1>4, <2>3, <3>1, <3>3, <3>4 DEF Tells, Asking, Transfers
      <3> QED
        BY <3>6, CommandKeeps
    <2>4. CASE call.pc = "port" /\ Took(k, "rest", Rest)
      <3>1. UNCHANGED <<file, link>> /\ Still
        BY <1>6 DEF Moves
      <3>2. Took(k, "rest", <<rest>>) /\ "rest" \in Points
        BY <1>4, <2>4 DEF Points, Waiting
      <3>3. /\ call'.pc = "rest" /\ session'.rest = session.rest /\ session'.xfer = session.xfer
            /\ Adds(<<rest>>) /\ Fewer /\ \A r : Owed(r)' => Owed(r)
            /\ restOk' = restOk /\ excuses' = excuses
        BY <1>1, <1>3, <3>1, <3>2
      <3>4. link.use = "none" /\ ~file.pasv
        <4>1. link.use \notin Transfers /\ link.use # "idle" /\ ~file.pasv
          BY <2>4 DEF LinkInv, PasvInv, Protocol
        <4> QED
          BY <1>0, <4>1 DEF LinkType
      <3> HIDE DEF rest
      <3>6. Tells(rest)
        BY <1>0, <1>1, <1>4, <2>4, <3>1, <3>3, <3>4 DEF Tells, Asking, Transfers
      <3> QED
        BY <3>6, CommandKeeps
    <2>5. CASE call.pc = "ask" /\ Took(k, "accept", <<>>)
      BY <1>2, <1>6, <2>5 DEF Moves, Points
    <2> QED
      BY <1>6, <2>1, <2>2, <2>3, <2>4, <2>5 DEF Moves
  <1>7. ASSUME NEW k \in Arrivals, Removes(k) PROVE Protocol'
    BY <1>2, <1>7 DEF Removes, Points, Asking
  <1>8. ASSUME NEW k \in Arrivals, FallsBack(k) PROVE Protocol'
    <2>1. /\ call.pc = "type" /\ Took(k, "pasv", <<pasv>>) /\ UNCHANGED link /\ Still
          /\ file' = [file EXCEPT !.pasv = TRUE] /\ "pasv" \in Points
      BY <1>8 DEF FallsBack, Points, Waiting
    <2>2. /\ call'.pc = "pasv" /\ session'.rest = session.rest /\ session'.xfer = session.xfer
          /\ Adds(<<pasv>>) /\ Fewer /\ \A r : Owed(r)' => Owed(r)
          /\ restOk' = restOk /\ excuses' = excuses
      BY <1>1, <1>3, <2>1
    <2>3. /\ file'.pasv /\ file'.data = file.data /\ file'.changed = file.changed
          /\ file'.pos = file.pos
      BY <1>0, <2>1 DEF FileType
    <2>4. /\ link.use # "none" => file.data
          /\ link.use \notin Transfers
      BY <1>0, <2>1 DEF LinkInv, Protocol
    <2>5. Awaited' => ~Queued("RETR") /\ ~Queued("STOR")
      <3>1. Awaited' => Awaited
        BY <2>1, <2>3 DEF Awaited
      <3>2. Awaited => ~Queued("RETR") /\ ~Queued("STOR")
        BY <2>1 DEF AskedInv, Protocol, Queued, Transfers
      <3> QED
        BY <3>1, <3>2
    <2> HIDE DEF pasv
    <2>6. Tells(pasv)
      BY <1>1, <1>4, <2>1, <2>2, <2>3, <2>4, <2>5 DEF Tells, Asking, Transfers
    <2> QED
      BY <2>6, CommandKeeps
  <1>9. ASSUME NEW k \in Arrivals, AsksAgain(k) PROVE Protocol'
    <2>1. /\ call.pc = "ask" /\ k > 0 /\ Response(k) = "425" /\ UNCHANGED <<file, link>> /\ Still
          /\ session' = [session EXCEPT !.replies = SubSeq(@, k + 1, Len(@)),
                                        !.cmds = @ \o << <<"TYPE", 0>> >>]
          /\ call' = [call EXCEPT !.pc = "type", !.tries = 0, !.retry = TRUE]
      BY <1>9 DEF AsksAgain
    <2>2. call'.pc = "type"
      BY <1>0, <2>1 DEF CallType
    <2>3. /\ session'.rest = session.rest /\ session'.xfer = session.xfer
          /\ session'.cmds = session.cmds \o <<type>>
          /\ session'.replies = SubSeq(session.replies, k + 1, Len(session.replies))
      BY <1>0, <2>1 DEF SessionType
    <2>4. Adds(<<type>>)
      <3>1. Sent(<<type>>)
        BY <1>1 DEF Sent
      <3> QED
        BY <2>3, <3>1, Fields, Added
    <2>5. k \in 0 .. Len(session.replies) /\ k \in Nat /\ k # 0 /\ Response(k) = session.replies[k]
      BY <1>0, <2>1, ArrivalsAre
    <2>6. Takes(k)
      <3>1. session.replies \in Seq(Codes)
        BY Fields
      <3>2. /\ Len(session'.replies) = Len(session.replies) - k
            /\ \A i \in 1 .. Len(session.replies) - k :
                 session'.replies[i] = session.replies[i + k]
        BY <2>3, <2>5, <3>1, Shortened
      <3> QED
        BY <2>5, <3>2 DEF Takes
    <2>7. Fewer /\ \A r : Owed(r)' => Owed(r)
      BY <2>6, FewerTaken DEF Fewer
    <2>8. k \in DOMAIN session.replies /\ session.replies[k] = "425"
      BY <2>1, <2>5, Queues
    <2>9. Owed("425")
      BY <2>8 DEF Owed
    <2>10. restOk' = restOk /\ excuses' = excuses
      BY <2>1 DEF Still
    <2>11. /\ link.use \notin Transfers
           /\ link.use # "none" => file.data
      BY <2>1, <2>9 DEF LinkInv, ActiveInv, Protocol
    <2>12. Awaited' => ~Queued("RETR") /\ ~Queued("STOR")
      <3>1. Awaited' <=> Awaited
        BY <2>1 DEF Awaited
      <3>2. Awaited => ~Queued("RETR") /\ ~Queued("STOR")
        BY <2>9 DEF AskedInv, Protocol
      <3> QED
        BY <3>1, <3>2
    <2>13. ~file.pasv => ~Owed("425")' /\ ~Queued("RETR") /\ ~Queued("STOR")
      <3> SUFFICES ASSUME ~file.pasv
                   PROVE  ~Owed("425")' /\ ~Queued("RETR") /\ ~Queued("STOR")
        OBVIOUS
      <3>1. k = Len(session.replies) /\ session.cmds = <<>>
        BY <2>8 DEF ActiveInv, Protocol
      <3>2. session'.replies = <<>>
        BY <2>6, <3>1, TakesLess
      <3> QED
        BY <3>1, <3>2 DEF Owed, Queued
    <2> HIDE DEF type
    <2>14. Tells(type)
      BY <1>1, <1>4, <2>1, <2>2, <2>3, <2>4, <2>7, <2>10, <2>11, <2>12, <2>13
      DEF Tells, Asking, Transfers
    <2> QED
      BY <2>14, CommandKeeps
  <1>10. ASSUME NEW k \in Arrivals, Suspends(k) PROVE Protocol'
    <2>1. (IF call.left > 0 THEN "begin" ELSE "idle") \in {"begin", "idle"}
      OBVIOUS
    <2> QED
      BY <1>2, <1>10, <2>1 DEF Suspends, Points, Asking
  <1>11. ASSUME FileResetOnError PROVE Protocol'
    BY <1>11, ClientKeeps DEF ClientSteps
  <1> QED
    BY <1>5, <1>6, <1>7, <1>8, <1>9, <1>10, <1>11, ConnectsKeeps, AsksKeeps DEF TakesReplies

\* So do those of the server.
LEMMA ServerKeeps ==
    ASSUME Types, Types', Protocol, ServerSteps
    PROVE  Protocol'
  <1>0. session \in SessionType /\ link \in LinkType
    BY DEF Types
  <1>1. ASSUME HandleSimple PROVE Protocol'
    <2>1. PICK v \in {"TYPE", "PORT", "PASV", "REST"}, c \in Codes :
              /\ Handles(v, <<c>>)
              /\ v = "PASV" <=> c = "227"
              /\ c = "350" => restOk
              /\ c \notin {"425", "150", "550"}
      BY <1>0, <1>1, SimpleEffect
    <2>2. UNCHANGED <<file, call, link, restOk, excuses>>
      BY <1>1 DEF HandleSimple
    <2> QED
      BY <2>1, <2>2, HandledKeeps
  <1>2. ASSUME HandleDele PROVE Protocol'
    <2>1. PICK c \in {"250", "550"} : Handles("DELE", <<c>>)
      BY <1>2 DEF HandleDele
    <2>2. UNCHANGED <<file, call, link, restOk, excuses>>
      BY <1>2 DEF HandleDele
    <2>3. c \in Codes /\ c # "227" /\ c # "350" /\ c # "425"
      BY DEF Codes
    <2> QED
      BY <2>1, <2>2, <2>3, HandledKeeps
  <1>3. ASSUME NEW v \in Transfers, HandleTransfer(v) PROVE Protocol'
    <2>1. /\ session.cmds # <<>> /\ session.cmds[1][1] = v /\ session.xfer = "none"
          /\ \/ Begins(v)
             \/ \E reply \in {"425", "550"} : Refuses(reply)
          /\ UNCHANGED <<file, call, restOk>>
      BY <1>0, <1>3, TransferEffect
    <2> QED
      BY <2>1, BeginsKeeps, RefusesKeeps
  <1> QED
    BY <1>1, <1>2, <1>3, AborKeeps, StoreKeeps, EndKeeps DEF ServerSteps

\* So do calls that begin.
LEMMA ReadFileKeeps ==
    ASSUME Types, Types', Protocol, NEW p \in Places, NEW n \in 1 .. MaxSize,
           ReadFile(p, n) \/ WriteFile(p, n)
    PROVE  Protocol'
  <1>1. /\ call.pc = "idle" /\ call'.pc \notin Asking
        /\ UNCHANGED <<file, session, link, restOk, excuses>>
    <2>1. CASE ReadFile(p, n)
      <3>1. call'.pc \in {"idle", "seek"} /\ UNCHANGED <<file, session, link, restOk, excuses>>
        BY <2>1, ReadFileTypes
      <3> QED
        BY <2>1, <3>1 DEF ReadFile, Asking
    <2>2. CASE WriteFile(p, n)
      <3>1. /\ call' = [NoCall EXCEPT !.pc = IF p = 0 THEN "remove" ELSE "begin",
                                      !.write = TRUE, !.target = p, !.left = n]
            /\ call.pc = "idle" /\ UNCHANGED <<file, session, link, restOk, excuses>>
        BY <2>2 DEF WriteFile
      <3>2. call'.pc = IF p = 0 THEN "remove" ELSE "begin"
        BY <3>1 DEF NoCall
      <3> QED
        BY <3>1, <3>2 DEF Asking
    <2> QED
      BY <2>1, <2>2
  <1>2. Alone
    BY <1>1, FewerSame DEF Alone, Asking
  <1> QED
    BY <1>2, AloneKeeps

\* Every step keeps the protocol.
LEMMA ProtocolStep ==
    ASSUME Types, Types', CallInv, Dense, Protocol, [Next]_vars
    PROVE  Protocol'
  <1>1. CASE UNCHANGED vars
    <2>1. UNCHANGED <<file, call, session, link, restOk, excuses>>
      BY <1>1 DEF vars
    <2>2. Alone
      BY <2>1, FewerSame DEF Alone
    <2> QED
      BY <2>2, AloneKeeps
  <1>2. CASE Next
    <2>1. session \in SessionType
      BY DEF Types
    <2> QED
      BY <1>2, <2>1, StepCases, ReadFileKeeps, ClientKeeps, ReceivedKeeps, SendKeeps,
         RepliesKeep, ServerKeeps, OthersKeep
  <1> QED
    BY <1>1, <1>2

\* The protocol holds at the start.
LEMMA InitProtocol ==
    ASSUME Init
    PROVE  Protocol
  <1>1. call = NoCall /\ session = NoSession /\ link = NoLink
    BY DEF Init
  <1>2. ~file.data
    BY DEF Init
  <1>3. /\ call.pc = "idle" /\ session.cmds = <<>> /\ session.replies = <<>>
        /\ session.xfer = "none" /\ session.rest = 0 /\ link.use = "none" /\ link.wire = <<>>
    BY <1>1 DEF NoCall, NoSession, NoLink
  <1>4. /\ Len(link.wire) = 0 /\ DOMAIN session.cmds = {} /\ DOMAIN session.replies = {}
        /\ DOMAIN link.wire = {}
    BY <1>3
  <1>5. \A v : ~Queued(v) /\ ~Owed(v)
    BY <1>4 DEF Queued, Owed
  <1>6. LinkInv
    BY <1>2, <1>3 DEF LinkInv, Transfers
  <1>7. WireInv
    BY <1>3, <1>4, TransferAssumption DEF WireInv
  <1>8. RestInv /\ PasvInv
    BY <1>3, <1>4, <1>5 DEF RestInv, PasvInv
  <1>9. AskedInv /\ ActiveInv
    BY <1>3, <1>4, <1>5 DEF AskedInv, ActiveInv
  <1> QED
    BY <1>6, <1>7, <1>8, <1>9 DEF Protocol

----------------------------------------------------------------------------
\* What is latest.  A step that gives no byte to anybody keeps LatestInv.
Plain ==
    /\ excuses \subseteq excuses'
    /\ excuses' = {} => link'.wire = link.wire
    /\ \A i \in Places :
         /\ stored'[i] = stored[i] \/ stored'[i] = "none"
         /\ cache'[i] = cache[i] \/ cache'[i] = "none"
         /\ rival'[i] = rival[i] \/ (rival'[i] = "none" /\ stored'[i] = "none")
    /\ "stale" \in call'.got =>
         "stale" \in call.got \/ \E i \in Places : cache[i] = "stale"

\* The steps that are plain.
LEMMA PlainLatest ==
    ASSUME LatestInv, Plain
    PROVE  LatestInv'
  BY DEF Plain, LatestInv

LEMMA ClientPlain ==
    ASSUME Types, Types', CallInv, Protocol, ClientSteps
    PROVE  Plain
  <1>0. /\ session \in SessionType /\ file \in FileType /\ link \in LinkType /\ call \in CallType
    BY DEF Types
  <1>1. ASSUME UNCHANGED <<stored, cache, rival>>, excuses \subseteq excuses',
               excuses' = {} => link'.wire = link.wire,
               call'.got = call.got \/ call'.got = {}
        PROVE  Plain
    BY <1>1 DEF Plain
  <1>2. ASSUME NEW pc \in Points, NEW c, Sent(c), Go(pc, c) PROVE call'.got = call.got
    BY <1>2, GoFields
  <1>3. ASSUME Remove PROVE Plain
    BY <1>1, <1>2, <1>3, Sends DEF Remove, disk, Points, Waiting
  <1>4. ASSUME Begin PROVE Plain
    BY <1>1, <1>2, <1>4, Sends DEF Begin, disk, Points
  <1>5. ASSUME SetFilePointer PROVE Plain
    BY <1>1, <1>2, <1>5, Sends DEF SetFilePointer, disk, Points
  <1>6. ASSUME SeekElsewhere PROVE Plain
    <2>1. /\ UNCHANGED <<stored, cache, rival>> /\ Closes
          /\ Go("confirm", <<>>) \/ Go("aborted", Abor)
      BY <1>6 DEF SeekElsewhere, disk
    <2>2. call'.got = call.got
      BY <1>2, <2>1, Sends DEF Points, Waiting
    <2>3. excuses \subseteq excuses' /\ (excuses' = {} => link'.wire = link.wire)
      BY <2>1, ClosesEffect
    <2> QED
      BY <1>1, <2>1, <2>2, <2>3
  <1>7. ASSUME Connect PROVE Plain
    <2>1. UNCHANGED <<stored, cache, rival>>
      BY <1>7 DEF Connect, disk
    <2>2. CASE /\ session' = NoSession /\ link' = NoLink /\ UNCHANGED call
               /\ \/ Excuse(Lost(link.wire))
                  \/ session.cmds = <<>> /\ session.xfer = "none" /\ UNCHANGED excuses
      <3>1. link'.wire = <<>>
        BY <2>2 DEF NoLink
      <3>2. CASE Excuse(Lost(link.wire))
        <4>1. excuses \subseteq excuses' /\ (excuses' = {} => link.wire = <<>>)
          BY <3>2 DEF Excuse, Lost
        <4> QED
          BY <1>1, <2>1, <2>2, <3>1, <4>1
      <3>3. CASE session.cmds = <<>> /\ session.xfer = "none" /\ UNCHANGED excuses
        <4>1. ~Queued("STOR")
          BY <3>3 DEF Queued
        <4>2. link.wire = <<>>
          BY <3>3, <4>1 DEF WireInv, Protocol
        <4> QED
          BY <1>1, <2>1, <2>2, <3>1, <3>3, <4>2
      <3> QED
        BY <2>2, <3>2, <3>3
    <2>3. CASE /\ call' \in {[call EXCEPT !.pc = "begin"], NoCall}
               /\ UNCHANGED <<file, session, link, excuses>>
      <3>1. call'.got = call.got \/ call'.got = {}
        BY <1>0, <2>3 DEF CallType, NoCall
      <3> QED
        BY <1>1, <2>1, <2>3, <3>1
    <2> QED
      BY <1>7, <2>2, <2>3 DEF Connect
  <1>8. ASSUME GoOn PROVE Plain
    BY <1>1, <1>2, <1>8, Sends DEF GoOn, disk, Points
  <1>9. ASSUME OpenDataConnection PROVE Plain
    BY <1>1, <1>2, <1>9, Sends DEF OpenDataConnection, disk, Points, Waiting
  <1>10. ASSUME Accepts PROVE Plain
    BY <1>1, <1>2, <1>10, Sends DEF Accepts, disk, Points
  <1>11. ASSUME ReadDone PROVE Plain
    <2>1. UNCHANGED <<stored, cache, rival, link, excuses>>
          /\ call' = [NoCall EXCEPT !.got = call.got]
      BY <1>11 DEF ReadDone, disk
    <2>2. call'.got = call.got
      BY <2>1 DEF NoCall
    <2> QED
      BY <1>1, <2>1, <2>2
  <1>12. ASSUME SuspendFile PROVE Plain
    <2>1. /\ call' \in {[call EXCEPT !.pc = "suspend"], call}
          /\ Closes \/ UNCHANGED <<link, excuses>>
          /\ UNCHANGED <<stored, cache, rival>>
      BY <1>12 DEF SuspendFile, disk
    <2>2. call'.got = call.got
      BY <1>0, <2>1 DEF CallType
    <2>3. excuses \subseteq excuses' /\ (excuses' = {} => link'.wire = link.wire)
      BY <2>1, ClosesEffect
    <2> QED
      BY <1>1, <2>1, <2>2, <2>3
  <1>13. ASSUME FileResetOnError PROVE Plain
    <2>1. /\ call' = NoCall /\ link' = NoLink /\ excuses' = excuses \cup Lost(link.wire)
          /\ UNCHANGED <<stored, cache, rival>>
      BY <1>13, ResetEffect
    <2>2. call'.got = {} /\ link'.wire = <<>>
      BY <2>1 DEF NoCall, NoLink
    <2>3. excuses' = {} => link.wire = <<>>
      BY <2>1 DEF Lost
    <2> QED
      BY <1>1, <2>1, <2>2, <2>3
  <1> QED
    BY <1>3, <1>4, <1>5, <1>6, <1>7, <1>8, <1>9, <1>10, <1>11, <1>12, <1>13 DEF ClientSteps

LEMMA RepliesPlain ==
    ASSUME Types, Types', CallInv, Protocol, TakesReplies
    PROVE  Plain
  <1>0. /\ session \in SessionType /\ file \in FileType /\ link \in LinkType /\ call \in CallType
    BY DEF Types
  <1>1. ASSUME Still, cache' = cache \/ cache' = [i \in Places |-> "none"],
               link'.wire = link.wire, call'.got = call.got
        PROVE  Plain
    BY <1>1 DEF Plain, Still
  <1>2. ASSUME NEW k \in Arrivals, NEW pc \in Points, NEW c, Sent(c), Took(k, pc, c)
        PROVE  call'.got = call.got
    BY <1>2, TookFields
  <1>3. ASSUME NEW k \in Arrivals, Skips(k) PROVE Plain
    <2>1. Took(k, call.pc, <<>>) /\ Still /\ UNCHANGED <<link, cache>>
      BY <1>3 DEF Skips
    <2>2. call.pc \in Points
      BY <1>0 DEF CallType
    <2> QED
      BY <1>1, <1>2, <2>1, <2>2, Sends
  <1>4. ASSUME NEW k \in Arrivals, Moves(k) PROVE Plain
    <2>1. /\ Still /\ UNCHANGED <<link, cache>>
          /\ \/ Took(k, "aborted", Abor)
             \/ Took(k, "seek", <<>>)
             \/ Took(k, "port", << <<"PORT", 0>> >>)
             \/ Took(k, "rest", Rest)
             \/ Took(k, "accept", <<>>)
      BY <1>4 DEF Moves
    <2>2. call'.got = call.got
      BY <1>2, <2>1, Sends DEF Points, Waiting
    <2> QED
      BY <1>1, <2>1, <2>2
  <1>5. ASSUME NEW k \in Arrivals, Removes(k) PROVE Plain
    BY <1>1, <1>2, <1>5, Sends DEF Removes, Points
  <1>6. ASSUME NEW k \in Arrivals, FallsBack(k) PROVE Plain
    BY <1>1, <1>2, <1>6, Sends DEF FallsBack, Points, Waiting
  <1>7. ASSUME NEW k \in Arrivals, Connects(k) PROVE Plain
    <2>1. link'.wire = link.wire
      BY <1>0, <1>7 DEF Connects, LinkType
    <2> QED
      BY <1>1, <1>2, <1>7, <2>1, Sends DEF Connects, Points, Waiting
  <1>8. ASSUME NEW k \in Arrivals, Asks(k) PROVE Plain
    <2>1. link'.wire = link.wire
      BY <1>0, <1>8 DEF Asks, LinkType
    <2>2. Sent(<< <<Wanted, 0>> >>)
      BY Sends DEF Wanted
    <2> QED
      BY <1>1, <1>2, <1>8, <2>1, <2>2 DEF Asks, Points, Waiting
  <1>9. ASSUME NEW k \in Arrivals, AsksAgain(k) PROVE Plain
    <2>1. call' = [call EXCEPT !.pc = "type", !.tries = 0, !.retry = TRUE]
      BY <1>9 DEF AsksAgain
    <2>2. call'.got = call.got
      BY <1>0, <2>1 DEF CallType
    <2> QED
      BY <1>1, <1>9, <2>2 DEF AsksAgain
  <1>10. ASSUME NEW k \in Arrivals, Suspends(k) PROVE Plain
    <2>1. (IF call.left > 0 THEN "begin" ELSE "idle") \in Points
      BY DEF Points
    <2> QED
      BY <1>1, <1>2, <1>10, <2>1, Sends DEF Suspends
  <1>11. ASSUME FileResetOnError PROVE Plain
    BY <1>11, ClientPlain DEF ClientSteps
  <1> QED
    BY <1>3, <1>4, <1>5, <1>6, <1>7, <1>8, <1>9, <1>10, <1>11 DEF TakesReplies

LEMMA ServerPlain ==
    ASSUME Types, ServerSteps, ~Store
    PROVE  Plain
  <1>0. session \in SessionType /\ link \in LinkType
    BY DEF Types
  <1>1. ASSUME HandleSimple PROVE Plain
    BY <1>1 DEF HandleSimple, Plain, disk
  <1>2. ASSUME HandleDele PROVE Plain
    <2>1. /\ \/ stored' = [i \in Places |-> "none"] /\ rival' = stored'
             \/ UNCHANGED <<stored, rival>>
          /\ UNCHANGED <<call, link, cache, excuses>>
      BY <1>2 DEF HandleDele
    <2> QED
      BY <2>1 DEF Plain
  <1>3. ASSUME HandleAbor PROVE Plain
    <2>1. /\ link' = [link EXCEPT !.wire = <<>>] /\ excuses' = excuses \cup Lost(link.wire)
          /\ UNCHANGED <<stored, cache, rival, call>>
      BY <1>3 DEF HandleAbor, Excuse, disk
    <2>2. link'.wire = <<>>
      BY <1>0, <2>1 DEF LinkType
    <2>3. excuses' = {} => link.wire = <<>>
      BY <2>1 DEF Lost
    <2> QED
      BY <2>1, <2>2, <2>3 DEF Plain
  <1>4. ASSUME NEW v \in Transfers, HandleTransfer(v) PROVE Plain
    <2>1. /\ UNCHANGED <<call, cache, rival>>
          /\ \/ Begins(v)
             \/ \E reply \in {"425", "550"} : Refuses(reply)
      BY <1>0, <1>4, TransferEffect
    <2>2. CASE Begins(v)
      <3>1. /\ link'.wire = link.wire /\ excuses' = excuses
            /\ stored' = stored \/ stored' = [i \in Places |-> "none"]
        BY <1>0, <2>2 DEF Begins, LinkType
      <3> QED
        BY <2>1, <3>1 DEF Plain
    <2>3. ASSUME NEW reply \in {"425", "550"}, Refuses(reply) PROVE Plain
      <3>1. /\ link'.wire = <<>> /\ excuses' = excuses \cup Lost(link.wire)
            /\ stored' = stored
        BY <1>0, <2>3 DEF Refuses, LinkType, Excuse
      <3>2. excuses' = {} => link.wire = <<>>
        BY <3>1 DEF Lost
      <3> QED
        BY <2>1, <3>1, <3>2 DEF Plain
    <2> QED
      BY <2>1, <2>2, <2>3
  <1>5. ASSUME EndTransfer PROVE Plain
    BY <1>5 DEF EndTransfer, Plain, disk
  <1> QED
    BY <1>1, <1>2, <1>3, <1>4, <1>5 DEF ServerSteps

LEMMA ReadFilePlain ==
    ASSUME Types, NEW p \in Places, NEW n \in 1 .. MaxSize, ReadFile(p, n) \/ WriteFile(p, n)
    PROVE  Plain
  <1>1. CASE ReadFile(p, n)
    <2>1. /\ \A x \in call'.got : \E i \in Places : x = cache[i]
          /\ \A i \in Places : cache'[i] \in {cache[i], "none"}
          /\ UNCHANGED <<link, stored, rival, excuses>>
      BY <1>1, ReadFileTypes
    <2> QED
      BY <2>1 DEF Plain
  <1>2. CASE WriteFile(p, n)
    <2>1. /\ call' = [NoCall EXCEPT !.pc = IF p = 0 THEN "remove" ELSE "begin",
                                    !.write = TRUE, !.target = p, !.left = n]
          /\ UNCHANGED <<link, stored, cache, rival, excuses>>
      BY <1>2, WriteFileTypes
    <2>2. call'.got = {}
      BY <2>1 DEF NoCall
    <2> QED
      BY <2>1, <2>2 DEF Plain
  <1> QED
    BY <1>1, <1>2

\* What is received is what the server has there, and that is latest unless
\* newer bytes are under way.
LEMMA ReceivedLatest ==
    ASSUME Types, Types', CallInv, Dense, Protocol, LatestInv,
           NEW m \in 1 .. MaxSize, Received(m)
    PROVE  LatestInv'
  <1>0. link \in LinkType /\ call \in CallType
    BY DEF Types
  <1> DEFINE new == New(m)
  <1>1. PICK aged \in SUBSET (link.old \cap new), missed \in SUBSET Places :
          LET kind == [i \in Places |-> IF link.at = file.pos /\ i \notin aged
                                        THEN stored[i] ELSE "stale"] IN
            /\ cache' = [i \in Places |-> IF i \in new \ missed /\ ~file.nocache THEN kind[i]
                                          ELSE cache[i]]
            /\ call' = IF call.pc = "seek" THEN call
                       ELSE [call EXCEPT !.left = @ - m, !.got = @ \cup {kind[i] : i \in new}]
            /\ excuses' = excuses \cup
                IF new \cap (link.old \cup {i \in Places : rival[i] # "none"}) = {}
                THEN {} ELSE {"overtaken"}
    BY ReceivedTypes, Zenon DEF New
  <1> SUFFICES ASSUME excuses' = {}
               PROVE  LatestInv'
    BY DEF LatestInv
  <1>2. /\ excuses = {} /\ aged = {}
        /\ \A i \in new : i \in Places => rival[i] = "none"
    BY <1>1
  <1>3. /\ link.use = "RETR" /\ link' = [link EXCEPT !.at = link.at + m]
        /\ UNCHANGED <<stored, rival>> /\ file.pos + m \in 1 .. MaxSize
    BY ReceivedTypes
  <1>4. link.wire = <<>> /\ link.at = file.pos /\ link'.wire = link.wire
    BY <1>0, <1>2, <1>3 DEF LinkInv, Protocol, LinkType, Transfers
  <1>5. new \subseteq Places
    <2>1. file.pos \in Nat /\ m \in Nat /\ MaxSize \in Nat
      BY Fields
    <2> QED
      BY <1>3, <2>1 DEF New, Places
  <1>6. \A i \in new : stored[i] # "stale"
    <2>1. DOMAIN link.wire = {}
      BY <1>4
    <2> QED
      BY <1>2, <1>5, <2>1 DEF LatestInv
  <1> HIDE DEF new
  <1>7. \A i \in Places : cache'[i] = cache[i] \/ (i \in new /\ cache'[i] = stored[i])
    BY <1>1, <1>2, <1>4
  <1>8. call'.got = call.got \/ call'.got = call.got \cup {stored[i] : i \in new}
    <2>1. CASE call.pc = "seek"
      BY <1>1, <2>1
    <2>2. CASE call.pc # "seek"
      <3> DEFINE kind == [i \in Places |-> IF link.at = file.pos /\ i \notin aged
                                           THEN stored[i] ELSE "stale"]
      <3>1. call' = [call EXCEPT !.left = @ - m, !.got = @ \cup {kind[i] : i \in new}]
        BY <1>1, <2>2
      <3>2. {kind[i] : i \in new} = {stored[i] : i \in new}
        BY <1>2, <1>4, <1>5
      <3> HIDE DEF kind
      <3> QED
        BY <1>0, <3>1, <3>2 DEF CallType
    <2> QED
      BY <2>1, <2>2
  <1> QED
    BY <1>2, <1>3, <1>4, <1>6, <1>7, <1>8 DEF LatestInv

\* What is sent is latest, and makes stale only what it is there to replace.
LEMMA SendLatest ==
    ASSUME Types, Types', CallInv, Protocol, LatestInv, NEW m \in 1 .. MaxSize, SendData(m)
    PROVE  LatestInv'
  <1>0. file \in FileType /\ link \in LinkType
    BY DEF Types
  <1> SUFFICES ASSUME excuses' = {}
               PROVE  LatestInv'
    BY DEF LatestInv
  <1> DEFINE n == Len(link.wire)
             w == link.wire
             w1 == link'.wire
  <1>1. /\ call.pc = "transfer" /\ call' = NoCall
        /\ stored' = Aged(stored, New(m)) /\ rival' = Aged(rival, New(m))
        /\ \A i \in Places : cache'[i] \in {cache[i], "latest", "kept"}
        /\ excuses' = excuses \cup
             ((IF link.asked = "RETR" THEN {"crossed"} ELSE IF Uploads THEN {} ELSE {"lost"})
              \cup (IF \E i \in New(m) : rival[i] # "none" THEN {"overtaken"} ELSE {}))
    BY SentTypes
  <1>2. /\ excuses = {} /\ link.asked # "RETR" /\ Uploads
        /\ \A i \in New(m) : rival[i] = "none"
    BY <1>1
  <1>3. /\ file.pos \in Nat /\ m \in Nat /\ file.pos + m <= MaxSize /\ m >= 1
        /\ link.at \in Nat /\ MaxSize \in Nat
    <2>1. file.pos + m \in 1 .. MaxSize
      BY SentTypes
    <2>2. file.pos \in 0 .. MaxSize /\ link.at \in 0 .. MaxSize /\ MaxSize \in Nat
      BY Fields
    <2> QED
      BY <2>1, <2>2
  <1>4. link.asked = "STOR" /\ link.use \in {"idle", "RETR", "STOR"}
    <2>1. link.use \in {"none", "idle"} \cup Transfers /\ link.asked \in {"none"} \cup Transfers
      BY <1>0 DEF LinkType
    <2>2. file.data /\ call.pc # "rest"
      BY <1>1 DEF CallInv
    <2> QED
      BY <1>2, <2>1, <2>2 DEF LinkInv, Protocol, Transfers
  <1>5. Onto(m) # <<>>
    <2>1. Onto(m) = Fresh(file.pos, m)
      BY <1>2, <1>4 DEF Onto
    <2>2. Len(Fresh(file.pos, m)) = m
      BY <1>3, FreshIs
    <2> QED
      BY <1>3, <2>1, <2>2
  <1>6. /\ Len(w1) = n + m
        /\ \A j \in 1 .. n :
             /\ w1[j].place = w[j].place
             /\ w1[j].kind = IF w[j].place \in New(m) THEN "stale" ELSE w[j].kind
        /\ \A j \in 1 .. m : w1[n + j] = [place |-> file.pos + j - 1, kind |-> "latest"]
    BY <1>5, SentTypes
  <1>7. n \in Nat /\ DOMAIN w = 1 .. n /\ DOMAIN w1 = 1 .. n + m
    BY <1>6, Queues, QueuesNext
  <1>8. \A j \in 1 .. n : w[j].place \notin New(m)
    <2> SUFFICES ASSUME NEW j \in 1 .. n PROVE w[j].place \notin New(m)
      OBVIOUS
    <2>1. CASE link.use = "STOR"
      <3>1. w[j].place = link.at + j - 1 /\ link.at + n = file.pos
        BY <1>7, <2>1 DEF LinkInv, WireInv, Protocol
      <3> HIDE DEF n, w
      <3> QED
        BY <1>3, <1>7, <3>1 DEF New
    <2>2. CASE link.use = "idle"
      <3>1. w[j].place = file.pos - n + j - 1
        BY <1>7, <2>2 DEF WireInv, Protocol
      <3> HIDE DEF n, w
      <3> QED
        BY <1>3, <1>7, <3>1 DEF New
    <2>3. CASE link.use = "RETR"
      <3>1. w = <<>>
        BY <2>3 DEF LinkInv, Protocol, Transfers
      <3> QED
        BY <3>1
    <2> QED
      BY <1>4, <2>1, <2>2, <2>3
  <1> HIDE DEF n, w, w1
  <1>9. \A i \in Places : rival'[i] = rival[i]
    BY <1>1, <1>2 DEF Aged
  <1>10. \A i \in Places : cache'[i] \in {cache[i], "latest", "kept"}
    BY <1>1
  <1>11. \A i \in Places : stored'[i] = stored[i] \/ i \in New(m)
    BY <1>1 DEF Aged
  <1>12. \A i \in New(m) : \E j \in DOMAIN w1 : w1[j].place = i
    <2> SUFFICES ASSUME NEW i \in New(m) PROVE \E j \in DOMAIN w1 : w1[j].place = i
      OBVIOUS
    <2> DEFINE j == i - file.pos + 1
    <2>1. j \in 1 .. m /\ file.pos + j - 1 = i
      BY <1>3 DEF New
    <2> HIDE DEF j
    <2>3. n \in Nat /\ n + j \in 1 .. n + m
      BY <1>3, <1>7, <2>1
    <2>2. w1[n + j].place = i
      <3>1. w1[n + j] = [place |-> file.pos + j - 1, kind |-> "latest"]
        BY <1>6, <2>1
      <3>2. [place |-> file.pos + j - 1, kind |-> "latest"].place = file.pos + j - 1
        OBVIOUS
      <3> QED
        BY <2>1, <3>1, <3>2
    <2> QED
      BY <1>7, <2>2, <2>3
  <1>13. \A j \in DOMAIN w1 :
           \/ j \in DOMAIN w /\ w1[j].place = w[j].place /\ w1[j].kind = w[j].kind
           \/ w1[j].place \in New(m) /\ w1[j].kind = "latest"
    <2> SUFFICES ASSUME NEW j \in 1 .. n + m
                 PROVE  \/ j \in DOMAIN w /\ w1[j].place = w[j].place /\ w1[j].kind = w[j].kind
                        \/ w1[j].place \in New(m) /\ w1[j].kind = "latest"
      BY <1>7
    <2>1. CASE j \in 1 .. n
      BY <1>6, <1>7, <1>8, <2>1
    <2>2. CASE j \notin 1 .. n
      <3> DEFINE i == j - n
      <3>1. i \in 1 .. m /\ n + i = j /\ file.pos + i - 1 \in New(m)
        BY <1>3, <1>7, <2>2 DEF New
      <3> HIDE DEF i
      <3>2. w1[n + i] = [place |-> file.pos + i - 1, kind |-> "latest"]
        BY <1>6, <3>1
      <3> QED
        BY <3>1, <3>2
    <2> QED
      BY <2>1, <2>2
  <1>14. \A j \in DOMAIN w : j \in DOMAIN w1 /\ w1[j].place = w[j].place
    BY <1>3, <1>6, <1>7
  <1>15. call'.got = {}
    BY <1>1 DEF NoCall
  <1>16. ASSUME NEW i \in Places
         PROVE  /\ cache'[i] # "stale" /\ rival'[i] # "stale"
                /\ stored'[i] = "stale" =>
                     rival'[i] = "latest" \/ \E j \in DOMAIN w1 : w1[j].place = i
                /\ rival'[i] # "none" => \A j \in DOMAIN w1 : w1[j].place # i
    <2>1. /\ cache[i] # "stale" /\ rival[i] # "stale"
          /\ stored[i] = "stale" =>
               rival[i] = "latest" \/ \E j \in DOMAIN w : w[j].place = i
          /\ rival[i] # "none" => \A j \in DOMAIN w : w[j].place # i
      BY <1>2 DEF LatestInv, w
    <2>2. stored'[i] = "stale" => rival'[i] = "latest" \/ \E j \in DOMAIN w1 : w1[j].place = i
      BY <1>9, <1>11, <1>12, <1>14, <2>1
    <2>3. rival'[i] # "none" => \A j \in DOMAIN w1 : w1[j].place # i
      BY <1>2, <1>9, <1>13, <2>1
    <2> QED
      BY <1>9, <1>10, <2>1, <2>2, <2>3
  <1>17. \A j \in DOMAIN w1 : w1[j].kind = "latest"
    BY <1>2, <1>13 DEF LatestInv, w
  <1> QED
    BY <1>15, <1>16, <1>17 DEF LatestInv, w1

\* A byte that arrives goes to its own place.
LEMMA StoreLatest ==
    ASSUME Types, Types', Protocol, LatestInv, Store
    PROVE  LatestInv'
  <1> SUFFICES ASSUME excuses' = {}
               PROVE  LatestInv'
    BY DEF LatestInv
  <1> DEFINE n == Len(link.wire)
             w == link.wire
             w1 == link'.wire
  <1>1. /\ session.xfer = "STOR" /\ link.at < MaxSize /\ n >= 1
        /\ stored' = WithByte(link.at, IF w[1].place = link.at THEN w[1].kind ELSE "stale")
        /\ Len(w1) = n - 1
        /\ \A j \in 1 .. n - 1 : w1[j] = w[j + 1]
        /\ UNCHANGED <<call, cache, rival, excuses>>
    BY StoreEffect
  <1>2. n \in Nat /\ DOMAIN w = 1 .. n /\ DOMAIN w1 = 1 .. n - 1 /\ link.at \in Nat
    BY <1>1, Queues, QueuesNext, Fields
  <1>3. \A j \in 1 .. n : w[j].place = link.at + j - 1
    BY <1>1, <1>2 DEF WireInv, Protocol
  <1> HIDE DEF n, w, w1
  <1>4. w[1].place = link.at /\ w[1].kind = "latest" /\ 1 \in DOMAIN w
    <2>1. 1 \in 1 .. n
      BY <1>1, <1>2
    <2>2. w[1].place = link.at
      BY <1>2, <1>3, <2>1
    <2> QED
      BY <1>1, <1>2, <2>1, <2>2 DEF LatestInv, w
  <1>5. \A i \in Places : stored'[i] = "stale" => i # link.at /\ stored[i] = "stale"
    BY <1>1, <1>4 DEF WithByte
  <1>6. \A j \in DOMAIN w1 : j + 1 \in DOMAIN w /\ w1[j] = w[j + 1]
    BY <1>1, <1>2
  <1>7. \A j \in DOMAIN w : w[j].place # link.at =>
          \E i \in DOMAIN w1 : w1[i] = w[j]
    <2> SUFFICES ASSUME NEW j \in 1 .. n, w[j].place # link.at
                 PROVE  \E i \in DOMAIN w1 : w1[i] = w[j]
      BY <1>2
    <2>1. j # 1
      BY <1>4
    <2>2. j - 1 \in 1 .. n - 1 /\ (j - 1) + 1 = j
      BY <1>2, <2>1
    <2>3. w1[j - 1] = w[j]
      BY <1>1, <2>2
    <2> QED
      BY <1>2, <2>2, <2>3
  <1>8. ASSUME NEW i \in Places
        PROVE  /\ cache'[i] # "stale" /\ rival'[i] # "stale"
               /\ stored'[i] = "stale" =>
                    rival'[i] = "latest" \/ \E j \in DOMAIN w1 : w1[j].place = i
               /\ rival'[i] # "none" => \A j \in DOMAIN w1 : w1[j].place # i
    <2>1. /\ cache[i] # "stale" /\ rival[i] # "stale"
          /\ stored[i] = "stale" =>
               rival[i] = "latest" \/ \E j \in DOMAIN w : w[j].place = i
          /\ rival[i] # "none" => \A j \in DOMAIN w : w[j].place # i
      BY <1>1 DEF LatestInv, w
    <2>2. stored'[i] = "stale" => rival'[i] = "latest" \/ \E j \in DOMAIN w1 : w1[j].place = i
      BY <1>1, <1>5, <1>7, <2>1
    <2>3. rival'[i] # "none" => \A j \in DOMAIN w1 : w1[j].place # i
      BY <1>1, <1>6, <2>1
    <2> QED
      BY <1>1, <2>1, <2>2, <2>3
  <1>9. \A j \in DOMAIN w1 : w1[j].kind = "latest"
    BY <1>1, <1>6 DEF LatestInv, w
  <1>10. "stale" \notin call'.got
    BY <1>1 DEF LatestInv
  <1> QED
    BY <1>8, <1>9, <1>10 DEF LatestInv, w1

\* The other handle's byte is latest until this handle writes there.
LEMMA OthersLatest ==
    ASSUME Types, Types', LatestInv, NEW p \in Places, OtherWrites(p) \/ OtherStores(p)
    PROVE  LatestInv'
  <1>0. /\ link \in LinkType /\ stored \in [Places -> Contents] /\ cache \in [Places -> Cached]
        /\ rival \in [Places -> {"latest", "stale", "none"}]
    BY DEF Types
  <1> SUFFICES ASSUME excuses' = {}
               PROVE  LatestInv'
    BY DEF LatestInv
  <1>1. CASE OtherWrites(p)
    <2>1. /\ stored' = Aged(stored, {p})
          /\ \E missed \in SUBSET {p} : WriteToCache({p}, missed)
          /\ rival' = [rival EXCEPT ![p] = "latest"]
          /\ link' = [link EXCEPT !.wire = AgedWire({p})]
          /\ excuses' = excuses \cup IF \E j \in DOMAIN link.wire : link.wire[j].place = p
                                     THEN {"overtaken"} ELSE {}
          /\ UNCHANGED call
      BY <1>1 DEF OtherWrites, Excuse, Refusals
    <2>2. excuses = {} /\ \A j \in DOMAIN link.wire : link.wire[j].place # p
      BY <2>1
    <2>3. link'.wire = AgedWire({p})
      BY <1>0, <2>1 DEF LinkType
    <2>4. /\ DOMAIN link'.wire = DOMAIN link.wire
          /\ \A j \in DOMAIN link.wire : /\ link'.wire[j].place = link.wire[j].place
                                         /\ link'.wire[j].kind = link.wire[j].kind
      <3>1. link.wire \in Seq(Bytes) /\ DOMAIN link.wire = 1 .. Len(link.wire)
        BY Fields, Queues
      <3>2. DOMAIN link'.wire = 1 .. Len(link'.wire)
        BY QueuesNext
      <3> QED
        BY <2>2, <2>3, <3>1, <3>2, AgedWireIs
    <2>5. /\ rival'[p] = "latest" /\ cache'[p] \in {"latest", "kept"}
          /\ \A i \in Places : i # p =>
               rival'[i] = rival[i] /\ cache'[i] = cache[i] /\ stored'[i] = stored[i]
      BY <1>0, <2>1 DEF Aged, WriteToCache
    <2>6. ASSUME NEW i \in Places
          PROVE  /\ cache'[i] # "stale" /\ rival'[i] # "stale"
                 /\ stored'[i] = "stale" =>
                      rival'[i] = "latest" \/ \E j \in DOMAIN link'.wire : link'.wire[j].place = i
                 /\ rival'[i] # "none" => \A j \in DOMAIN link'.wire : link'.wire[j].place # i
      <3>1. CASE i = p
        BY <2>2, <2>4, <2>5, <3>1
      <3>2. CASE i # p
        BY <2>2, <2>4, <2>5, <3>2 DEF LatestInv
      <3> QED
        BY <3>1, <3>2
    <2>7. "stale" \notin call'.got /\ \A j \in DOMAIN link'.wire : link'.wire[j].kind = "latest"
      BY <2>1, <2>2, <2>4 DEF LatestInv
    <2> QED
      BY <2>6, <2>7 DEF LatestInv
  <1>2. CASE OtherStores(p)
    <2>1. /\ rival[p] # "none" /\ stored' = WithByte(p, rival[p])
          /\ rival' = [rival EXCEPT ![p] = "none"]
          /\ link' = IF link.use = "RETR" THEN [link EXCEPT !.old = @ \cup {p}] ELSE link
          /\ UNCHANGED <<call, cache, excuses>>
      BY <1>2 DEF OtherStores
    <2>2. link'.wire = link.wire
      BY <1>0, <2>1 DEF LinkType
    <2>3. rival[p] = "latest"
      BY <1>0, <2>1 DEF LatestInv
    <2>4. /\ rival'[p] = "none"
          /\ \A i \in Places : i # p => rival'[i] = rival[i]
          /\ \A i \in Places : stored'[i] = "stale" => i # p /\ stored[i] = "stale"
      BY <1>0, <2>1, <2>3 DEF WithByte
    <2> QED
      BY <2>1, <2>2, <2>4 DEF LatestInv
  <1> QED
    BY <1>1, <1>2

\* Every step keeps LatestInv.
LEMMA LatestStep ==
    ASSUME Types, Types', CallInv, Dense, Protocol, LatestInv, [Next]_vars
    PROVE  LatestInv'
  <1>1. CASE UNCHANGED vars
    BY <1>1 DEF LatestInv, vars
  <1>2. CASE Next
    <2>1. session \in SessionType
      BY DEF Types
    <2>2. ASSUME NEW p \in Places, NEW n \in 1 .. MaxSize, ReadFile(p, n) \/ WriteFile(p, n)
          PROVE  LatestInv'
      BY <2>2, ReadFilePlain, PlainLatest
    <2>3. ASSUME ClientSteps PROVE LatestInv'
      BY <2>3, ClientPlain, PlainLatest
    <2>4. ASSUME NEW m \in 1 .. MaxSize, Received(m) \/ SendData(m) PROVE LatestInv'
      BY <2>4, ReceivedLatest, SendLatest
    <2>5. ASSUME TakesReplies PROVE LatestInv'
      BY <2>5, RepliesPlain, PlainLatest
    <2>6. ASSUME ServerSteps PROVE LatestInv'
      BY <2>6, ServerPlain, PlainLatest, StoreLatest
    <2>7. ASSUME NEW i \in Places, OtherWrites(i) \/ OtherStores(i) PROVE LatestInv'
      BY <2>7, OthersLatest
    <2> QED
      BY <1>2, <2>1, <2>2, <2>3, <2>4, <2>5, <2>6, <2>7, StepCases
  <1> QED
    BY <1>1, <1>2

\* LatestInv holds at the start.
LEMMA InitLatest ==
    ASSUME Init
    PROVE  LatestInv
  <1>1. /\ call = NoCall /\ link = NoLink /\ rival = [i \in Places |-> "none"]
        /\ \E size \in 0 .. MaxSize, known \in {{}, Places} :
             /\ stored = [i \in Places |-> IF i < size THEN "latest" ELSE "none"]
             /\ cache = [i \in Places |-> IF i < size /\ i \in known THEN "latest" ELSE "none"]
    BY DEF Init
  <1>2. \A i \in Places : stored[i] # "stale" /\ cache[i] # "stale" /\ rival[i] = "none"
    BY <1>1
  <1>3. call.got = {} /\ link.wire = <<>>
    BY <1>1 DEF NoCall, NoLink
  <1> QED
    BY <1>2, <1>3 DEF LatestInv

----------------------------------------------------------------------------
\* What is quiet.  As long as nothing is amiss a step keeps the upload in
\* order and loses nothing.
KeepsQuiet ==
    amiss' = {} =>
      /\ amiss = {}
      /\ Quiet => Quiet' /\ ("lost" \in excuses' => "lost" \in excuses)

\* Steps that have nothing to do with commands and replies.
Aside ==
    /\ amiss \subseteq amiss' /\ ("lost" \in excuses' => "lost" \in excuses)
    /\ session' = session /\ link'.use = link.use /\ link'.asked = link.asked
    /\ link'.wire # <<>> => link.wire # <<>>
    /\ file.data => file'.data
    /\ \/ call'.pc = call.pc
       \/ /\ call.pc \notin Preparing \cup {"ask", "confirm", "suspend"}
          /\ call'.pc \notin Preparing \cup {"ask"}

\* Such steps keep all.
LEMMA AsideQuiet ==
    ASSUME Aside
    PROVE  KeepsQuiet
  <1>1. QuietWire => QuietWire'
    BY DEF Aside, QuietWire
  <1>2. QuietUpload => QuietUpload'
    BY DEF Aside, QuietUpload
  <1>3. QuietAnswer => QuietAnswer'
    <2> SUFFICES ASSUME QuietAnswer, link'.asked = "STOR", call'.pc = "ask" PROVE QuietAnswer'
      BY DEF QuietAnswer
    <2>1. link.asked = "STOR" /\ call.pc = "ask" /\ link'.use = link.use /\ session' = session
      BY DEF Aside
    <2> QED
      BY <2>1, Zenon DEF QuietAnswer
  <1>4. amiss' = {} => amiss = {}
    BY DEF Aside
  <1> QED
    BY <1>1, <1>2, <1>3, <1>4 DEF KeepsQuiet, Quiet, Aside

\* With a reply taken or a command handled there is nothing on the wire, and
\* an upload was at most asked for.
Stirs == session.cmds # <<>> \/ session.replies # <<>>

\* What follows from a reply or a command under way.
LEMMA StirsQuiet ==
    ASSUME Quiet, Stirs
    PROVE  /\ link.wire = <<>>
           /\ link.asked = "STOR" => call.pc \in Preparing \cup {"ask"}
  BY DEF Quiet, QuietWire, QuietUpload, Stirs

\* What keeps Quiet when nothing is on the wire.
LEMMA CalmQuiet ==
    ASSUME link'.wire = <<>>,
           \/ link'.asked # "STOR"
           \/ call'.pc \in Preparing
    PROVE  Quiet'
  BY DEF Quiet, QuietWire, QuietUpload, QuietAnswer, Preparing

\* Nothing is owed.
LEMMA NothingOwed ==
    ASSUME Types, NEW k \in 0 .. Len(session.replies), ~Owes(k)
    PROVE  session.cmds = <<>> /\ session.xfer = "none" /\ k = Len(session.replies)
  BY Queues DEF Owes

\* Only ABOR is sent whatever is owed.
LEMMA OtherThanAbor ==
    \A v \in Verbs, n \in 0 .. MaxSize : v # "ABOR" => << <<v, n>> >> \notin {<<>>, Abor}
  <1> SUFFICES ASSUME NEW v \in Verbs, NEW n \in 0 .. MaxSize, v # "ABOR"
               PROVE  << <<v, n>> >> # <<>> /\ << <<v, n>> >> # Abor
    OBVIOUS
  <1>1. << <<v, n>> >>[1][1] = v /\ Abor[1][1] = "ABOR"
    BY DEF Abor
  <1> QED
    BY <1>1

\* A command that is sent when nothing is owed.
LEMMA SentQuietly ==
    ASSUME Types, Protocol, amiss' = {}, NEW v \in {"DELE", "TYPE"}, NEW pc \in Points,
           Go(pc, << <<v, 0>> >>)
    PROVE  /\ amiss = {} /\ call'.pc = pc
           /\ Quiet => /\ link.wire = <<>>
                       /\ link.asked = "STOR" => call.pc \in Preparing \cup {"ask"}
  <1>1. Sent(<< <<v, 0>> >>)
    BY Sends
  <1>2. /\ call'.pc = pc /\ amiss = {}
        /\ << <<v, 0>> >> \in {<<>>, Abor} \/ ~Owes(0)
    BY <1>1, GoFields
  <1>3. ~Owes(0)
    BY <1>2, OtherThanAbor, Zero DEF Verbs
  <1>4. session.xfer = "none"
    BY <1>3 DEF Owes
  <1> QED
    BY <1>2, <1>4 DEF Quiet, QuietWire, QuietUpload, LinkInv, Protocol

\* The steps of the client.
LEMMA ClientQuiet ==
    ASSUME Types, Types', CallInv, Protocol, ClientSteps
    PROVE  KeepsQuiet
  <1>0. /\ session \in SessionType /\ file \in FileType /\ link \in LinkType /\ call \in CallType
    BY DEF Types
  <1>1. ASSUME NEW pc \in Points \ (Preparing \cup {"ask"}), Go(pc, <<>>),
               UNCHANGED <<link, excuses>>, file.data => file'.data,
               call.pc \notin Preparing \cup {"ask", "confirm", "suspend"}
        PROVE  KeepsQuiet
    <2>1. call'.pc = pc /\ amiss \subseteq amiss'
      BY <1>0, <1>1, GoFields, GoEffect, Sends DEF Types
    <2>2. session' = session
      <3>1. session' = [session EXCEPT !.cmds = @ \o <<>>] /\ session.cmds \o <<>> = session.cmds
        BY <1>1, Fields DEF Go
      <3> QED
        BY <1>0, <3>1 DEF SessionType
    <2> QED
      BY <1>1, <2>1, <2>2, AsideQuiet DEF Aside
  <1>2. ASSUME Remove PROVE KeepsQuiet
    <2> SUFFICES ASSUME amiss' = {}, Quiet
                 PROVE  amiss = {} /\ Quiet'
      BY <1>2, SentQuietly DEF KeepsQuiet, Remove, Points, Waiting
    <2>1. /\ call.pc = "remove" /\ Go("removed", << <<"DELE", 0>> >>) /\ link' = link
      BY <1>2 DEF Remove
    <2>2. amiss = {} /\ link.wire = <<>> /\ link.asked # "STOR"
      BY <2>1, SentQuietly DEF Points, Waiting, Preparing
    <2> QED
      BY <2>1, <2>2, CalmQuiet
  <1>3. ASSUME OpenDataConnection PROVE KeepsQuiet
    <2> SUFFICES ASSUME amiss' = {}, Quiet
                 PROVE  amiss = {} /\ Quiet'
      BY <1>3, SentQuietly DEF KeepsQuiet, OpenDataConnection, Points, Waiting
    <2>1. Go("type", << <<"TYPE", 0>> >>) /\ link' = link
      BY <1>3 DEF OpenDataConnection
    <2>2. amiss = {} /\ link.wire = <<>> /\ call'.pc = "type"
      BY <2>1, SentQuietly DEF Points, Waiting
    <2> QED
      BY <2>1, <2>2, CalmQuiet DEF Preparing
  <1>4. ASSUME Begin PROVE KeepsQuiet
    <2>1. /\ call.pc = "begin" /\ Go("seek", <<>>) /\ UNCHANGED <<link, excuses>>
          /\ file'.data = file.data
      BY <1>0, <1>4 DEF Begin, FileType
    <2> QED
      BY <1>1, <2>1 DEF Points, Preparing
  <1>5. ASSUME SetFilePointer PROVE KeepsQuiet
    <2>1. /\ call.pc = "seek" /\ Go("ensure", <<>>) /\ UNCHANGED <<link, excuses>>
          /\ file'.data = file.data
      BY <1>0, <1>5 DEF SetFilePointer, FileType
    <2> QED
      BY <1>1, <2>1 DEF Points, Preparing
  <1>6. ASSUME GoOn PROVE KeepsQuiet
    BY <1>1, <1>6 DEF GoOn, Points, Preparing
  <1>7. ASSUME Accepts PROVE KeepsQuiet
    <2>1. /\ call.pc = "accept" /\ Go("transfer", <<>>) /\ UNCHANGED <<link, excuses>>
          /\ file'.data
      BY <1>0, <1>7 DEF Accepts, FileType
    <2> QED
      BY <1>1, <2>1 DEF Points, Preparing
  <1>8. ASSUME ReadDone PROVE KeepsQuiet
    <2>1. /\ call.pc = "transfer" /\ call' = [NoCall EXCEPT !.got = call.got]
          /\ UNCHANGED <<file, session, link, excuses, amiss>>
      BY <1>8 DEF ReadDone
    <2>2. call'.pc = "idle"
      BY <2>1 DEF NoCall
    <2> QED
      BY <2>1, <2>2, AsideQuiet DEF Aside, Preparing
  <1>9. ASSUME SeekElsewhere PROVE KeepsQuiet
    <2> SUFFICES ASSUME amiss' = {}
                 PROVE  /\ amiss = {}
                        /\ Quiet => Quiet' /\ ("lost" \in excuses' => "lost" \in excuses)
      BY DEF KeepsQuiet
    <2>1. /\ Closes /\ file' = [file EXCEPT !.data = FALSE]
          /\ IF file.changed THEN Go("confirm", <<>>) ELSE Go("aborted", Abor)
      BY <1>9 DEF SeekElsewhere
    <2>2. amiss = {} /\ file.changed \in BOOLEAN
      <3>1. file.changed \in BOOLEAN
        BY Fields
      <3> QED
        BY <2>1, <3>1, GoFields, Sends DEF Points, Waiting
    <2>3. /\ link' = [link EXCEPT !.use = "none", !.asked = "none", !.old = {},
                                  !.wire = IF file.changed THEN @ ELSE <<>>]
          /\ link'.wire = link.wire => excuses' = excuses
      BY <2>1, ClosesEffect
    <2>4. link'.asked = "none" /\ link'.wire = IF file.changed THEN link.wire ELSE <<>>
      BY <1>0, <2>3 DEF LinkType
    <2>5. link'.wire = link.wire
      BY <2>4 DEF WireInv, Protocol
    <2>6. ASSUME Quiet PROVE Quiet'
      <3>1. CASE link.wire = <<>>
        BY <2>4, <2>5, <3>1, CalmQuiet
      <3>2. CASE link.wire # <<>>
        <4>1. file.changed /\ Go("confirm", <<>>)
          BY <2>1, <3>2 DEF WireInv, Protocol
        <4>2. /\ call'.pc = "confirm" /\ session'.xfer = session.xfer
              /\ session'.replies = session.replies /\ session'.cmds = session.cmds
          <5>1. "confirm" \in Points
            BY DEF Points, Waiting
          <5> QED
            BY <4>1, <5>1, GoFields, Sends DEF Adds
        <4> QED
          BY <2>4, <2>6, <3>2, <4>2 DEF Quiet, QuietWire, QuietUpload, QuietAnswer
      <3> QED
        BY <3>1, <3>2
    <2> QED
      BY <2>2, <2>3, <2>5, <2>6
  <1>10. ASSUME Connect PROVE KeepsQuiet
    <2>1. CASE /\ session' = NoSession /\ link' = NoLink /\ amiss' = amiss
               /\ \/ Excuse(Lost(link.wire))
                  \/ UNCHANGED excuses
      <3>1. link'.wire = <<>> /\ link'.asked = "none"
        BY <2>1 DEF NoLink
      <3>2. Quiet'
        BY <3>1, CalmQuiet
      <3>3. Quiet => link.wire = <<>>
        <4>1. call.pc \in {"remove", "ensure"} /\ ~file.cmd
          BY <1>10 DEF Connect
        <4> QED
          BY <4>1 DEF Quiet, QuietWire, CallInv
      <3>4. Quiet => ("lost" \in excuses' => "lost" \in excuses)
        BY <2>1, <3>3 DEF Excuse, Lost
      <3> QED
        BY <2>1, <3>2, <3>4 DEF KeepsQuiet
    <2>2. CASE Amiss({"failed"})
      BY <2>2 DEF Amiss, KeepsQuiet
    <2> QED
      BY <1>10, <2>1, <2>2 DEF Connect
  <1>11. ASSUME SuspendFile PROVE KeepsQuiet
    <2>1. /\ call.pc \in {"idle", "begin"} /\ UNCHANGED <<session, amiss>>
          /\ call' = IF file'.cmd THEN [call EXCEPT !.pc = "suspend"] ELSE call
      BY <1>11 DEF SuspendFile
    <2>2. CASE file.data
      <3>1. Closes /\ file' = [file EXCEPT !.data = FALSE, !.cmd = file.changed]
        BY <1>11, <2>2 DEF SuspendFile
      <3>2. /\ link' = [link EXCEPT !.use = "none", !.asked = "none", !.old = {},
                                    !.wire = IF file.changed THEN @ ELSE <<>>]
            /\ link'.wire = link.wire => excuses' = excuses
        BY <3>1, ClosesEffect
      <3>3. link'.asked = "none" /\ link'.wire = IF file.changed THEN link.wire ELSE <<>>
        BY <1>0, <3>2 DEF LinkType
      <3>4. link'.wire = link.wire
        BY <3>3 DEF WireInv, Protocol
      <3>5. link.wire # <<>> => call'.pc = "suspend"
        <4>1. link.wire # <<>> => file'.cmd
          BY <1>0, <3>1 DEF WireInv, Protocol, FileType
        <4> QED
          BY <1>0, <2>1, <4>1 DEF CallType
      <3>6. Quiet => Quiet'
        BY <2>1, <3>3, <3>4, <3>5 DEF Quiet, QuietWire, QuietUpload, QuietAnswer
      <3> QED
        BY <2>1, <3>2, <3>4, <3>6 DEF KeepsQuiet
    <2>3. CASE ~file.data
      <3>1. /\ file' = [file EXCEPT !.cmd = FALSE] /\ UNCHANGED <<link, excuses>>
        BY <1>11, <2>3 DEF SuspendFile
      <3>2. call' = call
        BY <1>0, <2>1, <3>1 DEF FileType
      <3> QED
        BY <2>1, <2>3, <3>1, <3>2, AsideQuiet DEF Aside
    <2> QED
      BY <2>2, <2>3
  <1>12. ASSUME FileResetOnError PROVE KeepsQuiet
    BY <1>12 DEF FileResetOnError, Amiss, KeepsQuiet
  <1> QED
    BY <1>2, <1>3, <1>4, <1>5, <1>6, <1>7, <1>8, <1>9, <1>10, <1>11, <1>12 DEF ClientSteps

\* The steps that take replies.
LEMMA RepliesQuiet ==
    ASSUME Types, Types', CallInv, Protocol, TakesReplies
    PROVE  KeepsQuiet
  <1>0. /\ session \in SessionType /\ file \in FileType /\ link \in LinkType /\ call \in CallType
    BY DEF Types
  <1>1. ASSUME NEW k \in Arrivals, NEW pc \in Points, NEW c, Sent(c), Took(k, pc, c), amiss' = {}
        PROVE  /\ amiss = {} /\ call'.pc = pc /\ Stirs /\ k \in 1 .. Len(session.replies)
               /\ c \in {<<>>, Abor} \/ ~Owes(k)
               /\ session'.xfer = session.xfer
               /\ session'.cmds = session.cmds \o c
               /\ session'.replies = SubSeq(session.replies, k + 1, Len(session.replies))
    <2>1. Clean(k, c) /\ call'.pc = pc /\ session'.xfer = session.xfer /\ k \in Arrivals
      BY <1>1, TookFields
    <2>2. k \in 0 .. Len(session.replies) /\ k # 0 /\ Len(session.replies) \in Nat
      BY <1>1, <2>1, ArrivalsAre, Queues, <1>0 DEF Clean
    <2>3. session.replies # <<>>
      BY <2>2, Queues
    <2>4. /\ session'.cmds = session.cmds \o c
          /\ session'.replies = SubSeq(session.replies, k + 1, Len(session.replies))
      <3>1. session' = [session EXCEPT !.replies = SubSeq(@, k + 1, Len(@)), !.cmds = @ \o c]
        BY <1>1 DEF Took
      <3> QED
        BY <1>0, <3>1 DEF SessionType
    <2> QED
      BY <1>1, <2>1, <2>2, <2>3, <2>4 DEF Clean, Stirs
  <1>2. ASSUME NEW k \in Arrivals, NEW pc \in Points, NEW c, Sent(c), Took(k, pc, c),
               link'.wire = link.wire, link'.asked = link.asked, excuses' = excuses,
               pc \in Preparing \/ call.pc \notin Preparing \cup {"ask"}
        PROVE  KeepsQuiet
    <2> SUFFICES ASSUME amiss' = {}, Quiet PROVE amiss = {} /\ Quiet'
      BY <1>2, <1>1 DEF KeepsQuiet
    <2>1. amiss = {} /\ call'.pc = pc /\ Stirs
      BY <1>1, <1>2
    <2>2. link.wire = <<>> /\ (link.asked = "STOR" => call.pc \in Preparing \cup {"ask"})
      BY <2>1, StirsQuiet
    <2> QED
      BY <1>2, <2>1, <2>2, CalmQuiet
  \* The answer to STOR that is under way, and nothing else.
  <1>3. ASSUME Quiet, link.asked = "STOR", call.pc = "ask", NEW k \in 1 .. Len(session.replies),
               Response(k) \notin {"425", "550"}
        PROVE  /\ session.cmds = <<>> /\ link.use = "STOR"
               /\ Response(k) = "150" /\ k = Len(session.replies)
    <2>1. session.replies # <<>>
      BY Queues, Fields
    <2>2. k # 0 /\ Response(k) = session.replies[k]
      BY DEF Response
    <2>3. ASSUME NEW r, session.replies = <<r>> PROVE k = 1 /\ Response(k) = r /\ k = Len(session.replies)
      <3>1. Len(<<r>>) = 1 /\ <<r>>[1] = r
        OBVIOUS
      <3>2. Len(session.replies) = 1 /\ session.replies[1] = r
        BY <2>3, <3>1, Zenon
      <3> QED
        BY <2>2, <3>2
    <2>4. session.replies # <<"425">> /\ session.replies # <<"550">>
      BY <1>3, <2>3
    <2>5. session.cmds = <<>> /\ link.use = "STOR" /\ session.replies = <<"150">>
      BY <1>3, <2>1, <2>4, Zenon DEF Quiet, QuietAnswer
    <2> QED
      BY <2>3, <2>5
  <1>4. ASSUME NEW k \in Arrivals, Skips(k) PROVE KeepsQuiet
    <2>1. /\ Took(k, call.pc, <<>>) /\ UNCHANGED <<link, excuses>> /\ call.pc \in Points
          /\ call.pc \in {"removed", "aborted", "ask"} \cup Preparing
      BY <1>0, <1>4 DEF Skips, Still, CallType, Preparing
    <2>2. CASE call.pc # "ask"
      BY <1>2, <2>1, <2>2, Sends DEF Preparing
    <2>3. CASE call.pc = "ask"
      <3>0. amiss' = {} => amiss = {}
        BY <1>1, <2>1, Sends
      <3> SUFFICES ASSUME amiss' = {}, Quiet PROVE Quiet'
        BY <2>1, <3>0 DEF KeepsQuiet
      <3>1. amiss = {} /\ call'.pc = "ask" /\ Stirs /\ k \in 1 .. Len(session.replies)
        BY <1>1, <2>1, <2>3, Sends
      <3>2. Response(k) \in {"426", "350", "226 ABOR"}
        BY <1>4, <2>3 DEF Skips
      <3>3. link.wire = <<>>
        BY <3>1, StirsQuiet
      <3>4. link.asked # "STOR"
        BY <1>3, <2>3, <3>1, <3>2
      <3> QED
        BY <2>1, <3>1, <3>3, <3>4, CalmQuiet
    <2> QED
      BY <2>2, <2>3
  <1>5. ASSUME NEW k \in Arrivals, Moves(k) PROVE KeepsQuiet
    <2>1. UNCHANGED <<link, excuses>>
      BY <1>5 DEF Moves, Still
    <2>2. CASE call.pc = "confirm" /\ Took(k, "aborted", Abor)
      BY <1>2, <2>1, <2>2, Sends DEF Points, Waiting, Preparing
    <2>3. CASE call.pc = "aborted" /\ Took(k, "seek", <<>>)
      BY <1>2, <2>1, <2>3, Sends DEF Points, Preparing
    <2>4. CASE call.pc = "type" /\ Took(k, "port", << <<"PORT", 0>> >>)
      BY <1>2, <2>1, <2>4, Sends DEF Points, Waiting, Preparing
    <2>5. CASE call.pc = "port" /\ Took(k, "rest", Rest)
      BY <1>2, <2>1, <2>5, Sends DEF Points, Waiting, Preparing
    <2>6. CASE /\ call.pc = "ask" /\ Took(k, "accept", <<>>)
               /\ Response(k) \notin {"425", "450", "550"}
      <3>0. amiss' = {} => amiss = {}
        BY <1>1, <2>6, Sends DEF Points
      <3> SUFFICES ASSUME amiss' = {}, Quiet PROVE Quiet'
        BY <2>1, <3>0 DEF KeepsQuiet
      <3>1. /\ amiss = {} /\ call'.pc = "accept" /\ Stirs /\ k \in 1 .. Len(session.replies)
            /\ session'.cmds = session.cmds \o <<>>
            /\ session'.replies = SubSeq(session.replies, k + 1, Len(session.replies))
        BY <1>1, <2>6, Sends DEF Points
      <3>2. link.wire = <<>>
        BY <3>1, StirsQuiet
      <3>3. CASE link.asked # "STOR"
        BY <2>1, <3>1, <3>2, <3>3, CalmQuiet
      <3>4. CASE link.asked = "STOR"
        <4>1. session.cmds = <<>> /\ link.use = "STOR" /\ k = Len(session.replies)
          BY <1>3, <2>6, <3>1, <3>4
        <4>2. session'.cmds = <<>>
          BY <3>1, <4>1
        <4>3. session'.replies = <<>>
          <5>1. session.replies \in Seq(Codes)
            BY Fields
          <5> QED
            BY <3>1, <4>1, <5>1
        <4> QED
          BY <2>1, <3>1, <3>2, <4>1, <4>2, <4>3
          DEF Quiet, QuietWire, QuietUpload, QuietAnswer
      <3> QED
        BY <3>3, <3>4
    <2> QED
      BY <1>5, <2>2, <2>3, <2>4, <2>5, <2>6 DEF Moves
  <1>6. ASSUME NEW k \in Arrivals, Removes(k) PROVE KeepsQuiet
    <2>1. /\ call.pc = "removed" /\ Took(k, "begin", <<>>) /\ UNCHANGED <<link, excuses>>
      BY <1>6 DEF Removes, Still
    <2> QED
      BY <1>2, <2>1, Sends DEF Points, Preparing
  <1>7. ASSUME NEW k \in Arrivals, FallsBack(k) PROVE KeepsQuiet
    <2>1. Took(k, "pasv", << <<"PASV", 0>> >>) /\ UNCHANGED <<link, excuses>>
      BY <1>7 DEF FallsBack, Still
    <2> QED
      BY <1>2, <2>1, Sends DEF Points, Waiting, Preparing
  <1>8. ASSUME NEW k \in Arrivals, Connects(k) PROVE KeepsQuiet
    <2>1. /\ Took(k, "rest", Rest) /\ excuses' = excuses
          /\ link' = [link EXCEPT !.use = "idle"]
      BY <1>8 DEF Connects, Still
    <2>2. link'.wire = link.wire /\ link'.asked = link.asked
      BY <1>0, <2>1 DEF LinkType
    <2> QED
      BY <1>2, <2>1, <2>2, Sends DEF Points, Waiting, Preparing
  <1>9. ASSUME NEW k \in Arrivals, Asks(k) PROVE KeepsQuiet
    <2> DEFINE c == << <<Wanted, 0>> >>
    <2>1. /\ Took(k, "ask", c) /\ excuses' = excuses
          /\ link' = [link EXCEPT !.asked = Wanted]
      BY <1>9 DEF Asks, Still
    <2>2. Sent(c) /\ c \notin {<<>>, Abor}
      BY Sends, OtherThanAbor, Zero DEF Wanted, Verbs
    <2>3. link'.wire = link.wire
      BY <1>0, <2>1 DEF LinkType
    <2> HIDE DEF c
    <2>0. amiss' = {} => amiss = {}
      BY <1>1, <2>1, <2>2 DEF Points, Waiting
    <2> SUFFICES ASSUME amiss' = {}, Quiet PROVE Quiet'
      BY <2>0, <2>1 DEF KeepsQuiet
    <2>4. /\ amiss = {} /\ call'.pc = "ask" /\ Stirs /\ k \in 1 .. Len(session.replies)
          /\ ~Owes(k) /\ session'.xfer = session.xfer
          /\ session'.cmds = session.cmds \o c
          /\ session'.replies = SubSeq(session.replies, k + 1, Len(session.replies))
      BY <1>1, <2>1, <2>2 DEF Points, Waiting
    <2>5. session.cmds = <<>> /\ session.xfer = "none" /\ k = Len(session.replies)
      BY <2>4, NothingOwed
    <2>6. session'.replies = <<>>
      <3>1. session.replies \in Seq(Codes)
        BY Fields
      <3> QED
        BY <2>4, <2>5, <3>1
    <2>7. session'.cmds = c
      <3>1. <<>> \o c = c
        BY DEF c
      <3> QED
        BY <2>4, <2>5, <3>1
    <2>8. link.wire = <<>>
      BY <2>4, StirsQuiet
    <2>9. CASE link'.asked # "STOR"
      BY <2>3, <2>4, <2>8, <2>9, CalmQuiet
    <2>10. CASE link'.asked = "STOR"
      <3>1. Wanted = "STOR"
        BY <1>0, <2>1, <2>10 DEF LinkType
      <3>2. c = << <<"STOR", 0>> >>
        BY <3>1 DEF c
      <3>3. QuietWire' /\ QuietUpload'
        BY <2>3, <2>4, <2>8 DEF QuietWire, QuietUpload
      <3>4. QuietAnswer'
        BY <2>4, <2>5, <2>6, <2>7, <3>2, Zenon DEF QuietAnswer
      <3> QED
        BY <2>4, <3>3, <3>4 DEF Quiet
    <2> QED
      BY <2>4, <2>9, <2>10
  <1>10. ASSUME NEW k \in Arrivals, AsksAgain(k) PROVE KeepsQuiet
    <2>1. /\ call' = [call EXCEPT !.pc = "type", !.tries = 0, !.retry = TRUE]
          /\ k > 0 /\ UNCHANGED <<link, excuses>> /\ amiss \subseteq amiss'
      BY <1>10 DEF AsksAgain, Still, Amiss
    <2>2. call'.pc = "type"
      BY <1>0, <2>1 DEF CallType
    <2>3. Stirs
      BY <1>0, <2>1, ArrivalsAre DEF Arrivals, Stirs
    <2>4. Quiet => Quiet'
      BY <2>1, <2>2, <2>3, StirsQuiet, CalmQuiet DEF Preparing
    <2> QED
      BY <2>1, <2>4 DEF KeepsQuiet
  <1>11. ASSUME NEW k \in Arrivals, Suspends(k) PROVE KeepsQuiet
    <2>1. /\ call.pc = "suspend" /\ Took(k, IF call.left > 0 THEN "begin" ELSE "idle", <<>>)
          /\ UNCHANGED <<link, excuses>>
      BY <1>11 DEF Suspends, Still
    <2>2. (IF call.left > 0 THEN "begin" ELSE "idle") \in Points
      BY DEF Points
    <2> QED
      BY <1>2, <2>1, <2>2, Sends DEF Preparing
  <1>12. ASSUME FileResetOnError PROVE KeepsQuiet
    BY <1>12, ClientQuiet DEF ClientSteps
  <1> QED
    BY <1>4, <1>5, <1>6, <1>7, <1>8, <1>9, <1>10, <1>11, <1>12 DEF TakesReplies

\* The steps of the server.
LEMMA ServerQuiet ==
    ASSUME Types, Types', Protocol, ServerSteps
    PROVE  KeepsQuiet
  <1>0. session \in SessionType /\ link \in LinkType
    BY DEF Types
  \* A command that is handled is the STOR that was asked for, or there is no
  \* upload to disturb.
  <1>1. ASSUME Quiet, session.cmds # <<>>, link.asked = "STOR"
        PROVE  \/ call.pc \in Preparing
               \/ /\ call.pc = "ask" /\ session.cmds = << <<"STOR", 0>> >>
                  /\ session.cmds[1][1] = "STOR" /\ session.replies = <<>>
    <2>1. call.pc \in Preparing \cup {"ask"}
      BY <1>1, StirsQuiet DEF Stirs
    <2>2. call.pc = "ask" => session.cmds = << <<"STOR", 0>> >> /\ session.replies = <<>>
      BY <1>1, Zenon DEF Quiet, QuietAnswer
    <2> QED
      BY <2>1, <2>2
  <1>2. ASSUME session.cmds # <<>>, session.cmds[1][1] # "STOR",
               link'.asked = link.asked, link'.wire \in {link.wire, <<>>},
               excuses' = excuses \cup Lost(link.wire) \/ excuses' = excuses,
               UNCHANGED <<call, amiss>>
        PROVE  KeepsQuiet
    <2> SUFFICES ASSUME Quiet PROVE Quiet' /\ excuses' = excuses
      BY <1>2 DEF KeepsQuiet
    <2>1. link.wire = <<>>
      BY <1>2, StirsQuiet DEF Stirs
    <2>2. excuses' = excuses
      BY <1>2, <2>1 DEF Lost
    <2> QED
      BY <1>1, <1>2, <2>1, <2>2, CalmQuiet
  <1>3. ASSUME HandleSimple PROVE KeepsQuiet
    <2>1. /\ \E v \in {"TYPE", "PORT", "PASV", "REST"}, c \in Codes : Handles(v, <<c>>)
          /\ UNCHANGED <<call, link, excuses, amiss>>
      BY <1>0, <1>3, SimpleEffect DEF HandleSimple
    <2>2. session.cmds # <<>> /\ session.cmds[1][1] # "STOR"
      BY <1>0, <2>1 DEF Handles, SessionType
    <2> QED
      BY <1>2, <2>1, <2>2
  <1>4. ASSUME HandleDele PROVE KeepsQuiet
    <2>1. /\ \E c \in {"250", "550"} : Handles("DELE", <<c>>)
          /\ UNCHANGED <<call, link, excuses, amiss>>
      BY <1>0, <1>4, DeleEffect
    <2>2. session.cmds # <<>> /\ session.cmds[1][1] # "STOR"
      BY <1>0, <2>1 DEF Handles, SessionType
    <2> QED
      BY <1>2, <2>1, <2>2
  <1>5. ASSUME HandleAbor PROVE KeepsQuiet
    <2>1. /\ link' = [link EXCEPT !.wire = <<>>]
          /\ excuses' = excuses \cup Lost(link.wire)
          /\ UNCHANGED <<call, amiss>>
      BY <1>5, AborEffect
    <2>2. session.cmds # <<>> /\ session.cmds[1][1] # "STOR"
      <3>1. session.cmds # <<>> /\ Head(session.cmds)[1] = "ABOR"
        BY <1>5, Zenon DEF HandleAbor, Handles
      <3>2. Head(session.cmds) = session.cmds[1]
        BY <3>1, Fields, Tailed
      <3> QED
        BY <3>1, <3>2
    <2>3. link'.wire = <<>> /\ link'.asked = link.asked
      BY <1>0, <2>1 DEF LinkType
    <2> QED
      BY <1>2, <2>1, <2>2, <2>3
  <1>6. ASSUME NEW v \in Transfers, HandleTransfer(v) PROVE KeepsQuiet
    <2>1. /\ session.cmds # <<>> /\ session.cmds[1][1] = v
          /\ Begins(v) \/ \E reply \in {"425", "550"} : Refuses(reply)
          /\ UNCHANGED <<call, amiss>>
      BY <1>0, <1>6, TransferEffect
    <2>2. /\ link'.asked = link.asked /\ link'.wire \in {link.wire, <<>>}
          /\ excuses' = excuses \cup Lost(link.wire) \/ excuses' = excuses
      <3>1. CASE Begins(v)
        BY <1>0, <3>1 DEF Begins, LinkType
      <3>2. ASSUME NEW reply \in {"425", "550"}, Refuses(reply)
            PROVE  /\ link'.asked = link.asked /\ link'.wire \in {link.wire, <<>>}
                   /\ excuses' = excuses \cup Lost(link.wire)
        BY <1>0, <3>2 DEF Refuses, LinkType, Excuse
      <3> QED
        BY <2>1, <3>1, <3>2
    <2>3. CASE v # "STOR"
      BY <1>2, <2>1, <2>2, <2>3
    <2>4. CASE v = "STOR"
      <3> SUFFICES ASSUME Quiet PROVE Quiet' /\ excuses' = excuses
        BY <2>1 DEF KeepsQuiet
      <3>1. link.wire = <<>> /\ link'.wire = <<>> /\ excuses' = excuses
        <4>1. link.wire = <<>>
          BY <2>1, StirsQuiet DEF Stirs
        <4> QED
          BY <2>2, <4>1 DEF Lost
      <3>2. CASE link.asked # "STOR" \/ call.pc \in Preparing
        BY <2>1, <2>2, <3>1, <3>2, CalmQuiet
      <3>3. CASE link.asked = "STOR" /\ call.pc \notin Preparing
        <4>1. /\ call.pc = "ask" /\ session.cmds = << <<"STOR", 0>> >>
              /\ session.replies = <<>>
          BY <1>1, <2>1, <3>3
        <4>2. /\ Tail(<< <<"STOR", 0>> >>) = <<>>
              /\ Append(<<>>, "150") = <<"150">>
              /\ Append(<<>>, "425") = <<"425">> /\ Append(<<>>, "550") = <<"550">>
          OBVIOUS
        <4>3. CASE Begins(v)
          <5>1. /\ session' = [session EXCEPT !.cmds = Tail(@), !.replies = Append(@, "150"),
                                              !.xfer = v, !.rest = 0]
                /\ link' = [link EXCEPT !.use = v, !.at = session.rest, !.old = {}]
            BY <4>3 DEF Begins
          <5>2. /\ session'.cmds = Tail(session.cmds) /\ link'.use = v
                /\ session'.replies = Append(session.replies, "150")
            BY <1>0, <5>1 DEF SessionType, LinkType
          <5>3. session'.cmds = <<>> /\ session'.replies = <<"150">> /\ link'.use = "STOR"
            BY <2>4, <4>1, <4>2, <5>2, Zenon
          <5>4. QuietAnswer'
            BY <5>3, Zenon DEF QuietAnswer
          <5> QED
            BY <2>1, <3>1, <4>1, <5>4 DEF Quiet, QuietWire, QuietUpload
        <4>4. ASSUME NEW reply \in {"425", "550"}, Refuses(reply) PROVE Quiet'
          <5>1. session' = [session EXCEPT !.cmds = Tail(@), !.replies = Append(@, reply),
                                           !.rest = 0]
            BY <4>4 DEF Refuses
          <5>2. /\ session'.cmds = Tail(session.cmds) /\ session'.xfer = session.xfer
                /\ session'.replies = Append(session.replies, reply)
            BY <1>0, <5>1 DEF SessionType
          <5>3. session'.cmds = <<>> /\ session.xfer = "none"
                /\ (session'.replies = <<"425">> \/ session'.replies = <<"550">>)
            <6>1. session.xfer = "none"
              BY <1>0, <1>6, TransferEffect
            <6>2. reply = "425" \/ reply = "550"
              BY <4>4
            <6> QED
              BY <4>1, <4>2, <5>2, <6>1, <6>2, Zenon
          <5>4. QuietAnswer'
            BY <5>2, <5>3, Zenon DEF QuietAnswer
          <5> QED
            BY <2>1, <3>1, <4>1, <5>4 DEF Quiet, QuietWire, QuietUpload
        <4> QED
          BY <2>1, <3>1, <4>3, <4>4
      <3> QED
        BY <3>2, <3>3
    <2> QED
      BY <2>3, <2>4
  <1>7. ASSUME Store PROVE KeepsQuiet
    <2>1. /\ link.wire # <<>> /\ link' = [link EXCEPT !.at = @ + 1, !.wire = Tail(@)]
          /\ UNCHANGED <<file, call, session, excuses, amiss>>
      BY <1>7 DEF Store
    <2>2. link'.use = link.use /\ link'.asked = link.asked
      BY <1>0, <2>1 DEF LinkType
    <2> QED
      BY <2>1, <2>2, AsideQuiet DEF Aside
  <1>8. ASSUME EndTransfer PROVE KeepsQuiet
    <2> SUFFICES ASSUME Quiet PROVE Quiet'
      BY <1>8 DEF KeepsQuiet, EndTransfer
    <2>1. /\ \/ session.xfer = "RETR"
             \/ session.xfer = "STOR" /\ link.use # "STOR" /\ link.wire = <<>>
          /\ UNCHANGED <<call, link>>
      BY <1>8 DEF EndTransfer
    <2>2. link.use # "STOR" /\ session.xfer # "none"
      BY <2>1 DEF LinkInv, Protocol
    <2>3. link.wire = <<>>
      BY <2>1 DEF Quiet, QuietWire
    <2>4. link.asked # "STOR" \/ call.pc \in Preparing
      <3>1. link.asked = "STOR" => call.pc \in Preparing \cup {"ask"}
        BY <2>2 DEF Quiet, QuietUpload
      <3>2. ~(link.asked = "STOR" /\ call.pc = "ask")
        BY <2>2, Zenon DEF Quiet, QuietAnswer
      <3> QED
        BY <3>1, <3>2
    <2> QED
      BY <2>1, <2>3, <2>4, CalmQuiet
  <1> QED
    BY <1>3, <1>4, <1>5, <1>6, <1>7, <1>8 DEF ServerSteps

\* The data.
LEMMA DataQuiet ==
    ASSUME Types, Types', CallInv, Dense, Protocol, NEW m \in 1 .. MaxSize,
           Received(m) \/ SendData(m)
    PROVE  KeepsQuiet
  <1>0. file \in FileType /\ link \in LinkType
    BY DEF Types
  <1>1. CASE Received(m)
    <2>1. /\ file.data /\ file' = [file EXCEPT !.pos = file.pos + m]
          /\ link' = [link EXCEPT !.at = link.at + m]
          /\ call.pc \in {"seek", "transfer"} /\ (call' = call \/ call'.pc = call.pc)
          /\ UNCHANGED <<session, amiss>>
          /\ excuses' = excuses \/ excuses' = excuses \cup {"overtaken"}
      BY <1>1, ReceivedTypes
    <2>2. /\ link'.use = link.use /\ link'.asked = link.asked /\ link'.wire = link.wire
          /\ file'.data
      BY <1>0, <2>1 DEF FileType, LinkType
    <2> QED
      BY <2>1, <2>2, AsideQuiet DEF Aside
  <1>2. CASE SendData(m)
    <2>1. /\ call.pc = "transfer" /\ call' = NoCall
          /\ file' = [file EXCEPT !.pos = file.pos + m,
                                  !.size = Greater(file.size, file.pos + m)]
          /\ link' = [link EXCEPT !.wire = AgedWire(New(m)) \o Onto(m)]
          /\ UNCHANGED <<session, amiss>>
          /\ Len(link'.wire) = Len(link.wire) + Len(Onto(m))
          /\ Onto(m) # <<>> => link.asked = "STOR"
      BY <1>2, SentTypes
    <2>6. "lost" \in excuses' => "lost" \in excuses \/ (link.asked # "RETR" /\ ~Uploads)
      <3>1. excuses' = excuses \cup
              ((IF link.asked = "RETR" THEN {"crossed"} ELSE IF Uploads THEN {} ELSE {"lost"})
               \cup (IF \E i \in New(m) : rival[i] # "none" THEN {"overtaken"} ELSE {}))
        BY <1>2, SentTypes
      <3> QED
        BY <3>1
    <2>2. /\ link'.use = link.use /\ link'.asked = link.asked
          /\ file'.data = file.data /\ file.data /\ call'.pc = "idle"
      BY <1>0, <2>1 DEF FileType, LinkType, CallInv, NoCall
    <2>3. link.asked \in {"RETR", "STOR"}
      <3>1. link.asked \in {"none"} \cup Transfers
        BY <1>0 DEF LinkType
      <3> QED
        BY <2>1, <2>2, <3>1 DEF LinkInv, Protocol, Transfers
    <2>4. CASE link.asked = "RETR"
      <3>1. link'.wire # <<>> => link.wire # <<>>
        <4>1. Len(Onto(m)) = 0
          BY <2>1, <2>4
        <4> QED
          BY <2>1, <4>1, Queues, QueuesNext
      <3> QED
        BY <2>1, <2>2, <2>4, <2>6, <3>1, AsideQuiet DEF Aside, Preparing
    <2>5. CASE link.asked = "STOR"
      <3> SUFFICES ASSUME Quiet PROVE Quiet' /\ ("lost" \in excuses' => "lost" \in excuses)
        BY <2>1 DEF KeepsQuiet
      <3>1. link.use = "STOR" /\ session.cmds = <<>> /\ session.replies = <<>>
        BY <2>1, <2>5 DEF Quiet, QuietUpload, Preparing
      <3>2. session.xfer = "STOR"
        BY <3>1 DEF LinkInv, Protocol
      <3> QED
        BY <2>1, <2>2, <2>6, <3>1, <3>2
        DEF Quiet, QuietWire, QuietUpload, QuietAnswer, Uploads
    <2> QED
      BY <2>3, <2>4, <2>5
  <1> QED
    BY <1>1, <1>2

\* The other handle.
LEMMA OthersQuiet ==
    ASSUME Types, Types', NEW i \in Places, OtherWrites(i) \/ OtherStores(i)
    PROVE  KeepsQuiet
  <1>0. link \in LinkType
    BY DEF Types
  <1>1. CASE OtherWrites(i)
    <2>1. /\ link' = [link EXCEPT !.wire = AgedWire({i})]
          /\ UNCHANGED <<file, call, session, amiss>>
          /\ "lost" \in excuses' => "lost" \in excuses
      BY <1>1 DEF OtherWrites, Excuse
    <2>2. /\ link'.use = link.use /\ link'.asked = link.asked /\ link'.wire = AgedWire({i})
      BY <1>0, <2>1 DEF LinkType
    <2>3. link'.wire # <<>> => link.wire # <<>>
      BY <2>2, AgedWireIs, Fields, Queues, QueuesNext
    <2> QED
      BY <2>1, <2>2, <2>3, AsideQuiet DEF Aside
  <1>2. CASE OtherStores(i)
    <2>1. /\ link' = IF link.use = "RETR" THEN [link EXCEPT !.old = @ \cup {i}] ELSE link
          /\ UNCHANGED <<file, call, session, excuses, amiss>>
      BY <1>2 DEF OtherStores
    <2>2. link'.use = link.use /\ link'.asked = link.asked /\ link'.wire = link.wire
      BY <1>0, <2>1 DEF LinkType
    <2> QED
      BY <2>1, <2>2, AsideQuiet DEF Aside
  <1> QED
    BY <1>1, <1>2

\* Every step.
LEMMA QuietStep ==
    ASSUME Types, Types', CallInv, Dense, Protocol, [Next]_vars
    PROVE  KeepsQuiet
  <1>1. CASE UNCHANGED vars
    BY <1>1, AsideQuiet DEF Aside, vars
  <1>2. CASE Next
    <2>1. session \in SessionType
      BY DEF Types
    <2>2. ASSUME NEW p \in Places, NEW n \in 1 .. MaxSize, ReadFile(p, n) \/ WriteFile(p, n)
          PROVE  KeepsQuiet
      <3>1. /\ call.pc = "idle" /\ UNCHANGED <<file, session, link, excuses, amiss>>
        BY <2>2 DEF ReadFile, WriteFile
      <3>2. call'.pc \in {"idle", "seek", "remove", "begin"}
        <4>1. CASE ReadFile(p, n)
          BY <4>1, ReadFileTypes
        <4>2. CASE WriteFile(p, n)
          BY <4>2, WriteFileTypes DEF NoCall
        <4> QED
          BY <2>2, <4>1, <4>2
      <3> QED
        BY <3>1, <3>2, AsideQuiet DEF Aside, Preparing
    <2>3. ASSUME ClientSteps PROVE KeepsQuiet
      BY <2>3, ClientQuiet
    <2>4. ASSUME NEW m \in 1 .. MaxSize, Received(m) \/ SendData(m) PROVE KeepsQuiet
      BY <2>4, DataQuiet
    <2>5. ASSUME TakesReplies PROVE KeepsQuiet
      BY <2>5, RepliesQuiet
    <2>6. ASSUME ServerSteps PROVE KeepsQuiet
      BY <2>6, ServerQuiet
    <2>7. ASSUME NEW i \in Places, OtherWrites(i) \/ OtherStores(i) PROVE KeepsQuiet
      BY <2>7, OthersQuiet
    <2> QED
      BY <1>2, <2>1, <2>2, <2>3, <2>4, <2>5, <2>6, <2>7, StepCases
  <1> QED
    BY <1>1, <1>2

\* Nothing is under way at the start.
LEMMA InitQuiet ==
    ASSUME Init
    PROVE  QuietInv /\ NothingLostQuietly
  <1>1. link.wire = <<>> /\ link.asked = "none" /\ excuses = {}
    BY DEF Init, NoLink
  <1> QED
    BY <1>1 DEF QuietInv, Quiet, QuietWire, QuietUpload, QuietAnswer, NothingLostQuietly

----------------------------------------------------------------------------
\* The inductive invariant.
IInv ==
    /\ Types /\ CallInv /\ Dense /\ Protocol
    /\ LatestInv /\ QuietInv /\ NothingLostQuietly

\* It holds at the start,
LEMMA InitIInv == Init => IInv
  BY InitTypes, InitCall, InitDense, InitProtocol, InitLatest, InitQuiet DEF IInv

\* and every step keeps it.
LEMMA NextIInv == IInv /\ [Next]_vars => IInv'
  <1> SUFFICES ASSUME IInv, [Next]_vars
               PROVE  IInv'
    OBVIOUS
  <1>1. /\ Types /\ CallInv /\ Dense /\ Protocol
        /\ LatestInv /\ QuietInv /\ NothingLostQuietly
    BY DEF IInv
  <1>2. Types'
    BY <1>1, TypeStep
  <1>3. CallInv' /\ Dense'
    BY <1>1, CallStep, DenseStep
  <1>4. Protocol'
    BY <1>1, <1>2, ProtocolStep
  <1>5. LatestInv'
    BY <1>1, <1>2, LatestStep
  <1>6. KeepsQuiet
    BY <1>1, <1>2, QuietStep
  <1>7. QuietInv' /\ NothingLostQuietly'
    BY <1>1, <1>6 DEF KeepsQuiet, QuietInv, NothingLostQuietly
  <1> QED
    BY <1>2, <1>3, <1>4, <1>5, <1>7 DEF IInv

\* It holds in every state of every behaviour.
THEOREM Invariance == Spec => []IInv
  BY InitIInv, NextIInv, PTL DEF Spec

\* Whatever the calls, the server and the other handle do, the state of a file
\* and of its connections is well formed: the position of FtpFile and the place
\* of the server stay within the largest size, and no more is under way to the
\* server than that.
THEOREM TypeCorrect == Spec => []TRTypeOK
  <1>1. IInv => TRTypeOK
    <2> SUFFICES ASSUME Types, WireInv PROVE TRTypeOK
      BY DEF IInv, Protocol
    <2>1. session.xfer \in {"none", "RETR", "STOR"} /\ session.rest \in 0 .. MaxSize
      BY DEF Types, SessionType, Transfers
    <2>2. /\ link.use \in {"none", "idle", "RETR", "STOR"}
          /\ link.asked \in {"none", "RETR", "STOR"}
          /\ link.at \in 0 .. MaxSize /\ Len(link.wire) <= MaxSize /\ link.old \subseteq Places
      BY DEF Types, LinkType, Transfers, WireInv
    <2>3. call \in [pc : Waiting \cup {"idle", "remove", "begin", "seek",
                                    "ensure", "accept", "transfer"},
                    write : BOOLEAN, target : 0 .. MaxSize, left : 0 .. MaxSize,
                    tries : 0 .. 3, retry : BOOLEAN,
                    got : SUBSET {"latest", "stale", "hole", "kept"}]
      BY DEF Types, CallType, Points, Given
    <2> QED
      BY <2>1, <2>2, <2>3 DEF TRTypeOK, Types, FileType, Contents, Cached
  <1> QED
    BY <1>1, Invariance, PTL

\* SetFilePointer and AskFileContent leave the server where the position of
\* the file is, and ReceiveData and SendData keep it there.
THEOREM StreamsAtPos == Spec => []StreamAtPos
  <1>1. IInv => StreamAtPos
    BY DEF IInv, Protocol, LinkInv, StreamAtPos, Transfers
  <1> QED
    BY <1>1, Invariance, PTL

\* xxxReadFile returns the bytes last given, as long as nothing happened that
\* the excuses name.
THEOREM ReadsAreLatest == Spec => []ReadsLatest
  <1>1. IInv => ReadsLatest
    BY DEF IInv, LatestInv, ReadsLatest
  <1> QED
    BY <1>1, Invariance, PTL

\* What xxxWriteFile has sent gets to the server as long as replies come in
\* time, no call fails and none is paired with another command.
THEOREM LosesNothingQuietly == Spec => []NothingLostQuietly
  <1>1. IInv => NothingLostQuietly
    BY DEF IInv
  <1> QED
    BY <1>1, Invariance, PTL

\* The loops of RecvResponse, OpenDataConnection and SetFilePointer come to an
\* end: every step but those of the other handle brings a call nearer to its end.
THEOREM CallsAdvance == Spec => CallAdvances
  <1>1. IInv /\ [Next]_vars =>
          [call.pc # "idle" =>
             LET phase == Phase IN
             \/ Phase' < phase
             \/ Phase' = phase /\ (Work' < Work \/ (Work' = Work /\ Others))]_vars
    <2> SUFFICES ASSUME IInv, Next, call.pc # "idle"
                 PROVE  Advances
      BY DEF Advances
    <2> QED
      BY StepAdvances DEF IInv
  <1> QED
    BY <1>1, Invariance, PTL DEF Spec, CallAdvances
=============================================================================
