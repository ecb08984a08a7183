--------------------------- MODULE ConnectionPool ---------------------------
(***************************************************************************)
(* The pool of control connections (FtpFS/FtpWorks/handles.cpp).  The      *)
(* threads' steps are named after the file they work for, as one thread at *)
(* a time does; conns_cs makes an access to conns_map one step, files_cs   *)
(* is a variable since a thread that suspends files takes conns_cs for     *)
(* each of them.  Network calls run outside both.                          *)
(***************************************************************************)
EXTENDS Naturals, FiniteSets

CONSTANTS Files, Conns,
          Keys, Hosts,  \* connection settings; server addresses
          KeyOf,        \* FtpFile's ip, port, user, pass, smode and enc
          HostOf,       \* ip and port of a key
          ConLim,       \* FtpFile::conlim of a key, 0 for no limit
          Tries,        \* rounds of OpenFtpConnectionCached (20)
          MaxConnects,  \* bound on connection requests, so on connections
          NoConn, NoOne, Cleaner

ASSUME ConnectionPoolAssumption ==
    /\ IsFiniteSet(Conns) /\ NoConn \notin Conns
    /\ Keys # {} /\ KeyOf \in [Files -> Keys]
    /\ HostOf \in [Keys -> Hosts]
    /\ ConLim \in [Keys -> Nat]
    /\ Tries \in Nat \ {0} /\ MaxConnects \in Nat
    /\ NoOne \notin Files /\ Cleaner \notin Files \cup {NoOne}
    /\ Files \cap {"free", "closed"} = {}

VARIABLES connsMap,  \* the connections in conns_map
          key,       \* their settings
          busy,      \* those marked busy
          expired,   \* those whose time is over
          filesCs,   \* who holds files_cs to suspend files, or NoOne
          at,        \* where the thread that works for a file is
          unlocked,  \* files in the MKD of xxxOpenFile, which has no FileLocker
          scCmd,     \* FtpFile::sc_cmd, or NoConn
          found, dels, out, count,  \* foundvector, delvector, out, connscount
          round,     \* the i of OpenFtpConnectionCached
          connects   \* connection requests so far

pool  == <<connsMap, key, busy, expired>>
local == <<found, dels, out, count, round>>
vars  == <<pool, filesCs, at, unlocked, scCmd, local, connects>>

CPTypeOK ==
    /\ connsMap \subseteq Conns
    /\ key \in [Conns -> Keys]
    /\ busy \subseteq connsMap /\ expired \subseteq connsMap
    /\ filesCs \in Files \cup {Cleaner, NoOne}
    /\ at \in [Files -> {"idle", "work", "release", "lookup", "check", "login", "suspend"}]
    /\ unlocked \subseteq Files
    /\ scCmd \in [Files -> Conns \cup {NoConn}]
    /\ found \in [Files -> SUBSET Conns]
    /\ dels \in [Files -> SUBSET Conns]
    /\ out \in [Files -> Conns \cup {NoConn}]
    /\ count \in [Files -> Nat]
    /\ round \in [Files -> 0 .. Tries]
    /\ connects \in 0 .. MaxConnects

Init ==
    /\ connsMap = {} /\ busy = {} /\ expired = {}
    /\ key \in [Conns -> {CHOOSE k \in Keys : TRUE}]
    /\ filesCs = NoOne
    /\ at = [f \in Files |-> "idle"]
    /\ unlocked = {}
    /\ scCmd = [f \in Files |-> NoConn]
    /\ found = [f \in Files |-> {}]
    /\ dels = [f \in Files |-> {}]
    /\ out = [f \in Files |-> NoConn]
    /\ count = [f \in Files |-> 0]
    /\ round = [f \in Files |-> 0]
    /\ connects = 0

----------------------------------------------------------------------------
\* An action named A_Slip is A with a slip the checks must notice; it is no
\* part of the specification.
Goto(f, place) == at' = [at EXCEPT ![f] = place]

Erase(S) ==
    /\ connsMap' = connsMap \ S
    /\ busy' = busy \ S
    /\ expired' = expired \ S

\* The connections a thread has in its hands: found, chosen, failed, in use;
\* its delvector also has connections with other settings, which it only saw.
Claims(f) ==
    found[f] \cup {c \in dels[f] : key[c] = KeyOf[f]} \cup ({out[f], scCmd[f]} \ {NoConn})

\* An operation begins with FileLocker and ends with ~FileLocker; MKD on a new
\* file has neither, but nor has it a file that could have a connection yet.
Begin(f) ==
    /\ at[f] = "idle"
    /\ \/ filesCs = NoOne /\ UNCHANGED unlocked
       \/ scCmd[f] = NoConn /\ unlocked' = unlocked \cup {f}
    /\ Goto(f, "work")
    /\ UNCHANGED <<pool, filesCs, scCmd, local, connects>>

End(f) ==
    /\ at[f] = "work"
    /\ filesCs = NoOne \/ f \in unlocked
    /\ unlocked' = unlocked \ {f}
    /\ Goto(f, "idle")
    /\ UNCHANGED <<pool, filesCs, scCmd, local, connects>>

\* EnsureCommandConnection of a file without a connection.
Connect(f) ==
    /\ at[f] = "work" /\ scCmd[f] = NoConn
    /\ connects < MaxConnects
    /\ connects' = connects + 1
    /\ Goto(f, "lookup")
    /\ UNCHANGED <<pool, filesCs, unlocked, scCmd, local>>

Matching(f) == {c \in connsMap : key[c] = KeyOf[f]}

LookupMatchedConnectionsInCache_TakesBusy(f) ==
    /\ at[f] = "lookup"
    /\ found' = [found EXCEPT ![f] = Matching(f)]
    /\ busy' = busy \cup Matching(f)
    /\ count' = [count EXCEPT ![f] = Cardinality(Matching(f) \cap busy)]
    /\ dels' = [dels EXCEPT ![f] = (expired \ Matching(f)) \ busy]
    /\ round' = [round EXCEPT ![f] = @ + 1]
    /\ Goto(f, "check")
    /\ UNCHANGED <<connsMap, key, expired, filesCs, unlocked, scCmd, out, connects>>

LookupMatchedConnectionsInCache(f) ==
    /\ at[f] = "lookup"
    /\ found' = [found EXCEPT ![f] = Matching(f) \ busy]
    /\ busy' = busy \cup Matching(f)
    /\ count' = [count EXCEPT ![f] = Cardinality(Matching(f) \cap busy)]
    /\ dels' = [dels EXCEPT ![f] = (expired \ Matching(f)) \ busy]
    /\ round' = [round EXCEPT ![f] = @ + 1]
    /\ Goto(f, "check")
    /\ UNCHANGED <<connsMap, key, expired, filesCs, unlocked, scCmd, out, connects>>

\* One pass of the loop over foundvector: the rest of the found connections
\* are put back when there is one already, else c is tried with a NOOP.  The
\* map may have changed during the NOOP.
PutBack_StaysBusy(f, c) ==
    /\ at[f] = "check" /\ c \in found[f] /\ out[f] # NoConn
    /\ found' = [found EXCEPT ![f] = @ \ {c}]
    /\ UNCHANGED <<pool, filesCs, at, unlocked, scCmd, dels, out, count, round, connects>>

PutBack(f, c) ==
    /\ at[f] = "check" /\ c \in found[f] /\ out[f] # NoConn
    /\ found' = [found EXCEPT ![f] = @ \ {c}]
    /\ busy' = busy \ {c}
    /\ UNCHANGED <<connsMap, key, expired, filesCs, at, unlocked, scCmd, dels, out,
                   count, round, connects>>

CheckByNoop(f, c) ==
    /\ at[f] = "check" /\ c \in found[f] /\ out[f] = NoConn
    /\ found' = [found EXCEPT ![f] = @ \ {c}]
    /\ \/ /\ c \in connsMap
          /\ busy' = busy \cup {c} /\ expired' = expired \ {c}
          /\ out' = [out EXCEPT ![f] = c]
          /\ UNCHANGED dels
       \/ /\ c \notin connsMap
          /\ UNCHANGED <<busy, expired, out, dels>>
       \/ /\ dels' = [dels EXCEPT ![f] = @ \cup {c}]
          /\ UNCHANGED <<busy, expired, out>>
    /\ UNCHANGED <<connsMap, key, filesCs, at, unlocked, scCmd, count, round, connects>>

\* DeleteConnectionsFromCache at the end of a round, and where the thread
\* goes: on with the connection, to another round, to log in, or to suspend
\* files, as there are conlim connections.
WithinLimit(f) == ConLim[KeyOf[f]] = 0 \/ count[f] < ConLim[KeyOf[f]]

DeleteConnectionsFromCache(f) ==
    /\ at[f] = "check" /\ found[f] = {}
    /\ Erase(dels[f])
    /\ dels' = [dels EXCEPT ![f] = {}]
    /\ out' = [out EXCEPT ![f] = NoConn]
    /\ count' = [count EXCEPT ![f] = 0]
    /\ IF out[f] # NoConn
       THEN /\ scCmd' = [scCmd EXCEPT ![f] = out[f]]
            /\ round' = [round EXCEPT ![f] = 0]
            /\ Goto(f, "work")
       ELSE /\ UNCHANGED scCmd
            /\ IF count[f] > 0 /\ round[f] < Tries
               THEN UNCHANGED round /\ Goto(f, "lookup")
               ELSE /\ round' = [round EXCEPT ![f] = 0]
                    /\ Goto(f, IF WithinLimit(f) THEN "login" ELSE "suspend")
    /\ UNCHANGED <<key, filesCs, unlocked, found, connects>>

\* OpenFtpConnectionNew: the login fails, or there is a new connection.
Fresh(c) == c \notin connsMap /\ \A f \in Files : c \notin Claims(f) \cup dels[f]

OpenFtpConnectionNew(f) ==
    /\ at[f] = "login"
    /\ Goto(f, "work")
    /\ \/ UNCHANGED <<pool, scCmd>>
       \/ LET c == CHOOSE c \in Conns : Fresh(c) IN
          /\ c \in Conns /\ Fresh(c)
          /\ connsMap' = connsMap \cup {c}
          /\ key' = [key EXCEPT ![c] = KeyOf[f]]
          /\ busy' = busy \cup {c}
          /\ scCmd' = [scCmd EXCEPT ![f] = c]
          /\ UNCHANGED expired
    /\ UNCHANGED <<filesCs, unlocked, local, connects>>

\* CloseCleanFtpConnectionsCache(file, forced): marks the file's connection as
\* free, if it is in the map, and erases the free ones whose time is over, or
\* all free ones.
CloseCleanFtpConnectionsCache(f, forced) ==
    LET c == scCmd[f]
        idle == (connsMap \ busy) \cup ({c} \cap connsMap)
        gone == IF forced THEN idle ELSE idle \cap (expired \ {c}) IN
    /\ connsMap' = connsMap \ gone
    /\ busy' = busy \ {c}
    /\ expired' = expired \ (gone \cup {c})
    /\ scCmd' = [scCmd EXCEPT ![f] = NoConn]
    /\ UNCHANGED key

\* The end of an enumeration, or an error: the thread needs its connection no
\* more, and gives it back (forced in FileResetOnError).
Release(f) ==
    /\ at[f] = "work" /\ scCmd[f] # NoConn
    /\ Goto(f, "release")
    /\ UNCHANGED <<pool, filesCs, unlocked, scCmd, local, connects>>

Disconnect(f, forced) ==
    /\ at[f] = "release"
    /\ CloseCleanFtpConnectionsCache(f, forced)
    /\ Goto(f, "work")
    /\ UNCHANGED <<filesCs, unlocked, local, connects>>

----------------------------------------------------------------------------
\* SuspendFileIterator: the file has no FileLocker (busy_cnt is zero).
Suspendable(g) == scCmd[g] # NoConn /\ (at[g] = "idle" \/ g \in unlocked)

SuspendFileIterator(g) ==
    /\ CloseCleanFtpConnectionsCache(g, FALSE)
    /\ UNCHANGED <<filesCs, at, unlocked, local, connects>>

SameHost(f) == {g \in Files : HostOf[KeyOf[g]] = HostOf[KeyOf[f]]}

\* ForceSuspendNotActiveFilesForIP of a thread at its server's limit: takes
\* files_cs, suspends file after file, leaves files_cs.
EnterFilesCs_SleepsOnly(f) ==
    /\ at[f] = "suspend"
    /\ Goto(f, "lookup")
    /\ UNCHANGED <<pool, filesCs, unlocked, scCmd, local, connects>>

EnterFilesCs(f) ==
    /\ at[f] = "suspend" /\ filesCs = NoOne
    /\ filesCs' = f
    /\ UNCHANGED <<pool, at, unlocked, scCmd, local, connects>>

ForceSuspend(f, g) ==
    /\ filesCs = f
    /\ g \in SameHost(f) /\ Suspendable(g)
    /\ SuspendFileIterator(g)

ForceSuspended(f) ==
    /\ filesCs = f
    /\ \A g \in SameHost(f) : ~Suspendable(g)
    /\ filesCs' = NoOne
    /\ Goto(f, "lookup")
    /\ UNCHANGED <<pool, unlocked, scCmd, local, connects>>

\* back_clean_thread: SuspendNotActiveFiles, for the files whose time is over,
\* and CloseCleanFtpConnectionsCache(); a closing handle's CloseOurFile is a
\* suspension too.  ForceCleanCaches erases all free connections.
CleanerEnters ==
    /\ filesCs = NoOne
    /\ \E g \in Files : Suspendable(g)
    /\ filesCs' = Cleaner
    /\ UNCHANGED <<pool, at, unlocked, scCmd, local, connects>>

CleanerSuspends_Busy(g) ==
    /\ filesCs = Cleaner /\ scCmd[g] # NoConn
    /\ SuspendFileIterator(g)

CleanerSuspends(g) ==
    /\ filesCs = Cleaner /\ Suspendable(g)
    /\ SuspendFileIterator(g)

CleanerLeaves ==
    /\ filesCs = Cleaner
    /\ filesCs' = NoOne
    /\ UNCHANGED <<pool, at, unlocked, scCmd, local, connects>>

CleanConnections(forced) ==
    /\ LET gone == IF forced THEN connsMap \ busy ELSE expired \ busy IN
       gone # {} /\ Erase(gone)
    /\ UNCHANGED <<key, filesCs, at, unlocked, scCmd, local, connects>>

\* idle_timeout passes.
Expire(c) ==
    /\ c \in connsMap \ expired
    /\ expired' = expired \cup {c}
    /\ UNCHANGED <<connsMap, key, busy, filesCs, at, unlocked, scCmd, local, connects>>

----------------------------------------------------------------------------
OpenFtpConnection(f) ==
    \/ LookupMatchedConnectionsInCache(f)
    \/ \E c \in Conns : PutBack(f, c) \/ CheckByNoop(f, c)
    \/ DeleteConnectionsFromCache(f)
    \/ OpenFtpConnectionNew(f)
    \/ EnterFilesCs(f)
    \/ \E g \in Files : ForceSuspend(f, g)
    \/ ForceSuspended(f)

CleanUp ==
    \/ CleanerEnters \/ CleanerLeaves
    \/ \E g \in Files : CleanerSuspends(g)
    \/ \E forced \in BOOLEAN : CleanConnections(forced)
    \/ \E c \in Conns : Expire(c)

Next ==
    \/ \E f \in Files :
        \/ Begin(f) \/ End(f) \/ Connect(f) \/ Release(f)
        \/ OpenFtpConnection(f)
        \/ \E forced \in BOOLEAN : Disconnect(f, forced)
    \/ CleanUp

Spec == Init /\ [][Next]_vars

\* Network calls time out and operations end (WF), files_cs is left and given
\* to whoever waits for it (SF).  The cleaner need not suspend anything.
Fairness ==
    /\ \A f \in Files :
        /\ WF_vars(OpenFtpConnection(f))
        /\ WF_vars(\E forced \in BOOLEAN : Disconnect(f, forced))
        /\ SF_vars(EnterFilesCs(f))
        /\ SF_vars(End(f))
    /\ WF_vars(CleanerLeaves)

FairSpec == Spec /\ Fairness

----------------------------------------------------------------------------
\* No connection is in the hands of the threads of two files.
ExclusiveUse ==
    \A f, g \in Files : f # g => Claims(f) \cap Claims(g) = {}

\* An entry of the map is busy exactly while a file claims it: a free entry
\* nobody uses, a busy one that nobody gives back would count against conlim
\* for ever.
BusyIsClaimed ==
    \A c \in connsMap : c \in busy <=> \E f \in Files : c \in Claims(f)

\* What makes the two inductive: where a thread has its local variables, and
\* that no connection is in its hands twice.
PlaceOfLocals ==
    \A f \in Files :
        /\ at[f] # "check" => found[f] = {} /\ dels[f] = {} /\ out[f] = NoConn
        /\ at[f] \notin {"idle", "work", "release"} => scCmd[f] = NoConn
        /\ at[f] \notin {"lookup", "check"} => round[f] = 0
        /\ at[f] = "lookup" => round[f] < Tries
        /\ filesCs = f => at[f] = "suspend"

HandsApart ==
    \A f \in Files :
        /\ found[f] \cap dels[f] = {} /\ out[f] \notin found[f]
        /\ \A c \in found[f] : key[c] = KeyOf[f]

CPInv ==
    /\ CPTypeOK
    /\ PlaceOfLocals
    /\ HandsApart
    /\ ExclusiveUse
    /\ BusyIsClaimed

\* The pool implements the lease: the holder of a connection is the file that
\* claims it; a free one is in the map; everything else is closed.
Holder(c) ==
    IF \E f \in Files : c \in Claims(f) THEN CHOOSE f \in Files : c \in Claims(f)
    ELSE IF c \in connsMap THEN "free" ELSE "closed"

Lease == INSTANCE ConnectionLease WITH
    Free <- "free", Closed <- "closed",
    holder <- [c \in Conns |-> Holder(c)],
    using <- {f \in Files : at[f] = "work"} \ unlocked

ImplementsLease == Lease!Spec

\* Unless operations begin for ever, which can starve it, a thread that waits
\* for a connection gets one, or its login fails, also at conlim, when only
\* suspending an idle file makes room, and without the cleaner's help.
WaiterServed ==
    <>[][\A f \in Files : ~Begin(f)]_vars =>
        \A f \in Files : at[f] \in {"lookup", "suspend"} ~> at[f] = "work"

\* A connection in use stays in the map ("map cache changed???!!!").
ClaimedStaysInMap == \A f \in Files : Claims(f) \subseteq connsMap

\* "Connections limit:" of a server's settings.
WithinConLim ==
    \A k \in Keys : ConLim[k] # 0 =>
        Cardinality({c \in connsMap : key[c] = k}) <= ConLim[k]
=============================================================================
