------------------------ MODULE ConnectionPoolProofs ------------------------
(***************************************************************************)
(* For any number of files, connections, settings and limits: no           *)
(* connection is in the hands of two files, an entry is busy exactly while *)
(* a file has it, and the pool implements the lease.                       *)
(***************************************************************************)
EXTENDS ConnectionPool, FiniteSetTheorems, TLAPS

LEMMA NamesApart ==
    /\ \A f \in Files : f # Cleaner /\ f # NoOne
    /\ Cleaner # NoOne
    /\ \A c \in Conns : c # NoConn
  BY ConnectionPoolAssumption

\* Nobody has a connection when the server starts.
LEMMA InitCPInv == Init => CPInv
  <1> SUFFICES ASSUME Init PROVE CPInv
    OBVIOUS
  <1>1. \A f \in Files : Claims(f) = {}
    BY DEF Init, Claims
  <1>2. CPTypeOK
    <2>1. (CHOOSE k \in Keys : TRUE) \in Keys
      BY ConnectionPoolAssumption
    <2>2. key \in [Conns -> Keys]
      BY <2>1 DEF Init
    <2>3. QED
      BY <2>2, ConnectionPoolAssumption DEF Init, CPTypeOK
  <1>3. PlaceOfLocals /\ HandsApart
    BY NamesApart DEF Init, PlaceOfLocals, HandsApart
  <1>4. ExclusiveUse /\ BusyIsClaimed
    BY <1>1 DEF Init, ExclusiveUse, BusyIsClaimed
  <1>5. QED
    BY <1>2, <1>3, <1>4 DEF CPInv

----------------------------------------------------------------------------
\* What a file claims depends on its thread's variables only.
LEMMA SameClaims ==
    ASSUME NEW g \in Files,
           \A c \in dels[g] : key'[c] = key[c],
           found'[g] = found[g], dels'[g] = dels[g],
           out'[g] = out[g], scCmd'[g] = scCmd[g]
    PROVE  Claims(g)' = Claims(g)
  BY DEF Claims

\* A thread that takes only what nobody else has, and marks as busy what it
\* has and nothing else, does no harm.
LEMMA TakesAndMarks ==
    ASSUME ExclusiveUse, NEW f \in Files,
           \A g \in Files \ {f} : Claims(g)' = Claims(g),
           \A c \in Claims(f)' \ Claims(f) :
               \A g \in Files \ {f} : c \notin Claims(g),
           \A c \in connsMap' :
               c \in busy' <=> c \in Claims(f)' \/ \E g \in Files \ {f} : c \in Claims(g)
    PROVE  ExclusiveUse' /\ BusyIsClaimed'
  <1>1. ExclusiveUse'
    <2> SUFFICES ASSUME NEW g \in Files, NEW h \in Files, g # h,
                        NEW c, c \in Claims(g)', c \in Claims(h)'
                 PROVE  FALSE
      BY DEF ExclusiveUse
    <2>1. CASE g = f
      BY <2>1 DEF ExclusiveUse
    <2>2. CASE h = f
      BY <2>2 DEF ExclusiveUse
    <2>3. CASE g # f /\ h # f
      BY <2>3 DEF ExclusiveUse
    <2>4. QED
      BY <2>1, <2>2, <2>3
  <1>2. BusyIsClaimed'
    BY DEF BusyIsClaimed
  <1>3. QED
    BY <1>1, <1>2

\* A step that leaves the connections in all hands alone needs to mark none.
LEMMA HandsUnchanged ==
    ASSUME ExclusiveUse, BusyIsClaimed,
           \A g \in Files : Claims(g)' = Claims(g),
           connsMap' \subseteq connsMap,
           \A c \in connsMap' : c \in busy' <=> c \in busy
    PROVE  ExclusiveUse' /\ BusyIsClaimed'
  BY DEF ExclusiveUse, BusyIsClaimed

----------------------------------------------------------------------------
\* Steps of a thread that only changes its place, and of the cleaner at
\* files_cs: nobody's hands are touched.
LEMMA PlaceCPInv ==
    ASSUME CPInv,
           \/ \E f \in Files : Begin(f) \/ End(f) \/ Connect(f) \/ Release(f)
                               \/ EnterFilesCs(f) \/ ForceSuspended(f)
           \/ CleanerEnters \/ CleanerLeaves
    PROVE  CPInv'
  <1> USE NamesApart DEF Goto, pool, local
  <1>1. UNCHANGED <<connsMap, key, busy, expired, found, dels, out, count, scCmd, round>>
    BY DEF Begin, End, Connect, Release, EnterFilesCs, ForceSuspended, CleanerEnters,
           CleanerLeaves
  <1>2. ExclusiveUse' /\ BusyIsClaimed'
    <2>1. \A g \in Files : Claims(g)' = Claims(g)
      BY <1>1, SameClaims
    <2>2. QED
      BY <1>1, <2>1, HandsUnchanged DEF CPInv
  <1>3. HandsApart'
    BY <1>1 DEF CPInv, HandsApart
  <1>4. CPTypeOK' /\ PlaceOfLocals'
    <2> USE <1>1, ConnectionPoolAssumption DEF CPInv, CPTypeOK, PlaceOfLocals
    <2>1. CASE \E f \in Files : Begin(f)
      BY <2>1 DEF Begin
    <2>2. CASE \E f \in Files : End(f)
      BY <2>2 DEF End
    <2>3. CASE \E f \in Files : Connect(f) \/ Release(f)
      BY <2>3 DEF Connect, Release
    <2>4. CASE \E f \in Files : EnterFilesCs(f)
      BY <2>4 DEF EnterFilesCs
    <2>5. CASE \E f \in Files : ForceSuspended(f)
      BY <2>5 DEF ForceSuspended
    <2>6. CASE CleanerEnters \/ CleanerLeaves
      BY <2>6 DEF CleanerEnters, CleanerLeaves
    <2>7. QED
      BY <2>1, <2>2, <2>3, <2>4, <2>5, <2>6
  <1>5. QED
    BY <1>2, <1>3, <1>4 DEF CPInv
----------------------------------------------------------------------------
\* The lookup takes what is free, and what is free nobody has.
LEMMA LookupCPInv ==
    ASSUME CPInv, NEW f \in Files, LookupMatchedConnectionsInCache(f)
    PROVE  CPInv'
  <1> USE NamesApart DEF Goto
  <1>1. CPTypeOK' /\ PlaceOfLocals'
    <2>1. Cardinality(Matching(f) \cap busy) \in Nat
      BY ConnectionPoolAssumption, FS_Subset, FS_CardinalityType
         DEF CPInv, CPTypeOK, Matching
    <2>2. QED
      BY <2>1, ConnectionPoolAssumption
         DEF CPInv, CPTypeOK, PlaceOfLocals, LookupMatchedConnectionsInCache, Matching
  <1>2. HandsApart'
    BY DEF CPInv, CPTypeOK, PlaceOfLocals, HandsApart,
           LookupMatchedConnectionsInCache, Matching
  <1>3. \A g \in Files \ {f} : Claims(g)' = Claims(g)
    BY SameClaims DEF CPInv, CPTypeOK, LookupMatchedConnectionsInCache
  <1>4. Claims(f) = {}
    BY DEF CPInv, PlaceOfLocals, LookupMatchedConnectionsInCache, Claims
  <1>5. Claims(f)' = Matching(f) \ busy
    BY DEF CPInv, CPTypeOK, PlaceOfLocals, LookupMatchedConnectionsInCache, Claims, Matching
  <1>6. ExclusiveUse' /\ BusyIsClaimed'
    <2>1. \A c \in Claims(f)' : \A g \in Files \ {f} : c \notin Claims(g)
      BY <1>5 DEF CPInv, BusyIsClaimed, Matching
    <2>2. \A c \in connsMap' :
            c \in busy' <=> c \in Claims(f)' \/ \E g \in Files \ {f} : c \in Claims(g)
      BY <1>4, <1>5 DEF CPInv, BusyIsClaimed, LookupMatchedConnectionsInCache
    <2>3. QED
      BY <1>3, <2>1, <2>2, TakesAndMarks DEF CPInv
  <1>7. QED
    BY <1>1, <1>2, <1>6 DEF CPInv

\* A found connection that is put back was in nobody else's hands, and is in
\* this thread's no more.
LEMMA PutBackCPInv ==
    ASSUME CPInv, NEW f \in Files, NEW c \in Conns, PutBack(f, c)
    PROVE  CPInv'
  <1> USE NamesApart
  <1>1. CPTypeOK' /\ PlaceOfLocals' /\ HandsApart'
    BY DEF CPInv, CPTypeOK, PlaceOfLocals, HandsApart, PutBack
  <1>2. \A g \in Files \ {f} : Claims(g)' = Claims(g)
    BY SameClaims DEF CPInv, CPTypeOK, PutBack
  <1>3. Claims(f)' = Claims(f) \ {c} /\ c \in Claims(f)
    BY DEF CPInv, CPTypeOK, PlaceOfLocals, HandsApart, PutBack, Claims
  <1>4. ExclusiveUse' /\ BusyIsClaimed'
    <2>1. \A d \in connsMap' :
            d \in busy' <=> d \in Claims(f)' \/ \E g \in Files \ {f} : d \in Claims(g)
      BY <1>3 DEF CPInv, BusyIsClaimed, ExclusiveUse, PutBack
    <2>2. QED
      BY <1>2, <1>3, <2>1, TakesAndMarks DEF CPInv
  <1>5. QED
    BY <1>1, <1>4 DEF CPInv

\* A found connection becomes the one to use, or one to delete, or, erased by
\* another thread during the NOOP, nothing.
LEMMA CheckByNoopCPInv ==
    ASSUME CPInv, NEW f \in Files, NEW c \in Conns, CheckByNoop(f, c)
    PROVE  CPInv'
  <1> USE NamesApart
  <1>1. CPTypeOK' /\ PlaceOfLocals' /\ HandsApart'
    BY DEF CPInv, CPTypeOK, PlaceOfLocals, HandsApart, CheckByNoop
  <1>2. \A g \in Files \ {f} : Claims(g)' = Claims(g)
    BY SameClaims DEF CPInv, CPTypeOK, CheckByNoop
  <1>3. c \in Claims(f) /\ key[c] = KeyOf[f]
    BY DEF CPInv, HandsApart, CheckByNoop, Claims
  <1>4. Claims(f)' \in {Claims(f), Claims(f) \ {c}}
    BY <1>3 DEF CPInv, CPTypeOK, PlaceOfLocals, HandsApart, CheckByNoop, Claims
  <1>5. c \in connsMap => Claims(f)' = Claims(f)
    BY <1>3 DEF CPInv, CPTypeOK, PlaceOfLocals, HandsApart, CheckByNoop, Claims
  <1>6. ExclusiveUse' /\ BusyIsClaimed'
    <2>1. \A d \in connsMap' :
            d \in busy' <=> d \in Claims(f)' \/ \E g \in Files \ {f} : d \in Claims(g)
      BY <1>3, <1>4, <1>5 DEF CPInv, BusyIsClaimed, CheckByNoop
    <2>2. QED
      BY <1>2, <1>4, <2>1, TakesAndMarks DEF CPInv
  <1>7. QED
    BY <1>1, <1>6 DEF CPInv

\* What is erased nobody has but the thread that erases it, or, with other
\* settings, its entry goes and with it the mark.
LEMMA DeleteCPInv ==
    ASSUME CPInv, NEW f \in Files, DeleteConnectionsFromCache(f)
    PROVE  CPInv'
  <1> USE NamesApart DEF Goto, Erase
  <1>1. CPTypeOK'
    BY ConnectionPoolAssumption DEF CPInv, CPTypeOK, DeleteConnectionsFromCache
  <1>2. PlaceOfLocals' /\ HandsApart'
    BY ConnectionPoolAssumption
       DEF CPInv, CPTypeOK, PlaceOfLocals, HandsApart, DeleteConnectionsFromCache
  <1>3. \A g \in Files \ {f} : Claims(g)' = Claims(g)
    BY SameClaims DEF CPInv, CPTypeOK, DeleteConnectionsFromCache
  <1>4. Claims(f)' = {out[f]} \ {NoConn} /\ Claims(f)' \subseteq Claims(f)
    BY DEF CPInv, CPTypeOK, PlaceOfLocals, DeleteConnectionsFromCache, Claims
  <1>5. Claims(f) \subseteq Claims(f)' \cup dels[f]
    BY <1>4 DEF CPInv, PlaceOfLocals, DeleteConnectionsFromCache, Claims
  <1>6. ExclusiveUse' /\ BusyIsClaimed'
    <2>1. \A c \in connsMap' :
            c \in busy' <=> c \in Claims(f)' \/ \E g \in Files \ {f} : c \in Claims(g)
      BY <1>4, <1>5 DEF CPInv, BusyIsClaimed, DeleteConnectionsFromCache
    <2>2. QED
      BY <1>3, <1>4, <2>1, TakesAndMarks DEF CPInv
  <1>7. QED
    BY <1>1, <1>2, <1>6 DEF CPInv

\* A new connection was in nobody's hands.
LEMMA OpenFtpConnectionNewCPInv ==
    ASSUME CPInv, NEW f \in Files, OpenFtpConnectionNew(f)
    PROVE  CPInv'
  <1> USE NamesApart DEF Goto, pool, local
  <1>1. CASE UNCHANGED <<pool, scCmd>>
    <2>1. CPTypeOK' /\ PlaceOfLocals' /\ HandsApart'
      BY <1>1 DEF CPInv, CPTypeOK, PlaceOfLocals, HandsApart, OpenFtpConnectionNew
    <2>2. \A g \in Files : Claims(g)' = Claims(g)
      BY <1>1, SameClaims DEF OpenFtpConnectionNew
    <2>3. QED
      BY <1>1, <2>1, <2>2, HandsUnchanged DEF CPInv
  <1>2. ASSUME NEW c \in Conns, Fresh(c),
               connsMap' = connsMap \cup {c}, key' = [key EXCEPT ![c] = KeyOf[f]],
               busy' = busy \cup {c}, scCmd' = [scCmd EXCEPT ![f] = c],
               UNCHANGED expired
        PROVE  CPInv'
    <2>1. CPTypeOK' /\ PlaceOfLocals'
      BY <1>2, ConnectionPoolAssumption
         DEF CPInv, CPTypeOK, PlaceOfLocals, OpenFtpConnectionNew
    <2>2. \A g \in Files : c \notin Claims(g) /\ c \notin dels[g]
      BY <1>2 DEF Fresh
    <2>3. HandsApart'
      BY <1>2, <2>2 DEF CPInv, CPTypeOK, HandsApart, Claims, OpenFtpConnectionNew
    <2>4. \A g \in Files \ {f} : Claims(g)' = Claims(g)
      BY <1>2, <2>2, SameClaims DEF CPInv, CPTypeOK, OpenFtpConnectionNew
    <2>5. Claims(f) = {} /\ Claims(f)' = {c}
      BY <1>2 DEF CPInv, CPTypeOK, PlaceOfLocals, OpenFtpConnectionNew, Claims
    <2>6. \A d \in connsMap' :
            d \in busy' <=> d \in Claims(f)' \/ \E g \in Files \ {f} : d \in Claims(g)
      BY <1>2, <2>2, <2>5 DEF CPInv, BusyIsClaimed
    <2>7. QED
      BY <2>1, <2>2, <2>3, <2>4, <2>5, <2>6, TakesAndMarks DEF CPInv
  <1>3. QED
    BY <1>1, <1>2 DEF OpenFtpConnectionNew

\* CloseCleanFtpConnectionsCache takes the connection out of a file's hands:
\* out of those of its own thread, or of a file no thread is working for.
LEMMA CloseCleanClaims ==
    ASSUME CPInv, NEW f \in Files, NEW forced \in BOOLEAN,
           at[f] # "check",
           CloseCleanFtpConnectionsCache(f, forced),
           UNCHANGED <<found, dels, out>>
    PROVE  /\ Claims(f) = {scCmd[f]} \ {NoConn} /\ Claims(f)' = {}
           /\ \A g \in Files \ {f} : Claims(g)' = Claims(g)
           /\ connsMap' \subseteq connsMap
           /\ \A c \in connsMap' : c \in busy' <=> c \in busy /\ c # scCmd[f]
           /\ \A c \in connsMap \ connsMap' : c \notin busy \/ c = scCmd[f]
  <1> USE NamesApart
  <1>1. Claims(f) = {scCmd[f]} \ {NoConn} /\ Claims(f)' = {}
    BY DEF CPInv, CPTypeOK, PlaceOfLocals, Claims, CloseCleanFtpConnectionsCache
  <1>2. \A g \in Files \ {f} : Claims(g)' = Claims(g)
    BY SameClaims DEF CPInv, CPTypeOK, CloseCleanFtpConnectionsCache
  <1>3. QED
    BY <1>1, <1>2 DEF CPInv, CPTypeOK, CloseCleanFtpConnectionsCache

LEMMA CloseCleanCPInv ==
    ASSUME CPInv, NEW f \in Files, NEW forced \in BOOLEAN,
           at[f] \in {"idle", "work", "release"},
           CloseCleanFtpConnectionsCache(f, forced),
           at' = at \/ (at[f] = "release" /\ Goto(f, "work")),
           UNCHANGED <<filesCs, unlocked, local, connects>>
    PROVE  CPInv'
  <1> USE NamesApart DEF local, Goto
  <1>1. CPTypeOK' /\ PlaceOfLocals' /\ HandsApart'
    BY DEF CPInv, CPTypeOK, PlaceOfLocals, HandsApart, CloseCleanFtpConnectionsCache
  <1>2. ExclusiveUse' /\ BusyIsClaimed'
    <2>1. \A c \in connsMap' :
            c \in busy' <=> c \in Claims(f)' \/ \E g \in Files \ {f} : c \in Claims(g)
      <3>1. at[f] # "check"
        OBVIOUS
      <3>2. connsMap \subseteq Conns
        BY DEF CPInv, CPTypeOK
      <3>3. Claims(f) = {scCmd[f]} \ {NoConn} /\ Claims(f)' = {}
        BY <3>1, CloseCleanClaims
      <3>4. \A c \in connsMap' : c \in connsMap /\ (c \in busy' <=> c \in busy /\ c # scCmd[f])
        BY <3>1, CloseCleanClaims
      <3>5. QED
        BY <3>2, <3>3, <3>4 DEF CPInv, BusyIsClaimed, ExclusiveUse
    <2>2. QED
      BY <2>1, CloseCleanClaims, TakesAndMarks DEF CPInv
  <1>3. QED
    BY <1>1, <1>2 DEF CPInv

\* A file that is suspended has no thread in OpenFtpConnection.
LEMMA SuspendCPInv ==
    ASSUME CPInv, NEW g \in Files, Suspendable(g), SuspendFileIterator(g)
    PROVE  CPInv'
  <1>1. at[g] \in {"idle", "work", "release"}
    BY DEF CPInv, CPTypeOK, PlaceOfLocals, Suspendable
  <1>2. QED
    BY <1>1, CloseCleanCPInv DEF SuspendFileIterator

LEMMA CleanConnectionsCPInv ==
    ASSUME CPInv, NEW forced \in BOOLEAN, CleanConnections(forced)
    PROVE  CPInv'
  <1> USE NamesApart DEF local, Erase
  <1>1. CPTypeOK' /\ PlaceOfLocals' /\ HandsApart'
    BY DEF CPInv, CPTypeOK, PlaceOfLocals, HandsApart, CleanConnections
  <1>2. \A g \in Files : Claims(g)' = Claims(g)
    BY SameClaims DEF CleanConnections
  <1>3. QED
    BY <1>1, <1>2, HandsUnchanged DEF CPInv, CleanConnections

LEMMA ExpireCPInv ==
    ASSUME CPInv, NEW c \in Conns, Expire(c)
    PROVE  CPInv'
  <1> USE NamesApart DEF local
  <1>1. CPTypeOK' /\ PlaceOfLocals' /\ HandsApart'
    BY DEF CPInv, CPTypeOK, PlaceOfLocals, HandsApart, Expire
  <1>2. \A g \in Files : Claims(g)' = Claims(g)
    BY SameClaims DEF Expire
  <1>3. QED
    BY <1>1, <1>2, HandsUnchanged DEF CPInv, Expire

----------------------------------------------------------------------------
\* Every step keeps the invariant.
LEMMA NextCPInv == CPInv /\ [Next]_vars => CPInv'
  <1> SUFFICES ASSUME CPInv, [Next]_vars PROVE CPInv'
    OBVIOUS
  <1>1. CASE \E f \in Files : Begin(f) \/ End(f) \/ Connect(f) \/ Release(f)
    BY <1>1, PlaceCPInv
  <1>2. ASSUME NEW f \in Files, OpenFtpConnection(f) PROVE CPInv'
    <2>1. CASE LookupMatchedConnectionsInCache(f)
      BY <2>1, LookupCPInv
    <2>2. ASSUME NEW c \in Conns, PutBack(f, c) \/ CheckByNoop(f, c) PROVE CPInv'
      BY <2>2, PutBackCPInv, CheckByNoopCPInv
    <2>3. CASE DeleteConnectionsFromCache(f) \/ OpenFtpConnectionNew(f)
      BY <2>3, DeleteCPInv, OpenFtpConnectionNewCPInv
    <2>4. CASE EnterFilesCs(f) \/ ForceSuspended(f)
      BY <2>4, PlaceCPInv
    <2>5. ASSUME NEW g \in Files, ForceSuspend(f, g) PROVE CPInv'
      BY <2>5, SuspendCPInv DEF ForceSuspend
    <2>6. QED
      BY <1>2, <2>1, <2>2, <2>3, <2>4, <2>5 DEF OpenFtpConnection
  <1>3. ASSUME NEW f \in Files, NEW forced \in BOOLEAN, Disconnect(f, forced) PROVE CPInv'
    BY <1>3, CloseCleanCPInv DEF Disconnect
  <1>4. CASE CleanUp
    <2>1. ASSUME NEW g \in Files, CleanerSuspends(g) PROVE CPInv'
      BY <2>1, SuspendCPInv DEF CleanerSuspends
    <2>2. QED
      BY <1>4, <2>1, PlaceCPInv, CleanConnectionsCPInv, ExpireCPInv DEF CleanUp
  <1>5. CASE UNCHANGED vars
    <2> USE <1>5 DEF vars, pool, local
    <2>1. CPTypeOK' /\ PlaceOfLocals' /\ HandsApart'
      BY DEF CPInv, CPTypeOK, PlaceOfLocals, HandsApart
    <2>2. \A g \in Files : Claims(g)' = Claims(g)
      BY SameClaims
    <2>3. QED
      BY <2>1, <2>2, HandsUnchanged DEF CPInv
  <1>6. QED
    BY <1>1, <1>2, <1>3, <1>4, <1>5 DEF Next

\* The places of a thread and the marks in the pool are consistent.
THEOREM InductiveInvariant == Spec => []CPInv
  <1>1. QED
    BY InitCPInv, NextCPInv, PTL DEF Spec

\* A control connection is never in the hands of the threads of two files.
THEOREM ExclusiveUseHolds == Spec => []ExclusiveUse
  <1>1. CPInv => ExclusiveUse
    BY DEF CPInv
  <1>2. QED
    BY <1>1, InductiveInvariant, PTL

\* Every busy entry of the map has a user that will give it back.
THEOREM BusyIsClaimedHolds == Spec => []BusyIsClaimed
  <1>1. CPInv => BusyIsClaimed
    BY DEF CPInv
  <1>2. QED
    BY <1>1, InductiveInvariant, PTL

----------------------------------------------------------------------------
\* The lease's variables in terms of the claims, which overlap nowhere.
Free == "free"
Closed == "closed"
Using == {f \in Files : at[f] = "work"} \ unlocked

LEMMA HolderIs ==
    ASSUME ExclusiveUse, NEW c
    PROVE  /\ \A f \in Files : c \in Claims(f) => Holder(c) = f
           /\ (\A f \in Files : c \notin Claims(f)) =>
                 Holder(c) = IF c \in connsMap THEN Free ELSE Closed
  BY DEF ExclusiveUse, Holder, Free, Closed

LEMMA HolderWillBe ==
    ASSUME ExclusiveUse', NEW c
    PROVE  /\ \A f \in Files : c \in Claims(f)' => Holder(c)' = f
           /\ (\A f \in Files : c \notin Claims(f)') =>
                 Holder(c)' = IF c \in connsMap' THEN Free ELSE Closed
  BY DEF ExclusiveUse, Holder, Free, Closed

LEMMA HolderNames ==
    /\ Free # Closed /\ \A f \in Files : f # Free /\ f # Closed
    /\ ExclusiveUse => \A c : Holder(c) \in {Free, Closed} \cup Files
    /\ ExclusiveUse' => \A c : Holder(c)' \in {Free, Closed} \cup Files
  BY HolderIs, HolderWillBe, ConnectionPoolAssumption DEF Free, Closed

\* A step that changes what one file has and adds no entry but for it.
LEMMA OneFileMoves ==
    ASSUME ExclusiveUse, ExclusiveUse', NEW f \in Files,
           \A g \in Files \ {f} : Claims(g)' = Claims(g),
           connsMap' \ connsMap \subseteq Claims(f)',
           f \in Using => Claims(f) \subseteq Claims(f)',
           Using' \in {Using, Using \cup {f}, Using \ {f}}
    PROVE  Lease!Next
  <1>1. \A c \in Conns : Holder(c)' # Holder(c) =>
            /\ Holder(c) \notin Using
            /\ Holder(c)' \in {Free, Closed, f}
            /\ Holder(c) = Closed => Holder(c)' = f
    <2> SUFFICES ASSUME NEW c \in Conns, Holder(c)' # Holder(c)
                 PROVE  /\ Holder(c) \notin Using
                        /\ Holder(c)' \in {Free, Closed, f}
                        /\ Holder(c) = Closed => Holder(c)' = f
      OBVIOUS
    <2>1. \A g \in Files \ {f} : c \notin Claims(g) /\ c \notin Claims(g)'
      BY HolderIs, HolderWillBe
    <2>2. Holder(c) = IF c \in Claims(f) THEN f ELSE IF c \in connsMap THEN Free ELSE Closed
      BY <2>1, HolderIs
    <2>3. Holder(c)' =
            IF c \in Claims(f)' THEN f ELSE IF c \in connsMap' THEN Free ELSE Closed
      BY <2>1, HolderWillBe
    <2>4. Using \subseteq Files
      BY DEF Using
    <2>5. QED
      BY <2>2, <2>3, <2>4, HolderNames
  <1>2. Lease!Move(f)
    BY <1>1, HolderNames DEF Lease!Move, Using, Free, Closed
  <1>3. QED
    BY <1>2 DEF Lease!Next

\* A step that takes connections only from files that are in no operation.
LEMMA OthersCleanUp ==
    ASSUME ExclusiveUse, ExclusiveUse', NEW G \in SUBSET (Files \ Using),
           \A g \in Files \ G : Claims(g)' = Claims(g),
           \A g \in G : Claims(g)' = {},
           connsMap' \subseteq connsMap,
           Using' = Using
    PROVE  Lease!Next
  <1>1. \A c \in Conns : Holder(c)' # Holder(c) =>
            Holder(c) \notin Using \cup {Closed} /\ Holder(c)' \in {Free, Closed}
    <2> SUFFICES ASSUME NEW c \in Conns, Holder(c)' # Holder(c)
                 PROVE  Holder(c) \notin Using \cup {Closed} /\ Holder(c)' \in {Free, Closed}
      OBVIOUS
    <2>1. \A g \in Files \ G : c \notin Claims(g) /\ c \notin Claims(g)'
      BY HolderIs, HolderWillBe
    <2>2. Holder(c)' = IF c \in connsMap' THEN Free ELSE Closed
      BY <2>1, HolderWillBe
    <2>3. Using \subseteq Files
      BY DEF Using
    <2>4. CASE \A g \in Files : c \notin Claims(g)
      <3>1. Holder(c) = IF c \in connsMap THEN Free ELSE Closed
        BY <2>4, HolderIs
      <3>2. QED
        BY <2>2, <2>3, <3>1, HolderNames
    <2>5. ASSUME NEW g \in G, c \in Claims(g)
          PROVE  Holder(c) \notin Using \cup {Closed} /\ Holder(c)' \in {Free, Closed}
      <3>1. Holder(c) = g
        BY <2>5, HolderIs
      <3>2. QED
        BY <2>2, <3>1, HolderNames
    <2>6. QED
      BY <2>1, <2>4, <2>5
  <1>2. Lease!CleanUp
    BY <1>1, HolderNames DEF Lease!CleanUp, Using, Free, Closed
  <1>3. QED
    BY <1>2 DEF Lease!Next

\* The steps of a thread's own operation move what its file has.
LEMMA OpenFtpConnectionMoves ==
    ASSUME CPInv, CPInv', NEW f \in Files,
           \/ Begin(f) \/ End(f) \/ Connect(f) \/ Release(f)
           \/ LookupMatchedConnectionsInCache(f) \/ DeleteConnectionsFromCache(f)
           \/ \E c \in Conns : PutBack(f, c) \/ CheckByNoop(f, c)
           \/ OpenFtpConnectionNew(f) \/ EnterFilesCs(f) \/ ForceSuspended(f)
    PROVE  Lease!Next
  <1> USE NamesApart DEF Goto, pool, local
  <1>1. Using' \in {Using, Using \cup {f}, Using \ {f}}
    <2> USE DEF Using, CPInv, CPTypeOK
    <2>1. CASE Begin(f) \/ End(f) \/ Connect(f) \/ Release(f)
      BY <2>1 DEF Begin, End, Connect, Release
    <2>2. CASE LookupMatchedConnectionsInCache(f) \/ OpenFtpConnectionNew(f)
      BY <2>2 DEF LookupMatchedConnectionsInCache, OpenFtpConnectionNew
    <2>3. CASE DeleteConnectionsFromCache(f)
      BY <2>3 DEF DeleteConnectionsFromCache
    <2>4. CASE \E c \in Conns : PutBack(f, c) \/ CheckByNoop(f, c)
      BY <2>4 DEF PutBack, CheckByNoop
    <2>5. CASE EnterFilesCs(f) \/ ForceSuspended(f)
      BY <2>5 DEF EnterFilesCs, ForceSuspended, PlaceOfLocals
    <2>6. QED
      BY <2>1, <2>2, <2>3, <2>4, <2>5
  <1>2. connsMap' \ connsMap \subseteq Claims(f)'
    <2>1. CASE OpenFtpConnectionNew(f)
      <3>1. ASSUME NEW c \in Conns, connsMap' = connsMap \cup {c},
                   scCmd' = [scCmd EXCEPT ![f] = c]
            PROVE  connsMap' \ connsMap \subseteq Claims(f)'
        <4>1. scCmd'[f] = c /\ c # NoConn
          BY <3>1 DEF CPInv, CPTypeOK
        <4>2. QED
          BY <3>1, <4>1 DEF Claims
      <3>2. QED
        BY <2>1, <3>1 DEF OpenFtpConnectionNew
    <2>2. CASE ~OpenFtpConnectionNew(f)
      BY <2>2 DEF Begin, End, Connect, Release, LookupMatchedConnectionsInCache, Erase,
                  DeleteConnectionsFromCache, PutBack, CheckByNoop, EnterFilesCs, ForceSuspended
    <2>3. QED
      BY <2>1, <2>2
  <1>3. \A g \in Files \ {f} : Claims(g)' = Claims(g)
    <2>1. CASE OpenFtpConnectionNew(f)
      <3>1. CASE UNCHANGED <<pool, scCmd>>
        BY <2>1, <3>1, SameClaims DEF OpenFtpConnectionNew
      <3>2. ASSUME NEW c \in Conns, Fresh(c), key' = [key EXCEPT ![c] = KeyOf[f]],
                   scCmd' = [scCmd EXCEPT ![f] = c]
            PROVE  \A g \in Files \ {f} : Claims(g)' = Claims(g)
        <4>1. \A g \in Files : c \notin dels[g]
          BY <3>2 DEF Fresh
        <4>2. QED
          BY <2>1, <3>2, <4>1, SameClaims DEF CPInv, CPTypeOK, OpenFtpConnectionNew
      <3>3. QED
        BY <2>1, <3>1, <3>2 DEF OpenFtpConnectionNew
    <2>2. CASE ~OpenFtpConnectionNew(f)
      <3>1. /\ UNCHANGED key
            /\ \A g \in Files \ {f} :
                 /\ found'[g] = found[g] /\ dels'[g] = dels[g]
                 /\ out'[g] = out[g] /\ scCmd'[g] = scCmd[g]
        BY <2>2 DEF CPInv, CPTypeOK, Begin, End, Connect, Release,
              LookupMatchedConnectionsInCache, DeleteConnectionsFromCache, PutBack, CheckByNoop, EnterFilesCs, ForceSuspended
      <3>2. QED
        BY <3>1, SameClaims
    <2>3. QED
      BY <2>1, <2>2
  <1>4. f \in Using => Claims(f) \subseteq Claims(f)'
    <2> SUFFICES ASSUME f \in Using PROVE Claims(f)' = Claims(f)
      OBVIOUS
    <2>1. End(f) \/ Connect(f) \/ Release(f)
      BY DEF Using, CPInv, PlaceOfLocals, Begin, LookupMatchedConnectionsInCache, PutBack,
             DeleteConnectionsFromCache, CheckByNoop, OpenFtpConnectionNew, EnterFilesCs,
             ForceSuspended
    <2>2. QED
      BY <2>1, SameClaims DEF End, Connect, Release
  <1>5. QED
    BY <1>1, <1>2, <1>3, <1>4, OneFileMoves DEF CPInv

\* A suspended file is in no operation, or in the MKD of xxxOpenFile.
LEMMA SuspendMoves ==
    ASSUME CPInv, CPInv', NEW g \in Files, Suspendable(g), SuspendFileIterator(g)
    PROVE  Lease!Next
  <1>1. {g} \in SUBSET (Files \ Using)
    BY DEF Suspendable, Using
  <1>2. Using' = Using
    BY DEF SuspendFileIterator, Using
  <1>3. /\ \A h \in Files \ {g} : Claims(h)' = Claims(h)
        /\ Claims(g)' = {} /\ connsMap' \subseteq connsMap
    BY CloseCleanClaims DEF CPInv, PlaceOfLocals, Suspendable, SuspendFileIterator, local
  <1>4. QED
    BY <1>1, <1>2, <1>3, OthersCleanUp DEF CPInv

LEMMA DisconnectMoves ==
    ASSUME CPInv, CPInv', NEW f \in Files, NEW forced \in BOOLEAN, Disconnect(f, forced)
    PROVE  Lease!Next
  <1>1. Using' \in {Using, Using \cup {f}, Using \ {f}} /\ f \notin Using
    BY DEF CPInv, CPTypeOK, Disconnect, Goto, Using
  <1>2. /\ \A h \in Files \ {f} : Claims(h)' = Claims(h)
        /\ connsMap' \subseteq connsMap
    BY CloseCleanClaims DEF Disconnect, local
  <1>3. QED
    BY <1>1, <1>2, OneFileMoves DEF CPInv

LEMMA NobodyMoves ==
    ASSUME CPInv, CPInv',
           \/ CleanerEnters \/ CleanerLeaves \/ UNCHANGED vars
           \/ \E forced \in BOOLEAN : CleanConnections(forced)
           \/ \E c \in Conns : Expire(c)
    PROVE  Lease!Next
  <1> USE DEF pool, local, vars
  <1>1. /\ UNCHANGED <<key, found, dels, out, scCmd, at, unlocked>>
        /\ connsMap' \subseteq connsMap
    BY DEF CleanerEnters, CleanerLeaves, CleanConnections, Expire, Erase
  <1>2. \A g \in Files : Claims(g)' = Claims(g)
    BY <1>1, SameClaims
  <1>3. {} \in SUBSET (Files \ Using) /\ Using' = Using
    BY <1>1 DEF Using
  <1>4. QED
    BY <1>1, <1>2, <1>3, OthersCleanUp DEF CPInv

\* Whatever threads and cleaner do, no file in an operation loses what it has.
THEOREM PoolImplementsLease == Spec => ImplementsLease
  <1>1. Init => Lease!Init
    <2> SUFFICES ASSUME Init PROVE Lease!Init
      OBVIOUS
    <2>1. \A f \in Files : Claims(f) = {}
      BY DEF Init, Claims
    <2>2. \A c \in Conns : Holder(c) = "closed"
      BY <2>1 DEF Init, Holder
    <2>3. QED
      BY <2>2 DEF Init, Lease!Init
  <1>2. CPInv /\ CPInv' /\ [Next]_vars => [Lease!Next]_(Lease!vars)
    <2> SUFFICES ASSUME CPInv, CPInv', [Next]_vars PROVE Lease!Next
      OBVIOUS
    <2>1. ASSUME NEW f \in Files, OpenFtpConnection(f) PROVE Lease!Next
      <3>1. ASSUME NEW g \in Files, ForceSuspend(f, g) PROVE Lease!Next
        BY <3>1, SuspendMoves DEF ForceSuspend
      <3>2. QED
        BY <2>1, <3>1, OpenFtpConnectionMoves DEF OpenFtpConnection
    <2>2. ASSUME NEW f \in Files, Begin(f) \/ End(f) \/ Connect(f) \/ Release(f)
          PROVE  Lease!Next
      BY <2>2, OpenFtpConnectionMoves
    <2>3. ASSUME NEW f \in Files, NEW forced \in BOOLEAN, Disconnect(f, forced)
          PROVE  Lease!Next
      BY <2>3, DisconnectMoves
    <2>4. CASE CleanUp
      <3>1. ASSUME NEW g \in Files, CleanerSuspends(g) PROVE Lease!Next
        BY <3>1, SuspendMoves DEF CleanerSuspends
      <3>2. QED
        BY <2>4, <3>1, NobodyMoves DEF CleanUp
    <2>5. CASE UNCHANGED vars
      BY <2>5, NobodyMoves
    <2>6. QED
      BY <2>1, <2>2, <2>3, <2>4, <2>5 DEF Next
  <1>3. QED
    BY <1>1, <1>2, InductiveInvariant, PTL DEF Spec, ImplementsLease, Lease!Spec
=============================================================================
