----------------------------- MODULE DataCache -----------------------------
(***************************************************************************)
(* The cache of a remote file's data (FtpFS/FtpWorks/datacache.cpp).  A    *)
(* position of the file is a segment and an offset in it; a segment in the *)
(* cache has a page of the storage file and a list of the ranges of that   *)
(* page which hold its data.  A full storage file gives the page of one    *)
(* segment to another.  data_cache_cs makes each call one step.            *)
(*                                                                         *)
(* What matters of a byte in a page is whether it is the last one given for *)
(* its place in the segment that has the page: such a byte is represented  *)
(* by its position in the file, everything else is Stale, also the bytes   *)
(* that were there when the page was given to the segment.                 *)
(***************************************************************************)
EXTENDS Integers, Sequences

CONSTANTS PageSize,   \* CACHE_PAGE_SIZE
          Segments,   \* the segments of the file are 0 .. Segments - 1
          MaxPages,   \* FtpSettings::cache_max_file_size, in pages
          MaxWrite,   \* bound on the size of a write
          MaxTick,    \* bound on GetTickCount
          Stale, None

ASSUME DataCacheAssumption ==
    /\ PageSize \in Nat \ {0} /\ Segments \in Nat \ {0}
    /\ MaxPages \in Nat /\ MaxTick \in Nat /\ MaxWrite \in Nat
    /\ Stale \notin Nat /\ None \notin Nat /\ Stale # None

Segs == 0 .. Segments - 1
Offsets == 0 .. PageSize - 1
Positions == 0 .. Segments * PageSize - 1
Pages == 0 .. MaxPages - 1
NoPage == -1

VARIABLES capacity,  \* Storage::_capacity
          storage,   \* the storage file
          page,      \* _fseg_2_page: the page of a segment, or NoPage,
          ranges,    \* its PageRanges
          lastRead,  \* and its PageRanges::_last_read
          clock,     \* GetTickCount
          torn       \* history: where a failed write left a byte it had to replace

vars == <<capacity, storage, page, ranges, lastRead, clock, torn>>

Init ==
    /\ capacity = 0
    /\ page = [s \in Segs |-> NoPage]
    /\ ranges = [s \in Segs |-> <<>>]
    /\ lastRead = [s \in Segs |-> 0]
    /\ storage = [g \in Pages |-> [o \in Offsets |-> Stale]]
    /\ clock = 0
    /\ torn = {}

----------------------------------------------------------------------------
\* An operator named A_Slip is A with a slip the checks must notice; it is no
\* part of the specification.

\* PageRanges::EnforceRange.  One pass over the list: a range that the needed
\* one overlaps or touches dies and widens it, the last one to die gives it its
\* place.  A dead range matches nothing, so it is left out of the list; at
\* counts the living ones before that place, or is None.
PageRange(b, e) == [b |-> b, e |-> e]

Keep(acc, r) == [acc EXCEPT !.list = Append(@, r)]
Kill(acc, b, e) == [acc EXCEPT !.b = b, !.e = e, !.at = Len(acc.list)]

Visit_BridgesGap(acc, r) ==
    IF acc.done THEN Keep(acc, r)
    ELSE IF r.b <= acc.b /\ r.e >= acc.e THEN [Keep(acc, r) EXCEPT !.done = TRUE]
    ELSE IF r.b >= acc.b /\ r.e <= acc.e THEN Kill(acc, acc.b, acc.e)
    ELSE IF r.b <= acc.b /\ r.e >= acc.b THEN Kill(acc, r.b, acc.e)
    ELSE IF r.b <= acc.e + 1 /\ r.e >= acc.e THEN Kill(acc, acc.b, r.e)
    ELSE Keep(acc, r)

Visit_NotWidened(acc, r) ==
    IF acc.done THEN Keep(acc, r)
    ELSE IF r.b <= acc.b /\ r.e >= acc.e THEN [Keep(acc, r) EXCEPT !.done = TRUE]
    ELSE IF r.b >= acc.b /\ r.e <= acc.e THEN Kill(acc, acc.b, acc.e)
    ELSE IF r.b <= acc.b /\ r.e >= acc.b THEN Kill(acc, acc.b, acc.e)
    ELSE IF r.b <= acc.e /\ r.e >= acc.e THEN Kill(acc, acc.b, r.e)
    ELSE Keep(acc, r)

Visit(acc, r) ==
    IF acc.done THEN Keep(acc, r)
    ELSE IF r.b <= acc.b /\ r.e >= acc.e THEN [Keep(acc, r) EXCEPT !.done = TRUE]
    ELSE IF r.b >= acc.b /\ r.e <= acc.e THEN Kill(acc, acc.b, acc.e)
    ELSE IF r.b <= acc.b /\ r.e >= acc.b THEN Kill(acc, r.b, acc.e)
    ELSE IF r.b <= acc.e /\ r.e >= acc.e THEN Kill(acc, acc.b, r.e)
    ELSE Keep(acc, r)

\* What the pass has after each range of the list.
Pass(list, b, e) ==
    LET visit[i \in 0 .. Len(list)] ==
            IF i = 0 THEN [b |-> b, e |-> e, list |-> <<>>, at |-> None, done |-> FALSE]
            ELSE Visit(visit[i - 1], list[i]) IN
    visit

Inserted(list, at, r) ==
    [i \in 1 .. Len(list) + 1 |-> IF i <= at THEN list[i] ELSE IF i = at + 1 THEN r ELSE list[i - 1]]

EnforceRange_Appends(list, b, e) == Append(list, PageRange(b, e))

EnforceRange(list, b, e) ==
    LET acc == Pass(list, b, e)[Len(list)] IN
    IF acc.done THEN acc.list
    ELSE Inserted(acc.list, IF acc.at = None THEN Len(acc.list) ELSE acc.at,
                  PageRange(acc.b, acc.e))

\* PageRanges::HaveRange: how much of [b, e) the first range with b has.
HaveRange(list, b, e) ==
    LET hits  == {i \in DOMAIN list : list[i].b <= b /\ list[i].e > b}
        first == CHOOSE i \in hits : \A j \in hits : i <= j IN
    IF hits = {} THEN 0
    ELSE IF e > list[first].e THEN list[first].e - b ELSE e - b

----------------------------------------------------------------------------
\* FreeOldestPage: the segment, the first of several, whose _last_read is the
\* smallest.  UpdateLastRead does not update it, so that is the segment whose
\* page was assigned first.
Oldest(st) ==
    CHOOSE s \in Segs :
        /\ st.page[s] # NoPage
        /\ \A t \in Segs : st.page[t] # NoPage =>
            st.lastRead[s] < st.lastRead[t] \/ (st.lastRead[s] = st.lastRead[t] /\ s <= t)

Assign(st, s, g) ==
    [st EXCEPT !.page[s] = g, !.ranges[s] = <<>>, !.lastRead[s] = clock,
               !.storage[g] = [o \in Offsets |-> Stale]]

Free(st, s) ==
    [st EXCEPT !.page[s] = NoPage, !.ranges[s] = <<>>, !.lastRead[s] = 0]

\* The page of segment s: the one it has, a new one, or the oldest, if any;
\* Storage::Allocate fails at the size limit and when the disk is full.
WithPage_NotErased(st, s, full) ==
    IF st.page[s] # NoPage THEN st
    ELSE IF st.capacity < MaxPages /\ (full => st.capacity = 0)
    THEN [Assign(st, s, st.capacity) EXCEPT !.capacity = @ + 1]
    ELSE IF \E t \in Segs : st.page[t] # NoPage
    THEN Assign(st, s, st.page[Oldest(st)])
    ELSE st

WithPage_OneMore(st, s, full) ==
    IF st.page[s] # NoPage THEN st
    ELSE IF st.capacity <= MaxPages /\ (full => st.capacity = 0)
    THEN [Assign(st, s, st.capacity) EXCEPT !.capacity = @ + 1]
    ELSE IF \E t \in Segs : st.page[t] # NoPage
    THEN Assign(Free(st, Oldest(st)), s, st.page[Oldest(st)])
    ELSE st

WithPage(st, s, full) ==
    IF st.page[s] # NoPage THEN st
    ELSE IF st.capacity < MaxPages /\ (full => st.capacity = 0)
    THEN [Assign(st, s, st.capacity) EXCEPT !.capacity = @ + 1]
    ELSE IF \E t \in Segs : st.page[t] # NoPage
    THEN Assign(Free(st, Oldest(st)), s, st.page[Oldest(st)])
    ELSE st

\* The chunk [b, e) that a call on [pos, pos + size) has in segment s.
ChunkBegin(s, pos) == IF pos > s * PageSize THEN pos - s * PageSize ELSE 0
ChunkEnd(s, pos, size) ==
    IF pos + size < (s + 1) * PageSize THEN pos + size - s * PageSize ELSE PageSize

SegOf(pos) == pos \div PageSize
LastSeg(pos, size) == (pos + size - 1) \div PageSize

\* WriteAligned.  The disk is full for segment bad, at most one in a call: no
\* page is allocated, and of the chunk the storage file takes only the first
\* bytes.
WriteAligned_ResultIgnored(st, s, pos, size, bad, taken) ==
    LET b == ChunkBegin(s, pos)
        e == ChunkEnd(s, pos, size)
        sp == WithPage(st, s, s = bad)
        end == IF s = bad THEN b + taken ELSE e IN
    IF sp.page[s] = NoPage THEN sp
    ELSE [sp EXCEPT !.storage[sp.page[s]] =
                        [o \in Offsets |-> IF b <= o /\ o < end THEN s * PageSize + o ELSE @[o]],
                    !.ranges[s] = EnforceRange(@, b, e)]

WriteAligned(st, s, pos, size, bad, taken) ==
    LET b == ChunkBegin(s, pos)
        e == ChunkEnd(s, pos, size)
        sp == WithPage(st, s, s = bad)
        end == IF s = bad THEN b + taken ELSE e IN
    IF sp.page[s] = NoPage THEN sp
    ELSE [sp EXCEPT !.storage[sp.page[s]] =
                        [o \in Offsets |-> IF b <= o /\ o < end THEN s * PageSize + o ELSE @[o]],
                    !.ranges[s] = IF s = bad THEN @ ELSE EnforceRange(@, b, e)]

\* The bytes of the positions in S are no longer the latest.
Outdated(S) ==
    [g \in Pages |-> [o \in Offsets |->
        IF storage[g][o] \in S THEN Stale ELSE storage[g][o]]]

State(written) ==
    [capacity |-> capacity, storage |-> Outdated(written), page |-> page,
     ranges |-> ranges, lastRead |-> lastRead]

\* What the cache would give for a position, or None.
Covers(list, o) == \E i \in DOMAIN list : list[i].b <= o /\ o < list[i].e

Shown(p) ==
    LET s == SegOf(p)
        o == p % PageSize IN
    IF page[s] # NoPage /\ Covers(ranges[s], o) THEN storage[page[s]][o] ELSE None

\* WriteToCache: what a call has done after each of its segments.
Written(pos, size, bad, taken) ==
    LET upTo[s \in SegOf(pos) - 1 .. LastSeg(pos, size)] ==
            IF s < SegOf(pos) THEN State(pos .. pos + size - 1)
            ELSE WriteAligned(upTo[s - 1], s, pos, size, bad, taken) IN
    upTo

Write(pos, size, bad, taken) ==
    LET written == pos .. pos + size - 1
        st == Written(pos, size, bad, taken)[LastSeg(pos, size)] IN
    /\ capacity' = st.capacity
    /\ storage' = st.storage
    /\ page' = st.page
    /\ ranges' = st.ranges
    /\ lastRead' = st.lastRead
    /\ torn' = (torn \ written) \cup {p \in written : SegOf(p) = bad /\ Shown(p) # None}
    /\ UNCHANGED clock

\* ReadFromCache changes nothing (UpdateLastRead does nothing): how many bytes
\* it gives from pos on, chunk after chunk up to the first incomplete one.
ReadAligned(s, pos, size) ==
    IF page[s] = NoPage THEN 0
    ELSE HaveRange(ranges[s], ChunkBegin(s, pos), ChunkEnd(s, pos, size))

ReadChunk_GoesOn(acc, s, pos, size) ==
    [acc EXCEPT !.out = @ + ReadAligned(s, pos, size)]

ReadChunk(acc, s, pos, size) ==
    LET got == ReadAligned(s, pos, size) IN
    IF acc.done THEN acc
    ELSE [out |-> acc.out + got,
          done |-> got # ChunkEnd(s, pos, size) - ChunkBegin(s, pos)]

Reads(pos, size) ==
    LET upTo[s \in SegOf(pos) - 1 .. LastSeg(pos, size)] ==
            IF s < SegOf(pos) THEN [out |-> 0, done |-> FALSE]
            ELSE ReadChunk(upTo[s - 1], s, pos, size) IN
    upTo

ReadSize(pos, size) == Reads(pos, size)[LastSeg(pos, size)].out

\* CleanDataCache and CleanFileFromDataCache drop the file's cache, and with
\* it the storage file; the next write begins another one.
Clean ==
    /\ capacity > 0
    /\ capacity' = 0
    /\ page' = [s \in Segs |-> NoPage]
    /\ ranges' = [s \in Segs |-> <<>>]
    /\ lastRead' = [s \in Segs |-> 0]
    /\ storage' = [g \in Pages |-> [o \in Offsets |-> Stale]]
    /\ torn' = {}
    /\ UNCHANGED clock

Tick ==
    /\ clock < MaxTick
    /\ clock' = clock + 1
    /\ UNCHANGED <<capacity, storage, page, ranges, lastRead, torn>>

\* The disk is full for no segment (NoPage), or for one that is written to.
WriteSizes(pos) == {n \in 1 .. MaxWrite : pos + n <= Segments * PageSize}

Next ==
    \/ \E pos \in Positions : \E size \in WriteSizes(pos) :
        \/ Write(pos, size, NoPage, 0)
        \/ \E bad \in SegOf(pos) .. LastSeg(pos, size) :
           \E taken \in 0 .. ChunkEnd(bad, pos, size) - ChunkBegin(bad, pos) - 1 :
               Write(pos, size, bad, taken)
    \/ Clean
    \/ Tick

Spec == Init /\ [][Next]_vars

----------------------------------------------------------------------------
DCTypeOK ==
    /\ capacity \in 0 .. MaxPages
    /\ storage \in [Pages -> [Offsets -> Positions \cup {Stale}]]
    /\ page \in [Segs -> Pages \cup {NoPage}]
    /\ \A s \in Segs : \A i \in DOMAIN ranges[s] :
           ranges[s][i] \in [b : Offsets, e : 1 .. PageSize]
    /\ lastRead \in [Segs -> 0 .. MaxTick] /\ clock \in 0 .. MaxTick
    /\ torn \subseteq Positions

\* Two segments never share a page of the storage file, and only allocated
\* pages are used, however often pages change hands.
PagesAreExclusive ==
    \A s, t \in Segs : page[s] # NoPage =>
        page[s] < capacity /\ (page[s] = page[t] => s = t)

\* The ranges of a segment stay apart, so the first that has an offset has all
\* there is after it: what EnforceRange's single pass and HaveRange rely on.
RangesApart ==
    \A s \in Segs : \A i, j \in DOMAIN ranges[s] :
        /\ ranges[s][i].b < ranges[s][i].e
        /\ i # j => ranges[s][i].e < ranges[s][j].b \/ ranges[s][j].e < ranges[s][i].b

\* The cache gives the byte last written at a position, never what another
\* segment had in that page or the byte before; only a write the disk refused
\* half-way leaves the older byte there.
ShowsLatest == \A p \in Positions \ torn : Shown(p) \in {None, p}

\* A read gives everything up to the first byte that is not in the cache.
ReadGivesAllItHas ==
    \A pos \in Positions : \A size \in 1 .. Segments * PageSize - pos :
        LET n == ReadSize(pos, size) IN
        /\ n <= size
        /\ \A p \in pos .. pos + n - 1 : Shown(p) # None
        /\ n < size => Shown(pos + n) = None

\* EnforceRange adds exactly the needed bytes, whatever ranges it merges, for
\* every list that occurs: nothing is forgotten, nothing made up.
EnforceRangeIsUnion ==
    \A s \in Segs : \A b \in Offsets : \A e \in b + 1 .. PageSize :
        LET list == EnforceRange(ranges[s], b, e) IN
        \A o \in Offsets : Covers(list, o) <=> Covers(ranges[s], o) \/ (b <= o /\ o < e)

\* What the callers can tell of the byte that a read gives for a position.
Kind(p) == IF Shown(p) = None THEN "none" ELSE IF Shown(p) = p THEN "last" ELSE "older"

FC == INSTANCE FileCache WITH Places <- Positions, shown <- [p \in Positions |-> Kind(p)]

\* Whatever ranges merge, pages change hands and writes fail half-way: for each
\* position the cache gives what was last given to it, or nothing, or, where it
\* had something when a write of it failed, still that; it never makes a byte up
\* and never brings one back that it had forgotten or replaced.
ImplementsFileCache == FC!Spec
=============================================================================
