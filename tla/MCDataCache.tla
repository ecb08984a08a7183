---------------------------- MODULE MCDataCache ----------------------------
(***************************************************************************)
(* Two small instances of DataCache in one run of TLC, of which one works  *)
(* in a behaviour and the other stays as it was at the start.  The one of  *)
(* the cfg has pages of three bytes, the least that can hold two ranges    *)
(* with a gap between them, and a single page for two segments.  The other *)
(* one has more pages and segments, of one byte each, so that the page to  *)
(* be taken is a choice and one write can take the same page twice.        *)
(***************************************************************************)
EXTENDS DataCache

VARIABLES instance, manyCapacity, manyStorage, manyPage, manyRanges, manyLastRead,
          manyClock, manyTorn

Many == INSTANCE DataCache WITH
    PageSize <- 1, Segments <- 4, MaxPages <- 2, MaxWrite <- 3, MaxTick <- 2,
    capacity <- manyCapacity, storage <- manyStorage, page <- manyPage, ranges <- manyRanges,
    lastRead <- manyLastRead, clock <- manyClock, torn <- manyTorn

manyVars == <<manyCapacity, manyStorage, manyPage, manyRanges, manyLastRead, manyClock, manyTorn>>

MCInit == Init /\ Many!Init /\ instance \in {"wide pages", "many pages"}

MCNext ==
    /\ UNCHANGED instance
    /\ \/ instance = "wide pages" /\ Next /\ UNCHANGED manyVars
       \/ instance = "many pages" /\ Many!Next /\ UNCHANGED vars

MCSpec == MCInit /\ [][MCNext]_<<vars, instance, manyVars>>

----------------------------------------------------------------------------
\* The properties of DataCache hold of the other instance, too: pages that
\* change hands in the order of their assignment, in one write even twice, keep
\* no byte of the segment that had them.
ManyPagesOK ==
    /\ Many!DCTypeOK
    /\ Many!PagesAreExclusive
    /\ Many!RangesApart
    /\ Many!EnforceRangeIsUnion
    /\ Many!ShowsLatest
    /\ Many!ReadGivesAllItHas
=============================================================================
