----------------------------- MODULE MCFreeList -----------------------------
(* FreeList beside the page it is written to: every list the class can hold, *)
(* which TrackedOnce shows to be a set, in the format of FreeListPage.       *)
EXTENDS FreeList, FreeListPage

CONSTANT Stale      \* what a recycled page may hold before it is written

\* The vector write_to copies to the page: the ids of ids_ and of pending_, sorted.
SortedIds ==
  [k \in 1 .. Cardinality(Tracked) |->
     CHOOSE p \in Tracked : Cardinality({q \in Tracked : q <= p}) = k]

\* The page of any list the operations can lead to reads back as the same ids in the
\* same order, free and pending alike, whatever the page's memory held before
\* (freelist.cpp 172-175, freelist.hpp 65-67, freelist_test.cpp 147-153).
RoundTrip ==
  \A word \in Stale : ReadIds(WriteIds(SortedIds, BlankPage(word))) = SortedIds

\* write_to fills exactly what byte_size announces (freelist.hpp 24), which counts what
\* is free and what is pending by different members: nothing lies outside of the
\* size a caller reserves, and none of it keeps old bytes.
FitsByteSize ==
  Stored(Len(SortedIds)) =
    0 .. ByteSize(Cardinality(PagesOf(ids)), Cardinality(PendingPages(TxnId))) - 1
=============================================================================
