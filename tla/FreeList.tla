------------------------------ MODULE FreeList ------------------------------
(***************************************************************************)
(* class FreeList (include/boltdb/page/freelist.hpp, src/page/freelist.cpp)*)
(* as one object whose operations are called in any order, together with   *)
(* the freelist page it was last written to.                               *)
(*                                                                         *)
(* ids_ and the vectors of pending_ are bags of page ids: [Page -> Nat]    *)
(* gives each page its number of occurrences, so a page listed twice is    *)
(* visible.  The order of a vector is left out: ids_ is sorted by every    *)
(* operation that fills it, and a pending vector is only sorted, searched  *)
(* or iterated to completion.                                              *)
(***************************************************************************)
EXTENDS Naturals, FiniteSets

CONSTANTS MaxPage,       \* the last page id of the file
          MaxTxn,        \* the last transaction id
          MaxOverflow,   \* bound on Page::overflow of a freed page
          MaxRun         \* bound on the length of an allocated block

ASSUME FreeListAssumption ==
  /\ MaxPage \in Nat
  /\ MaxTxn \in Nat
  /\ MaxOverflow \in Nat
  /\ MaxRun \in Nat

Page == 0 .. MaxPage
TxnId == 0 .. MaxTxn

VARIABLES ids,       \* ids_: free pages, as a bag
          pending,   \* pending_[t]: pages freed by t, as a bag; empty = no entry
          cache,     \* the keys of cache_
          image      \* the ids on the freelist page, as a bag

vars == <<ids, pending, cache, image>>

Bag == [Page -> Nat]
NoPages == [p \in Page |-> 0]
PagesOf(bag) == {p \in Page : bag[p] > 0}

\* The page ids first, first + 1, ..., of which there are n.
Run(first, n) == {q \in Page : first <= q /\ q < first + n}

MergeTwo(v1, v2) == [p \in Page |-> v1[p] + v2[p]]

\* sorted_pending_pgids_impl: the pending pages of the transactions in T.
SortedPending(T) ==
  [p \in Page |->
     Cardinality(UNION {{t} \X (1 .. pending[t][p]) : t \in T})]

PendingPages(T) == UNION {PagesOf(pending[t]) : t \in T}
Tracked == PagesOf(ids) \cup PendingPages(TxnId)

-----------------------------------------------------------------------------
\* The loop's window test: n list entries in a row whose ids grow by one.  An
\* id that is listed twice restarts the window, so only the ends may repeat.
Contiguous(first, n) ==
  /\ n > 0
  /\ first + n - 1 <= MaxPage
  /\ Run(first, n) \subseteq PagesOf(ids)
  /\ \A q \in Run(first, n) : first < q /\ q < first + n - 1 => ids[q] = 1

\* The block the scan of the sorted vector reaches first.
FirstRun(first, n) ==
  /\ Contiguous(first, n)
  /\ \A p \in Page : Contiguous(p, n) => first <= p

\* Faulty variant of AllocateContiguous: the erased range ends one entry too far.
AllocateOneTooMany(first, n) ==
  /\ FirstRun(first, n)
  /\ ids' = [q \in Page |-> IF q \in Run(first, n + 1) THEN ids[q] - 1 ELSE ids[q]]
  /\ cache' = cache \ Run(first, n)
  /\ UNCHANGED <<pending, image>>

\* Faulty variant of AllocateContiguous: the block stays in the cache.
AllocateKeepsCache(first, n) ==
  /\ \A q \in Page : q <= 1 => ids[q] = 0
  /\ FirstRun(first, n)
  /\ ids' = [q \in Page |-> IF q \in Run(first, n) THEN ids[q] - 1 ELSE ids[q]]
  /\ UNCHANGED <<pending, cache, image>>

\* allocate_contiguous(n) returning first; the scan throws on a reserved id.
AllocateContiguous(first, n) ==
  /\ \A q \in Page : q <= 1 => ids[q] = 0
  /\ FirstRun(first, n)
  /\ ids' = [q \in Page |-> IF q \in Run(first, n) THEN ids[q] - 1 ELSE ids[q]]
  /\ cache' = cache \ Run(first, n)
  /\ UNCHANGED <<pending, image>>

\* Faulty variants of FreeTurns: only the first page is looked up in the cache; and
\* the meta pages are not refused.
FreeTurnsChecksFirst(t, p, overflow, k) ==
  /\ p > 1
  /\ k = overflow + 1
  /\ p + overflow <= MaxPage
  /\ p \notin cache
  /\ pending' = [pending EXCEPT ![t] =
                   [q \in Page |-> @[q] + IF q \in Run(p, k) THEN 1 ELSE 0]]
  /\ cache' = cache \cup Run(p, k)
  /\ UNCHANGED <<ids, image>>

FreeTurnsAnyPage(t, p, overflow, k) ==
  /\ k = overflow + 1
  /\ p + overflow <= MaxPage
  /\ Run(p, k) \cap cache = {}
  /\ pending' = [pending EXCEPT ![t] =
                   [q \in Page |-> @[q] + IF q \in Run(p, k) THEN 1 ELSE 0]]
  /\ cache' = cache \cup Run(p, k)
  /\ UNCHANGED <<ids, image>>

\* free(t, page) for a page p with the given overflow, after k turns of its loop:
\* it adds the pages one by one and throws at the first one that is cached.
FreeTurns(t, p, overflow, k) ==
  /\ p > 1
  /\ p + overflow <= MaxPage
  /\ Run(p, k) \cap cache = {}
  /\ k <= overflow => p + k \in cache
  /\ pending' = [pending EXCEPT ![t] =
                   [q \in Page |-> @[q] + IF q \in Run(p, k) THEN 1 ELSE 0]]
  /\ cache' = cache \cup Run(p, k)
  /\ UNCHANGED <<ids, image>>

Free(t, p, overflow) == \E k \in 0 .. overflow + 1 : FreeTurns(t, p, overflow, k)

\* Faulty variants of Release: ids_ is replaced and not merged into; and every
\* transaction's pages are released.
ReleaseReplaces(t) ==
  LET older == {u \in TxnId : u <= t}
  IN  /\ ids' = SortedPending(older)
      /\ pending' = [u \in TxnId |-> IF u \in older THEN NoPages ELSE pending[u]]
      /\ UNCHANGED <<cache, image>>

ReleaseAll(t) ==
  /\ ids' = MergeTwo(SortedPending(TxnId), ids)
  /\ pending' = [u \in TxnId |-> NoPages]
  /\ UNCHANGED <<cache, image>>

\* release(t): the pages of t and of every older transaction join ids_.
Release(t) ==
  LET older == {u \in TxnId : u <= t}
  IN  /\ ids' = MergeTwo(SortedPending(older), ids)
      /\ pending' = [u \in TxnId |-> IF u \in older THEN NoPages ELSE pending[u]]
      /\ UNCHANGED <<cache, image>>

Rollback(t) ==
  /\ cache' = cache \ PagesOf(pending[t])
  /\ pending' = [pending EXCEPT ![t] = NoPages]
  /\ UNCHANGED <<ids, image>>

\* Faulty variant of WriteTo: pages still pending are not written.
WriteFreeOnly ==
  /\ image' = ids
  /\ UNCHANGED <<ids, pending, cache>>

\* write_to(page), for fewer ids than kSpecialCount (FreeListPage has the rest).
WriteTo ==
  /\ image' = MergeTwo(ids, SortedPending(TxnId))
  /\ UNCHANGED <<ids, pending, cache>>

\* Faulty variant of Reindexed: a rebuild that forgets the pending pages.
ReindexedFreeOnly(old, free, pend) == PagesOf(free)

\* reindex(): adds to the cache and removes nothing from it.
Reindexed(old, free, pend) == old \cup PagesOf(free) \cup pend

\* Faulty variant of Reload: the pending pages are not filtered out.
ReloadUnfiltered ==
  /\ ids' = image
  /\ cache' = Reindexed(cache, image, PendingPages(TxnId))
  /\ UNCHANGED <<pending, image>>

\* reload(page): read_from and its reindex, then the filter and its reindex.
Reload ==
  LET read == Reindexed(cache, image, PendingPages(TxnId))
      left == [p \in Page |-> IF p \in PendingPages(TxnId) THEN 0 ELSE image[p]]
  IN  /\ ids' = left
      /\ cache' = Reindexed(read, left, PendingPages(TxnId))
      /\ UNCHANGED <<pending, image>>

\* A new process: a default constructed object, then read_from(page).
Restart ==
  /\ ids' = image
  /\ pending' = [t \in TxnId |-> NoPages]
  /\ cache' = Reindexed({}, image, {})
  /\ UNCHANGED image

-----------------------------------------------------------------------------
Init ==
  /\ ids = NoPages
  /\ pending = [t \in TxnId |-> NoPages]
  /\ cache = {}
  /\ image = NoPages

Next ==
  \/ \E first \in Page, n \in 1 .. MaxRun : AllocateContiguous(first, n)
  \/ \E t \in TxnId, p \in Page, overflow \in 0 .. MaxOverflow :
       Free(t, p, overflow)
  \/ \E t \in TxnId : Release(t)
  \/ \E t \in TxnId : Rollback(t)
  \/ WriteTo
  \/ Reload
  \/ Restart

Spec == Init /\ [][Next]_vars

-----------------------------------------------------------------------------
\* Type invariant: the three containers and the page hold page ids.
TypeOK ==
  /\ ids \in Bag
  /\ pending \in [TxnId -> Bag]
  /\ cache \in SUBSET Page
  /\ image \in Bag

\* A page is listed at most once in all of ids_ and pending_ together, whatever
\* operations came before: one listed twice is handed to two owners by
\* allocate_contiguous (freelist.cpp 31-71) or freed twice by a crash.
TrackedOnce ==
  \A p \in Page :
    /\ ids[p] <= 1
    /\ \A t \in TxnId : pending[t][p] <= 1
    /\ \A t \in TxnId : ids[p] = 1 => pending[t][p] = 0
    /\ \A t, u \in TxnId : pending[t][p] = 1 /\ pending[u][p] = 1 => t = u

\* The lookup cache knows every free and pending page (freelist.hpp 90): it is
\* all that free (freelist.cpp 87) consults before it accepts a page.
CacheCovers == Tracked \subseteq cache

\* The freelist page a restart reads never lists a page twice and never lists a
\* meta page, so the scan of allocate_contiguous cannot throw (freelist.cpp 42).
ImageSound ==
  /\ \A p \in Page : image[p] <= 1
  /\ \A p \in Page : p <= 1 => p \notin Tracked \cup PagesOf(image)

\* What freelist.hpp 53-55 and 74 promise: is_freed answers true for free and
\* pending pages only, the cache being rebuilt from those two lists.
CacheExact == cache = Tracked

\* The class keeps the promise of PageLedger: sets, no cache, no duplicates.
Ledger == INSTANCE PageLedger
            WITH free <- PagesOf(ids),
                 held <- [t \in TxnId |-> PagesOf(pending[t])],
                 saved <- PagesOf(image)

\* Every step of the class is a step of the ledger or leaves the ledger alone:
\* a cache that misses a page or a page listed twice would break it.
ImplementsLedger == Ledger!LedgerSpec
=============================================================================
