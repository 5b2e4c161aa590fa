--------------------------- MODULE FreeListProofs ---------------------------
(***************************************************************************)
(* Proofs about the free list: its invariants and that it implements       *)
(* PageLedger; that its page, in the narrow form, is read back as it was   *)
(* written; and that under transactions nothing is lost, leaked or reused  *)
(* too early and the composition implements SnapshotPages.                 *)
(***************************************************************************)
EXTENDS FreeListTxns, MCFreeList, FiniteSetTheorems, TLAPS

-----------------------------------------------------------------------------
(* The class FreeList.                                                       *)

\* The parts of the invariant are inductive together, not one by one: free and
\* reload keep TrackedOnce only because of CacheCovers and ImageSound.
Inv == TypeOK /\ TrackedOnce /\ CacheCovers /\ ImageSound

\* Under TrackedOnce, the pending vector of a transaction is a set of pages.
LEMMA PendingCounts ==
  ASSUME TypeOK, TrackedOnce
  PROVE  \A t \in TxnId, p \in Page : pending[t][p] \in {0, 1}
<1> TAKE t \in TxnId, p \in Page
<1>1. pending[t] \in [Page -> Nat]
  BY DEF TypeOK, Bag
<1>2. pending[t][p] \in Nat /\ pending[t][p] <= 1
  BY <1>1 DEF TrackedOnce
<1> QED  BY <1>2

LEMMA FreeCounts ==
  ASSUME TypeOK, TrackedOnce
  PROVE  \A p \in Page : ids[p] \in {0, 1}
BY DEF TypeOK, TrackedOnce, Bag

\* Under TrackedOnce, collecting the pending vectors of some transactions gives
\* each of their pages exactly one occurrence.
LEMMA SortedPendingValue ==
  ASSUME TypeOK, TrackedOnce, NEW T \in SUBSET TxnId, NEW p \in Page
  PROVE  SortedPending(T)[p] = IF p \in PendingPages(T) THEN 1 ELSE 0
<1> DEFINE Occ(t) == {t} \X (1 .. pending[t][p])
           Occs == UNION {Occ(t) : t \in T}
<1>1. SortedPending(T)[p] = Cardinality(Occs)
  BY DEF SortedPending
<1>2. \A t \in T : pending[t][p] \in {0, 1}
  BY PendingCounts
<1>3. \A t \in T : pending[t][p] = 0 => Occ(t) = {}
  OBVIOUS
<1>4. \A t \in T : pending[t][p] = 1 => Occ(t) = {<<t, 1>>}
  <2>1. 1 .. 1 = {1}
    OBVIOUS
  <2> QED  BY <2>1
<1>5. p \in PendingPages(T) <=> \E t \in T : pending[t][p] = 1
  BY <1>2 DEF PendingPages, PagesOf
<1>6. CASE p \in PendingPages(T)
  <2>1. PICK t \in T : pending[t][p] = 1
    BY <1>5, <1>6
  <2>2. \A u \in T : u # t => pending[u][p] = 0
    BY <1>2, <2>1 DEF TrackedOnce
  <2>3. Occs = {<<t, 1>>}
    BY <1>3, <1>4, <2>1, <2>2
  <2> QED  BY <1>1, <1>6, <2>3, FS_Singleton
<1>7. CASE p \notin PendingPages(T)
  <2>1. Occs = {}
    BY <1>2, <1>3, <1>5, <1>7
  <2> QED  BY <1>1, <1>7, <2>1, FS_EmptySet
<1> QED  BY <1>6, <1>7

LEMMA SortedPendingType ==
  ASSUME TypeOK, TrackedOnce, NEW T \in SUBSET TxnId
  PROVE  /\ SortedPending(T) \in Bag
         /\ PagesOf(SortedPending(T)) = PendingPages(T)
<1>1. \A p \in Page : SortedPending(T)[p] = IF p \in PendingPages(T) THEN 1 ELSE 0
  BY SortedPendingValue
<1>2. SortedPending(T) = [p \in Page |-> SortedPending(T)[p]]
  BY DEF SortedPending
<1>3. SortedPending(T) \in Bag
  BY <1>1, <1>2 DEF Bag
<1>4. PendingPages(T) \subseteq Page
  BY DEF PendingPages, PagesOf
<1> QED  BY <1>1, <1>3, <1>4 DEF PagesOf

\* A page is not in ids_ and in the pending vector of a transaction at once.
LEMMA FreeOrPending ==
  ASSUME TypeOK, TrackedOnce
  PROVE  PagesOf(ids) \cap PendingPages(TxnId) = {}
<1> SUFFICES ASSUME NEW p \in PagesOf(ids), NEW t \in TxnId, p \in PagesOf(pending[t])
             PROVE  FALSE
  BY DEF PendingPages
<1>1. p \in Page /\ ids[p] > 0 /\ pending[t][p] > 0
  BY DEF PagesOf
<1>2. ids[p] = 1
  BY <1>1 DEF TypeOK, TrackedOnce, Bag
<1> QED  BY <1>1, <1>2 DEF TrackedOnce, TypeOK, Bag

\* What ids_ and the pending pages of T merge to, as release and write_to do it.
LEMMA MergedOnce ==
  ASSUME Inv, NEW T \in SUBSET TxnId
  PROVE  LET merged == [p \in Page |-> ids[p] + SortedPending(T)[p]]
         IN  /\ merged \in Bag
             /\ \A p \in Page : merged[p] <= 1
             /\ PagesOf(merged) = PagesOf(ids) \cup PendingPages(T)
<1> DEFINE merged == [p \in Page |-> ids[p] + SortedPending(T)[p]]
<1>1. \A p \in Page : SortedPending(T)[p] = IF p \in PendingPages(T) THEN 1 ELSE 0
  BY SortedPendingValue DEF Inv
<1>2. \A p \in Page : ids[p] \in {0, 1}
  BY FreeCounts DEF Inv
<1>3. \A p \in PendingPages(T) : ids[p] = 0
  <2>1. PendingPages(T) \subseteq PendingPages(TxnId) /\ PendingPages(T) \subseteq Page
    BY DEF PendingPages, PagesOf
  <2> QED  BY <1>2, <2>1, FreeOrPending DEF Inv, PagesOf
<1>4. PendingPages(T) \subseteq Page
  BY DEF PendingPages, PagesOf
<1>5. merged \in Bag /\ \A p \in Page : merged[p] <= 1
  BY <1>1, <1>2, <1>3 DEF Bag
<1>6. \A p \in Page : merged[p] > 0 <=> ids[p] > 0 \/ p \in PendingPages(T)
  BY <1>1, <1>2
<1>7. PagesOf(merged) = PagesOf(ids) \cup PendingPages(T)
  BY <1>4, <1>6 DEF PagesOf
<1> QED  BY <1>5, <1>7

-----------------------------------------------------------------------------
LEMMA InitInv == Init => Inv
<1> SUFFICES ASSUME Init PROVE Inv
  OBVIOUS
<1>1. TypeOK
  BY DEF Init, TypeOK, NoPages, Bag
<1>2. Tracked = {} /\ PagesOf(image) = {}
  BY DEF Init, Tracked, PendingPages, PagesOf, NoPages
<1>3. TrackedOnce /\ ImageSound
  BY <1>2 DEF Init, TrackedOnce, ImageSound, NoPages
<1> QED  BY <1>1, <1>2, <1>3 DEF Inv, CacheCovers

\* An operation that leaves every page with at most one listing, covered by the
\* cache and not reserved, preserves the invariant.  The steps below show this
\* of the primed variables.
LEMMA AllocatePreserves ==
  ASSUME Inv, NEW first \in Page, NEW n \in Nat, AllocateContiguous(first, n)
  PROVE  Inv'
<1>1. \A q \in Page : ids[q] \in {0, 1}
  BY FreeCounts DEF Inv
<1> USE DEF AllocateContiguous
<1>2. \A q \in Run(first, n) : ids[q] = 1
  BY <1>1 DEF FirstRun, Contiguous, PagesOf
<1>3. \A q \in Page : ids'[q] = IF q \in Run(first, n) THEN 0 ELSE ids[q]
  BY <1>2
<1>4. ids' \in Bag
  BY <1>1, <1>3 DEF Bag
<1>5. TypeOK'
  BY <1>4 DEF Inv, TypeOK
<1>6. \A q \in Page : ids'[q] <= 1 /\ (ids'[q] = 1 => ids[q] = 1)
  BY <1>1, <1>3
<1>7. TrackedOnce'
  BY <1>6 DEF Inv, TrackedOnce
<1>8. PagesOf(ids)' = PagesOf(ids) \ Run(first, n)
  BY <1>1, <1>3 DEF PagesOf
<1>9. PendingPages(TxnId)' = PendingPages(TxnId)
  BY DEF PendingPages, PagesOf
<1>10. Run(first, n) \subseteq PagesOf(ids)
  BY DEF FirstRun, Contiguous
<1>11. Run(first, n) \cap PendingPages(TxnId) = {}
  BY <1>10, FreeOrPending DEF Inv
<1>12. CacheCovers'
  BY <1>8, <1>9, <1>11 DEF Inv, CacheCovers, Tracked
<1>13. ImageSound'
  BY <1>8, <1>9 DEF Inv, ImageSound, Tracked, PagesOf
<1> QED  BY <1>5, <1>7, <1>12, <1>13 DEF Inv

LEMMA FreePreserves ==
  ASSUME Inv, NEW t \in TxnId, NEW p \in Page, NEW overflow \in Nat,
         NEW k \in 0 .. overflow + 1, FreeTurns(t, p, overflow, k)
  PROVE  /\ Inv'
         /\ \A u \in TxnId, q \in Page :
              pending'[u][q] = IF u = t /\ q \in Run(p, k) THEN 1 ELSE pending[u][q]
         /\ Run(p, k) \cap Tracked = {}
<1>1. /\ Run(p, k) \cap cache = {}
      /\ pending' = [pending EXCEPT ![t] =
                       [q \in Page |-> @[q] + IF q \in Run(p, k) THEN 1 ELSE 0]]
      /\ cache' = cache \cup Run(p, k)
  BY DEF FreeTurns
<1>2. UNCHANGED <<ids, image>> /\ p > 1
  BY DEF FreeTurns
<1>3. \A u \in TxnId, q \in Page : pending[u][q] \in {0, 1}
  BY PendingCounts DEF Inv
<1>4. \A q \in Run(p, k) : q \in Page /\ q > 1
  BY <1>2 DEF Run, Page
<1>5. \A q \in Run(p, k) : ids[q] = 0 /\ \A u \in TxnId : pending[u][q] = 0
  <2> TAKE q \in Run(p, k)
  <2>1. q \in Page /\ q \notin Tracked
    BY <1>1, <1>4 DEF Inv, CacheCovers
  <2>2. ids[q] = 0
    BY <2>1 DEF Tracked, PagesOf, Inv, TypeOK, Bag
  <2>3. ASSUME NEW u \in TxnId PROVE pending[u][q] = 0
    BY <2>1, <1>3 DEF Tracked, PendingPages, PagesOf
  <2> QED  BY <2>2, <2>3
<1>6. pending \in [TxnId -> Bag]
  BY DEF Inv, TypeOK
<1>7. pending'[t] = [q \in Page |-> pending[t][q] + IF q \in Run(p, k) THEN 1 ELSE 0]
  BY <1>1, <1>6
<1>8. \A u \in TxnId : u # t => pending'[u] = pending[u]
  BY <1>1, <1>6
<1>9. \A u \in TxnId, q \in Page :
        pending'[u][q] = IF u = t /\ q \in Run(p, k) THEN 1 ELSE pending[u][q]
  BY <1>3, <1>5, <1>7, <1>8
<1>10. TypeOK'
  <2>1. pending'[t] \in Bag
    BY <1>3, <1>7 DEF Bag
  <2>2. pending' \in [TxnId -> Bag]
    BY <1>1, <1>6, <2>1
  <2>3. cache' \in SUBSET Page
    BY <1>1, <1>4 DEF Inv, TypeOK
  <2> QED  BY <1>2, <2>2, <2>3 DEF Inv, TypeOK
<1>11. TrackedOnce'
  <2> SUFFICES ASSUME NEW q \in Page
               PROVE  /\ ids[q] <= 1
                      /\ \A u \in TxnId : pending'[u][q] <= 1
                      /\ \A u \in TxnId : ids[q] = 1 => pending'[u][q] = 0
                      /\ \A u, w \in TxnId :
                           pending'[u][q] = 1 /\ pending'[w][q] = 1 => u = w
    BY <1>2 DEF TrackedOnce
  <2>1. CASE q \in Run(p, k)
    BY <1>5, <1>9, <2>1
  <2>2. CASE q \notin Run(p, k)
    BY <1>9, <2>2 DEF Inv, TrackedOnce
  <2> QED  BY <2>1, <2>2
<1>12. PendingPages(TxnId)' = PendingPages(TxnId) \cup Run(p, k)
  <2>1. \A q \in Page : q \in PendingPages(TxnId)' <=> \E u \in TxnId : pending'[u][q] > 0
    BY DEF PendingPages, PagesOf
  <2>2. \A q \in Page : q \in PendingPages(TxnId) <=> \E u \in TxnId : pending[u][q] > 0
    BY DEF PendingPages, PagesOf
  <2>3. PendingPages(TxnId)' \subseteq Page /\ PendingPages(TxnId) \subseteq Page
    BY DEF PendingPages, PagesOf
  <2>4. \A q \in Page : (\E u \in TxnId : pending'[u][q] > 0)
                          <=> (\E u \in TxnId : pending[u][q] > 0) \/ q \in Run(p, k)
    BY <1>5, <1>9
  <2> QED  BY <1>4, <2>1, <2>2, <2>3, <2>4
<1>13. PagesOf(ids)' = PagesOf(ids) /\ PagesOf(image)' = PagesOf(image)
  BY <1>2 DEF PagesOf
<1>14. CacheCovers'
  BY <1>1, <1>12, <1>13 DEF Inv, CacheCovers, Tracked
<1>15. ImageSound'
  <2>1. \A q \in Page : q <= 1 => q \notin Run(p, k)
    BY <1>4 DEF Page
  <2> QED  BY <1>2, <1>12, <1>13, <2>1 DEF Inv, ImageSound, Tracked
<1>16. Run(p, k) \cap Tracked = {}
  BY <1>1 DEF Inv, CacheCovers
<1> QED  BY <1>9, <1>10, <1>11, <1>14, <1>15, <1>16 DEF Inv

\* release merges its pending pages into ids_; merge_two does not care for order.
LEMMA ReleaseMerges ==
  ASSUME Inv, NEW t \in TxnId, Release(t)
  PROVE  ids' = [q \in Page |-> ids[q] + SortedPending({u \in TxnId : u <= t})[q]]
<1> DEFINE S == SortedPending({u \in TxnId : u <= t})
<1>1. ids' = [q \in Page |-> S[q] + ids[q]]
  BY DEF Release, MergeTwo
<1>2. S \in Bag /\ ids \in Bag
  BY SortedPendingType DEF Inv, TypeOK
<1>3. \A q \in Page : S[q] \in Nat /\ ids[q] \in Nat
  BY <1>2 DEF Bag
<1> HIDE DEF S
<1>4. \A q \in Page : S[q] + ids[q] = ids[q] + S[q]
  BY <1>3
<1> QED  BY <1>1, <1>4 DEF S

LEMMA ReleasePreserves ==
  ASSUME Inv, NEW t \in TxnId, Release(t)
  PROVE  Inv'
<1> DEFINE older == {u \in TxnId : u <= t}
<1>2. ids' = [q \in Page |-> ids[q] + SortedPending(older)[q]]
  BY ReleaseMerges
<1>3. /\ ids' \in Bag
      /\ \A q \in Page : ids'[q] <= 1
      /\ PagesOf(ids)' = PagesOf(ids) \cup PendingPages(older)
  <2>1. older \in SUBSET TxnId
    OBVIOUS
  <2> HIDE DEF older
  <2> QED  BY <1>2, <2>1, MergedOnce DEF PagesOf
<1>4. pending' = [u \in TxnId |-> IF u \in older THEN NoPages ELSE pending[u]]
  BY DEF Release
<1>5. UNCHANGED <<cache, image>>
  BY DEF Release
<1>6. \A u \in TxnId, q \in Page :
        pending'[u][q] = IF u \in older THEN 0 ELSE pending[u][q]
  BY <1>4 DEF NoPages
<1>7. TypeOK'
  <2>1. NoPages \in Bag
    BY DEF NoPages, Bag
  <2>2. pending' \in [TxnId -> Bag]
    BY <1>4, <2>1 DEF Inv, TypeOK
  <2> QED  BY <1>3, <1>5, <2>2 DEF Inv, TypeOK
<1>8. \A u \in TxnId, q \in Page : pending[u][q] \in {0, 1}
  BY PendingCounts DEF Inv
<1>9. \A q \in Page, u \in TxnId : ids'[q] = 1 => pending'[u][q] = 0
  <2> SUFFICES ASSUME NEW q \in Page, NEW u \in TxnId, ids'[q] = 1, u \notin older
               PROVE  pending[u][q] = 0
    BY <1>6
  <2>1. q \in PagesOf(ids)'
    BY DEF PagesOf
  <2>2. CASE q \in PagesOf(ids)
    BY <1>8, <2>2, FreeOrPending DEF Inv, PendingPages, PagesOf
  <2>3. CASE q \in PendingPages(older)
    <3>1. PICK w \in older : pending[w][q] > 0
      BY <2>3 DEF PendingPages, PagesOf
    <3>2. pending[w][q] = 1 /\ w # u
      BY <1>8, <3>1
    <3> QED  BY <1>8, <3>2 DEF Inv, TrackedOnce
  <2> QED  BY <1>3, <2>1, <2>2, <2>3
<1>10. TrackedOnce'
  <2>1. \A q \in Page, u \in TxnId : pending'[u][q] <= 1
    BY <1>6, <1>8
  <2>2. \A q \in Page, u, w \in TxnId :
          pending'[u][q] = 1 /\ pending'[w][q] = 1 => u = w
    BY <1>6 DEF Inv, TrackedOnce
  <2> QED  BY <1>3, <1>9, <2>1, <2>2 DEF TrackedOnce
<1>11. PendingPages(TxnId)' \cup PendingPages(older) = PendingPages(TxnId)
  <2>1. \A q \in Page, u \in TxnId : q \in PagesOf(pending'[u])
           <=> u \notin older /\ q \in PagesOf(pending[u])
    BY <1>6 DEF PagesOf
  <2> QED  BY <2>1 DEF PendingPages, PagesOf
<1>12. Tracked' = Tracked
  BY <1>3, <1>11 DEF Tracked
<1>13. CacheCovers' /\ ImageSound'
  BY <1>5, <1>12 DEF Inv, CacheCovers, ImageSound, PagesOf
<1> QED  BY <1>7, <1>10, <1>13 DEF Inv

LEMMA RollbackPreserves ==
  ASSUME Inv, NEW t \in TxnId, Rollback(t)
  PROVE  Inv'
<1>1. /\ cache' = cache \ PagesOf(pending[t])
      /\ pending' = [pending EXCEPT ![t] = NoPages]
      /\ UNCHANGED <<ids, image>>
  BY DEF Rollback
<1>2. pending \in [TxnId -> Bag]
  BY DEF Inv, TypeOK
<1>3. \A u \in TxnId, q \in Page : pending'[u][q] = IF u = t THEN 0 ELSE pending[u][q]
  BY <1>1, <1>2 DEF NoPages
<1>4. \A u \in TxnId, q \in Page : pending[u][q] \in {0, 1}
  BY PendingCounts DEF Inv
<1>5. TypeOK'
  <2>1. NoPages \in Bag
    BY DEF NoPages, Bag
  <2> QED  BY <1>1, <1>2, <2>1 DEF Inv, TypeOK
<1>6. TrackedOnce'
  <2> SUFFICES ASSUME NEW q \in Page
               PROVE  /\ ids[q] <= 1
                      /\ \A u \in TxnId : pending'[u][q] <= 1
                      /\ \A u \in TxnId : ids[q] = 1 => pending'[u][q] = 0
                      /\ \A u, w \in TxnId :
                           pending'[u][q] = 1 /\ pending'[w][q] = 1 => u = w
    BY <1>1 DEF TrackedOnce
  <2> QED  BY <1>3 DEF Inv, TrackedOnce
<1>7. \A u \in TxnId, q \in Page :
        q \in PagesOf(pending'[u]) <=> u # t /\ q \in PagesOf(pending[u])
  BY <1>3 DEF PagesOf
<1>8. PendingPages(TxnId)' \subseteq PendingPages(TxnId) \ PagesOf(pending[t])
  <2> SUFFICES ASSUME NEW u \in TxnId, NEW q \in PagesOf(pending'[u])
               PROVE  q \in PendingPages(TxnId) \ PagesOf(pending[t])
    BY DEF PendingPages
  <2>1. q \in Page
    BY DEF PagesOf
  <2>2. u # t /\ q \in PagesOf(pending[u])
    BY <1>7, <2>1
  <2>3. q \notin PagesOf(pending[t])
    <3>1. pending[u][q] = 1
      BY <1>4, <2>1, <2>2 DEF PagesOf
    <3>2. pending[t][q] # 1
      BY <2>1, <2>2, <3>1 DEF Inv, TrackedOnce
    <3> QED  BY <1>4, <2>1, <3>2 DEF PagesOf
  <2> QED  BY <2>2, <2>3 DEF PendingPages
<1>9. PagesOf(ids)' = PagesOf(ids) /\ PagesOf(image)' = PagesOf(image)
  BY <1>1 DEF PagesOf
<1>10. PagesOf(ids) \cap PagesOf(pending[t]) = {}
  BY FreeOrPending DEF Inv, PendingPages
<1>11. CacheCovers'
  BY <1>1, <1>8, <1>9, <1>10 DEF Inv, CacheCovers, Tracked
<1>12. ImageSound'
  BY <1>1, <1>8, <1>9 DEF Inv, ImageSound, Tracked
<1> QED  BY <1>5, <1>6, <1>11, <1>12 DEF Inv

LEMMA WriteToPreserves ==
  ASSUME Inv, WriteTo
  PROVE  Inv'
<1>1. UNCHANGED <<ids, pending, cache>>
  BY DEF WriteTo
<1>2. image' = [q \in Page |-> ids[q] + SortedPending(TxnId)[q]]
  BY DEF WriteTo, MergeTwo
<1>3. /\ image' \in Bag
      /\ \A q \in Page : image'[q] <= 1
      /\ PagesOf(image)' = PagesOf(ids) \cup PendingPages(TxnId)
  BY <1>2, MergedOnce DEF PagesOf
<1>4. Tracked' = Tracked
  BY <1>1 DEF Tracked, PendingPages, PagesOf
<1>5. ImageSound'
  BY <1>3, <1>4 DEF Inv, ImageSound, Tracked
<1>6. TypeOK' /\ TrackedOnce' /\ CacheCovers'
  BY <1>1, <1>3, <1>4 DEF Inv, TypeOK, TrackedOnce, CacheCovers
<1> QED  BY <1>5, <1>6 DEF Inv

LEMMA ReloadPreserves ==
  ASSUME Inv, Reload
  PROVE  /\ Inv'
         /\ PagesOf(ids)' = PagesOf(image) \ PendingPages(TxnId)
<1>1. /\ ids' = [q \in Page |-> IF q \in PendingPages(TxnId) THEN 0 ELSE image[q]]
      /\ UNCHANGED <<pending, image>>
  BY DEF Reload
<1>2. cache' = cache \cup PagesOf(image) \cup PagesOf(ids') \cup PendingPages(TxnId)
  BY DEF Reload, Reindexed
<1>3. \A q \in Page : image[q] \in {0, 1}
  BY DEF Inv, TypeOK, ImageSound, Bag
<1>4. \A q \in Page : ids'[q] = IF q \in PendingPages(TxnId) THEN 0 ELSE image[q]
  BY <1>1
<1>5. PagesOf(ids)' = PagesOf(image) \ PendingPages(TxnId)
  BY <1>3, <1>4 DEF PagesOf
<1>6. PendingPages(TxnId)' = PendingPages(TxnId)
  BY <1>1 DEF PendingPages, PagesOf
<1>7. ids' \in Bag
  BY <1>1, <1>3 DEF Bag
<1>8. TypeOK'
  <2>1. PendingPages(TxnId) \subseteq Page /\ PagesOf(image) \subseteq Page
    BY DEF PendingPages, PagesOf
  <2>2. cache' \in SUBSET Page
    BY <1>2, <2>1 DEF Inv, TypeOK, PagesOf
  <2> QED  BY <1>1, <1>7, <2>2 DEF Inv, TypeOK
<1>9. \A q \in Page : ids'[q] <= 1
  BY <1>3, <1>4
<1>10. \A q \in Page, t \in TxnId : ids'[q] = 1 => pending[t][q] = 0
  <2> SUFFICES ASSUME NEW q \in Page, NEW t \in TxnId, ids'[q] = 1
               PROVE  pending[t][q] = 0
    OBVIOUS
  <2>1. q \notin PagesOf(pending[t])
    BY <1>4 DEF PendingPages
  <2> QED  BY <2>1, PendingCounts DEF Inv, PagesOf
<1>11. TrackedOnce'
  BY <1>1, <1>9, <1>10 DEF Inv, TrackedOnce
<1>12. CacheCovers'
  BY <1>2, <1>6 DEF CacheCovers, Tracked, PagesOf
<1>13. ImageSound'
  BY <1>1, <1>5, <1>6 DEF Inv, ImageSound, Tracked, PagesOf
<1> QED  BY <1>5, <1>8, <1>11, <1>12, <1>13 DEF Inv

LEMMA RestartPreserves ==
  ASSUME Inv, Restart
  PROVE  Inv'
<1>1. /\ ids' = image
      /\ pending' = [t \in TxnId |-> NoPages]
      /\ cache' = PagesOf(image)
      /\ image' = image
  BY DEF Restart, Reindexed
<1>2. \A t \in TxnId, q \in Page : pending'[t][q] = 0
  BY <1>1 DEF NoPages
<1>3. TypeOK'
  <2>1. NoPages \in Bag
    BY DEF NoPages, Bag
  <2> QED  BY <1>1, <2>1 DEF Inv, TypeOK, PagesOf
<1>4. TrackedOnce'
  BY <1>1, <1>2 DEF Inv, ImageSound, TrackedOnce
<1>5. Tracked' = PagesOf(image)
  <2>1. PendingPages(TxnId)' = {}
    BY <1>2 DEF PendingPages, PagesOf
  <2> QED  BY <1>1, <2>1 DEF Tracked, PagesOf
<1>6. CacheCovers' /\ ImageSound'
  BY <1>1, <1>5 DEF Inv, CacheCovers, ImageSound, PagesOf
<1> QED  BY <1>3, <1>4, <1>6 DEF Inv

LEMMA StepPreservesInv == Inv /\ [Next]_vars => Inv'
<1> SUFFICES ASSUME Inv, [Next]_vars PROVE Inv'
  OBVIOUS
<1>1. ASSUME NEW first \in Page, NEW n \in 1 .. MaxRun, AllocateContiguous(first, n)
      PROVE  Inv'
  BY <1>1, AllocatePreserves
<1>2. ASSUME NEW t \in TxnId, NEW p \in Page, NEW overflow \in 0 .. MaxOverflow,
             Free(t, p, overflow)
      PROVE  Inv'
  BY <1>2, FreePreserves DEF Free
<1>3. ASSUME NEW t \in TxnId, Release(t) PROVE Inv'
  BY <1>3, ReleasePreserves
<1>4. ASSUME NEW t \in TxnId, Rollback(t) PROVE Inv'
  BY <1>4, RollbackPreserves
<1>5. CASE WriteTo
  BY <1>5, WriteToPreserves
<1>6. CASE Reload
  BY <1>6, ReloadPreserves
<1>7. CASE Restart
  BY <1>7, RestartPreserves
<1>8. CASE UNCHANGED vars
  BY <1>8 DEF vars, Inv, TypeOK, TrackedOnce, CacheCovers, ImageSound, Tracked,
              PendingPages, PagesOf
<1> QED  BY <1>1, <1>2, <1>3, <1>4, <1>5, <1>6, <1>7, <1>8 DEF Next

\* Every operation of the free list, half done or not, preserves its invariant.
THEOREM Invariance == Spec => []Inv
BY InitInv, StepPreservesInv, PTL DEF Spec

\* ids_, pending_, cache_ and the page only ever hold page ids of the file.
THEOREM TypeCorrect == Spec => []TypeOK
BY Invariance, PTL DEF Inv

\* No sequence of calls on a default constructed FreeList lists a page twice, so
\* no page is handed out to two owners.
THEOREM NeverListedTwice == Spec => []TrackedOnce
BY Invariance, PTL DEF Inv

\* The cache that free consults knows every page that is free or pending.
THEOREM CacheKnowsTracked == Spec => []CacheCovers
BY Invariance, PTL DEF Inv

\* The page a restart reads is free of duplicates and of reserved pages.
THEOREM ImageIsSound == Spec => []ImageSound
BY Invariance, PTL DEF Inv

-----------------------------------------------------------------------------
\* What each operation does to the sets of pages, for the modules that compose
\* the list with its callers.
LEMMA VectorsDisjoint ==
  ASSUME Inv
  PROVE  /\ \A t \in TxnId : PagesOf(ids) \cap PagesOf(pending[t]) = {}
         /\ \A t, u \in TxnId :
              t # u => PagesOf(pending[t]) \cap PagesOf(pending[u]) = {}
<1>1. \A t \in TxnId, p \in Page : pending[t][p] \in {0, 1}
  BY PendingCounts DEF Inv
<1>2. \A t \in TxnId : PagesOf(ids) \cap PagesOf(pending[t]) = {}
  BY FreeOrPending DEF Inv, PendingPages
<1>3. ASSUME NEW t \in TxnId, NEW u \in TxnId, t # u
      PROVE  PagesOf(pending[t]) \cap PagesOf(pending[u]) = {}
  <2> SUFFICES ASSUME NEW p \in Page, pending[t][p] > 0, pending[u][p] > 0
               PROVE  FALSE
    BY DEF PagesOf
  <2>1. pending[t][p] = 1 /\ pending[u][p] = 1
    BY <1>1
  <2> QED  BY <1>3, <2>1 DEF Inv, TrackedOnce
<1> QED  BY <1>2, <1>3

LEMMA AllocateEffect ==
  ASSUME Inv, NEW first \in Page, NEW n \in Nat, AllocateContiguous(first, n)
  PROVE  /\ Run(first, n) \subseteq PagesOf(ids)
         /\ PagesOf(ids') = PagesOf(ids) \ Run(first, n)
         /\ cache' = cache \ Run(first, n)
         /\ UNCHANGED <<pending, image>>
<1>1. \A q \in Page : ids[q] \in {0, 1}
  BY FreeCounts DEF Inv
<1>2. \A q \in Page : ids'[q] = IF q \in Run(first, n) THEN ids[q] - 1 ELSE ids[q]
  BY DEF AllocateContiguous
<1>3. PagesOf(ids') = PagesOf(ids) \ Run(first, n)
  BY <1>1, <1>2 DEF PagesOf
<1>4. Run(first, n) \subseteq PagesOf(ids)
  BY DEF AllocateContiguous, FirstRun, Contiguous
<1> QED  BY <1>3, <1>4 DEF AllocateContiguous

LEMMA FreeEffect ==
  ASSUME Inv, NEW t \in TxnId, NEW p \in Page, NEW overflow \in Nat,
         NEW k \in 0 .. overflow + 1, FreeTurns(t, p, overflow, k)
  PROVE  /\ Run(p, k) \cap Tracked = {}
         /\ Run(p, k) \subseteq {q \in Page : q > 1}
         /\ \A u \in TxnId :
              PagesOf(pending'[u]) = IF u = t THEN PagesOf(pending[u]) \cup Run(p, k)
                                             ELSE PagesOf(pending[u])
         /\ cache' = cache \cup Run(p, k)
         /\ UNCHANGED <<ids, image>>
<1>1. /\ Run(p, k) \cap Tracked = {}
      /\ \A u \in TxnId, q \in Page :
           pending'[u][q] = IF u = t /\ q \in Run(p, k) THEN 1 ELSE pending[u][q]
  BY FreePreserves
<1>2. Run(p, k) \subseteq {q \in Page : q > 1}
  BY DEF FreeTurns, Run, Page
<1>3. \A u \in TxnId, q \in Page :
        pending'[u][q] > 0 <=> (u = t /\ q \in Run(p, k)) \/ pending[u][q] > 0
  BY <1>1
<1>4. \A u \in TxnId :
        PagesOf(pending'[u]) = IF u = t THEN PagesOf(pending[u]) \cup Run(p, k)
                                        ELSE PagesOf(pending[u])
  BY <1>2, <1>3 DEF PagesOf
<1> QED  BY <1>1, <1>2, <1>4 DEF FreeTurns

LEMMA ReleaseEffect ==
  ASSUME Inv, NEW t \in TxnId, Release(t)
  PROVE  /\ PagesOf(ids') = PagesOf(ids) \cup PendingPages({u \in TxnId : u <= t})
         /\ \A u \in TxnId :
              PagesOf(pending'[u]) = IF u <= t THEN {} ELSE PagesOf(pending[u])
         /\ UNCHANGED <<cache, image>>
<1> DEFINE older == {u \in TxnId : u <= t}
<1>1. pending' = [u \in TxnId |-> IF u \in older THEN NoPages ELSE pending[u]]
  BY DEF Release
<1>2. PagesOf(NoPages) = {}
  BY DEF NoPages, PagesOf
<1>3. ids' = [q \in Page |-> ids[q] + SortedPending(older)[q]]
  BY ReleaseMerges
<1>4. older \in SUBSET TxnId
  OBVIOUS
<1>5. \A u \in TxnId : PagesOf(pending'[u]) = IF u <= t THEN {} ELSE PagesOf(pending[u])
  BY <1>1, <1>2
<1> HIDE DEF older
<1>6. PagesOf(ids') = PagesOf(ids) \cup PendingPages(older)
  BY <1>3, <1>4, MergedOnce
<1> QED  BY <1>5, <1>6 DEF Release, older

LEMMA RollbackEffect ==
  ASSUME Inv, NEW t \in TxnId, Rollback(t)
  PROVE  /\ \A u \in TxnId :
              PagesOf(pending'[u]) = IF u = t THEN {} ELSE PagesOf(pending[u])
         /\ cache' = cache \ PagesOf(pending[t])
         /\ UNCHANGED <<ids, image>>
<1>1. pending \in [TxnId -> Bag]
  BY DEF Inv, TypeOK
<1>2. PagesOf(NoPages) = {}
  BY DEF NoPages, PagesOf
<1> QED  BY <1>1, <1>2 DEF Rollback

LEMMA WriteToEffect ==
  ASSUME Inv, WriteTo
  PROVE  PagesOf(image') = Tracked /\ UNCHANGED <<ids, pending, cache>>
<1>1. image' = [q \in Page |-> ids[q] + SortedPending(TxnId)[q]]
  BY DEF WriteTo, MergeTwo
<1> QED  BY <1>1, MergedOnce DEF WriteTo, Tracked

LEMMA ReloadEffect ==
  ASSUME Inv, Reload
  PROVE  /\ PagesOf(ids') = PagesOf(image) \ PendingPages(TxnId)
         /\ cache' = cache \cup PagesOf(image) \cup PendingPages(TxnId)
         /\ UNCHANGED <<pending, image>>
<1>1. PagesOf(ids)' = PagesOf(image) \ PendingPages(TxnId)
  BY ReloadPreserves
<1>2. cache' = cache \cup PagesOf(image) \cup PagesOf(ids') \cup PendingPages(TxnId)
  BY DEF Reload, Reindexed
<1> QED  BY <1>1, <1>2 DEF Reload, PagesOf

LEMMA RestartEffect ==
  ASSUME Inv, Restart
  PROVE  /\ ids' = image /\ image' = image
         /\ \A t \in TxnId : PagesOf(pending'[t]) = {}
         /\ cache' = PagesOf(image)
<1>1. PagesOf(NoPages) = {}
  BY DEF NoPages, PagesOf
<1> QED  BY <1>1 DEF Restart, Reindexed

-----------------------------------------------------------------------------
\* The pages the ledger says some transactions hold are their pending pages.
LEMMA HeldIsPending ==
  ASSUME NEW T \in SUBSET TxnId
  PROVE  Ledger!HeldBy(T) = PendingPages(T)
BY DEF Ledger!HeldBy, PendingPages

LEMMA AllocateTakes ==
  ASSUME Inv, NEW first \in Page, NEW n \in Nat, AllocateContiguous(first, n)
  PROVE  Ledger!Take
<1> DEFINE last == first + n - 1
<1>1. Contiguous(first, n)
  BY DEF AllocateContiguous, FirstRun
<1>2. last \in Page /\ Run(first, n) = first .. last
  BY <1>1, FreeListAssumption DEF Contiguous, Run, Page
<1>3. first .. last \subseteq PagesOf(ids)
  BY <1>1, <1>2 DEF Contiguous
<1>4. \A q \in Page : ids[q] \in {0, 1}
  BY FreeCounts DEF Inv
<1>5. \A q \in Page : ids'[q] = IF q \in Run(first, n) THEN ids[q] - 1 ELSE ids[q]
  BY DEF AllocateContiguous
<1>6. PagesOf(ids') = PagesOf(ids) \ (first .. last)
  BY <1>2, <1>4, <1>5 DEF PagesOf
<1>7. UNCHANGED <<pending, image>>
  BY DEF AllocateContiguous
<1> HIDE DEF last
<1> QED  BY <1>2, <1>3, <1>6, <1>7 DEF Ledger!Take, PagesOf

LEMMA FreeRetires ==
  ASSUME Inv, NEW t \in TxnId, NEW p \in Page, NEW overflow \in Nat,
         Free(t, p, overflow)
  PROVE  Ledger!Retire(t)
<1>1. PICK k \in 0 .. overflow + 1 : FreeTurns(t, p, overflow, k)
  BY DEF Free
<1>2. Run(p, k) \in SUBSET Page
  BY DEF Run
<1>3. Run(p, k) \cap (PagesOf(ids) \cup Ledger!HeldBy(TxnId)) = {}
  BY <1>1, HeldIsPending DEF FreeTurns, Inv, CacheCovers, Tracked
<1>4. pending \in [TxnId -> Bag]
  BY DEF Inv, TypeOK
<1>5. \A u \in TxnId, q \in Page : pending[u][q] \in {0, 1}
  BY PendingCounts DEF Inv
<1>6. pending'[t] = [q \in Page |-> pending[t][q] + IF q \in Run(p, k) THEN 1 ELSE 0]
  BY <1>1, <1>4 DEF FreeTurns
<1>7. PagesOf(pending'[t]) = PagesOf(pending[t]) \cup Run(p, k)
  <2>1. \A q \in Page : pending'[t][q] > 0 <=> pending[t][q] > 0 \/ q \in Run(p, k)
    BY <1>5, <1>6
  <2> QED  BY <1>2, <2>1 DEF PagesOf
<1>8. [u \in TxnId |-> PagesOf(pending'[u])]
        = [[u \in TxnId |-> PagesOf(pending[u])] EXCEPT ![t] = @ \cup Run(p, k)]
  BY <1>1, <1>4, <1>7 DEF FreeTurns
<1>9. UNCHANGED <<PagesOf(ids), PagesOf(image)>>
  BY <1>1 DEF FreeTurns, PagesOf
<1> QED  BY <1>2, <1>3, <1>8, <1>9 DEF Ledger!Retire, PagesOf

LEMMA ReleaseReclaims ==
  ASSUME Inv, NEW t \in TxnId, Release(t)
  PROVE  Ledger!Reclaim(t)
<1> DEFINE older == {u \in TxnId : u <= t}
<1>1. ids' = [q \in Page |-> ids[q] + SortedPending(older)[q]]
  BY ReleaseMerges
<1>2. older \in SUBSET TxnId
  OBVIOUS
<1>3. pending' = [u \in TxnId |-> IF u \in older THEN NoPages ELSE pending[u]]
  BY DEF Release
<1>4. PagesOf(NoPages) = {}
  BY DEF NoPages, PagesOf
<1>5. [u \in TxnId |-> PagesOf(pending'[u])]
        = [u \in TxnId |-> IF u \in older THEN {}
                           ELSE [w \in TxnId |-> PagesOf(pending[w])][u]]
  BY <1>3, <1>4
<1>6. UNCHANGED PagesOf(image)
  BY DEF Release, PagesOf
<1> HIDE DEF older
<1>7. PagesOf(ids') = PagesOf(ids) \cup Ledger!HeldBy(older)
  BY <1>1, <1>2, MergedOnce, HeldIsPending
<1> USE DEF older
<1> QED  BY <1>5, <1>6, <1>7 DEF Ledger!Reclaim, PagesOf

LEMMA RollbackForgets ==
  ASSUME Inv, NEW t \in TxnId, Rollback(t)
  PROVE  Ledger!Forget(t)
<1>1. PagesOf(NoPages) = {}
  BY DEF NoPages, PagesOf
<1>2. pending \in [TxnId -> Bag]
  BY DEF Inv, TypeOK
<1>3. [u \in TxnId |-> PagesOf(pending'[u])]
        = [[u \in TxnId |-> PagesOf(pending[u])] EXCEPT ![t] = {}]
  BY <1>1, <1>2 DEF Rollback
<1>4. UNCHANGED <<PagesOf(ids), PagesOf(image)>>
  BY DEF Rollback, PagesOf
<1> QED  BY <1>3, <1>4 DEF Ledger!Forget, PagesOf

LEMMA WriteToSaves ==
  ASSUME Inv, WriteTo
  PROVE  Ledger!Save
<1>1. image' = [q \in Page |-> ids[q] + SortedPending(TxnId)[q]]
  BY DEF WriteTo, MergeTwo
<1>2. PagesOf(image') = PagesOf(ids) \cup Ledger!HeldBy(TxnId)
  BY <1>1, MergedOnce, HeldIsPending
<1>3. UNCHANGED <<PagesOf(ids), [t \in TxnId |-> PagesOf(pending[t])]>>
  BY DEF WriteTo, PagesOf
<1> QED  BY <1>2, <1>3 DEF Ledger!Save, PagesOf

LEMMA ReloadRereads ==
  ASSUME Inv, Reload
  PROVE  Ledger!Reread
<1>1. PagesOf(ids)' = PagesOf(image) \ Ledger!HeldBy(TxnId)
  BY ReloadPreserves, HeldIsPending
<1>2. UNCHANGED <<[t \in TxnId |-> PagesOf(pending[t])], PagesOf(image)>>
  BY DEF Reload, PagesOf
<1> QED  BY <1>1, <1>2 DEF Ledger!Reread, PagesOf

LEMMA RestartReopens ==
  ASSUME Inv, Restart
  PROVE  Ledger!Reopen
<1>1. PagesOf(NoPages) = {}
  BY DEF NoPages, PagesOf
<1>2. [t \in TxnId |-> PagesOf(pending[t])]' = [t \in TxnId |-> {}]
  BY <1>1 DEF Restart, PagesOf
<1>3. PagesOf(ids)' = PagesOf(image) /\ UNCHANGED PagesOf(image)
  BY DEF Restart, PagesOf
<1> QED  BY <1>2, <1>3 DEF Ledger!Reopen, PagesOf

LEMMA StepRefines == Inv /\ [Next]_vars => [Ledger!LedgerNext]_(Ledger!ledgerVars)
<1> SUFFICES ASSUME Inv, [Next]_vars PROVE [Ledger!LedgerNext]_(Ledger!ledgerVars)
  OBVIOUS
<1> USE DEF Ledger!LedgerNext
<1>1. ASSUME NEW first \in Page, NEW n \in 1 .. MaxRun, AllocateContiguous(first, n)
      PROVE  Ledger!LedgerNext
  BY <1>1, AllocateTakes
<1>2. ASSUME NEW t \in TxnId, NEW p \in Page, NEW overflow \in 0 .. MaxOverflow,
             Free(t, p, overflow)
      PROVE  Ledger!LedgerNext
  BY <1>2, FreeRetires
<1>3. ASSUME NEW t \in TxnId, Release(t) PROVE Ledger!LedgerNext
  BY <1>3, ReleaseReclaims
<1>4. ASSUME NEW t \in TxnId, Rollback(t) PROVE Ledger!LedgerNext
  BY <1>4, RollbackForgets
<1>5. CASE WriteTo
  BY <1>5, WriteToSaves
<1>6. CASE Reload
  BY <1>6, ReloadRereads
<1>7. CASE Restart
  BY <1>7, RestartReopens
<1>8. CASE UNCHANGED vars
  BY <1>8 DEF vars, Ledger!ledgerVars, PagesOf
<1> QED  BY <1>1, <1>2, <1>3, <1>4, <1>5, <1>6, <1>7, <1>8 DEF Next

\* class FreeList implements PageLedger: with its cache, its bags and its partial
\* failures it still moves sets of pages between used, free and held.
THEOREM Refinement == Spec => ImplementsLedger
<1>1. Init => Ledger!LedgerInit
  <2>1. PagesOf(NoPages) = {}
    BY DEF NoPages, PagesOf
  <2> QED  BY <2>1 DEF Init, Ledger!LedgerInit
<1> QED  BY <1>1, Invariance, StepRefines, PTL DEF Spec, ImplementsLedger, Ledger!LedgerSpec

-----------------------------------------------------------------------------
(* The freelist page, which FreeListPageWide shows to fail for longer lists. *)

\* Every page of the file may be on a list without reaching kSpecialCount, and the
\* page's memory has room for them.
NarrowPage == MaxPage + 1 < SpecialCount /\ MaxPage + 1 <= Words

LEMMA TrackedIsSmall == IsFiniteSet(Tracked) /\ Cardinality(Tracked) \in 0 .. MaxPage + 1
<1>1. Tracked \subseteq 0 .. MaxPage
  BY DEF Tracked, PagesOf, PendingPages, Page
<1>2. IsFiniteSet(0 .. MaxPage) /\ Cardinality(0 .. MaxPage) = MaxPage + 1
  BY FS_Interval, FreeListAssumption
<1>3. IsFiniteSet(Tracked) /\ Cardinality(Tracked) <= MaxPage + 1
  BY <1>1, <1>2, FS_Subset
<1> QED  BY <1>3, FS_CardinalityType, FreeListAssumption

\* A list of n ids, n below kSpecialCount, is read back as it was written.
LEMMA NarrowRoundTrip ==
  ASSUME NEW n \in Nat, n < SpecialCount, n <= Words, NEW word,
         NEW list, list = [k \in 1 .. n |-> list[k]]
  PROVE  ReadIds(WriteIds(list, BlankPage(word))) = list
<1> DEFINE page == WriteIds(list, BlankPage(word))
<1>1. Len(list) = n /\ DOMAIN list = 1 .. n
  OBVIOUS
<1>2. page.count = n /\ page.count # SpecialCount
  BY <1>1, FreeListPageAssumption DEF WriteIds
<1>3. ASSUME NEW k \in 1 .. n PROVE page.words[k - 1] = list[k]
  <2>1. k - 1 \in WordIndex /\ FirstWord(n) = 0 /\ k - 1 - 0 + 1 = k
    BY FreeListPageAssumption DEF WordIndex, FirstWord
  <2> QED  BY <1>1, <2>1 DEF WriteIds
<1> HIDE DEF page
<1>4. ReadIds(page) = [k \in 1 .. n |-> page.words[k - 1]]
  BY <1>2 DEF ReadIds
<1>5. ReadIds(page) = [k \in 1 .. n |-> list[k]]
  BY <1>3, <1>4
<1> QED  BY <1>5 DEF page

LEMMA SortedIdsLength ==
  ASSUME NarrowPage
  PROVE  /\ Cardinality(Tracked) \in Nat
         /\ Cardinality(Tracked) < SpecialCount
         /\ Cardinality(Tracked) <= Words
         /\ Len(SortedIds) = Cardinality(Tracked)
         /\ SortedIds = [k \in 1 .. Cardinality(Tracked) |-> SortedIds[k]]
<1> DEFINE n == Cardinality(Tracked)
<1>1. n \in 0 .. MaxPage + 1
  BY TrackedIsSmall
<1>2. DOMAIN SortedIds = 1 .. n /\ SortedIds = [k \in 1 .. n |-> SortedIds[k]]
  BY SMTT(40) DEF SortedIds
<1> HIDE DEF n
<1>3. n \in Nat /\ n < SpecialCount /\ n <= Words
  BY <1>1, FreeListAssumption, FreeListPageAssumption DEF NarrowPage
<1>4. Len(SortedIds) = n
  BY <1>2, <1>3
<1> QED  BY <1>2, <1>3, <1>4 DEF n

\* The page of every list the class can come to hold reads back as that list.
THEOREM PageRoundTrip == ASSUME NarrowPage PROVE Spec => []RoundTrip
<1>1. ASSUME NEW word \in Stale
      PROVE  ReadIds(WriteIds(SortedIds, BlankPage(word))) = SortedIds
  BY SortedIdsLength, NarrowRoundTrip
<1>2. RoundTrip
  BY <1>1 DEF RoundTrip
<1> QED  BY <1>2, PTL

\* byte_size announces exactly the words write_to fills: no page is counted twice or
\* not at all.
THEOREM PageFits == ASSUME NarrowPage PROVE Spec => []FitsByteSize
<1>1. TypeOK /\ TrackedOnce => FitsByteSize
  <2> SUFFICES ASSUME TypeOK, TrackedOnce PROVE FitsByteSize
    OBVIOUS
  <2> DEFINE n == Cardinality(Tracked)
             f == Cardinality(PagesOf(ids))
             g == Cardinality(PendingPages(TxnId))
  <2>1. n \in Nat /\ n < SpecialCount /\ Len(SortedIds) = n
    BY SortedIdsLength
  <2>2. IsFiniteSet(PagesOf(ids)) /\ IsFiniteSet(PendingPages(TxnId))
    BY TrackedIsSmall, FS_Subset DEF Tracked
  <2>3. PagesOf(ids) \cap PendingPages(TxnId) = {}
    <3> SUFFICES ASSUME NEW p \in PagesOf(ids), NEW t \in TxnId, p \in PagesOf(pending[t])
                 PROVE  FALSE
      BY DEF PendingPages
    <3>1. p \in Page /\ ids[p] \in Nat /\ pending[t][p] > 0 /\ ids[p] > 0
      BY DEF PagesOf, TypeOK, Bag
    <3>2. ids[p] = 1
      BY <3>1 DEF TrackedOnce
    <3> QED  BY <3>1, <3>2 DEF TrackedOnce
  <2>4. f \in Nat /\ g \in Nat /\ n = f + g
    <3>1. f \in Nat /\ g \in Nat
      BY <2>2, FS_CardinalityType
    <3>2. n = f + g - Cardinality(PagesOf(ids) \cap PendingPages(TxnId))
      BY <2>2, FS_Union DEF Tracked
    <3>3. Cardinality(PagesOf(ids) \cap PendingPages(TxnId)) = 0
      BY <2>3, FS_EmptySet
    <3> HIDE DEF f, g, n
    <3> QED  BY <3>1, <3>2, <3>3
  <2> HIDE DEF n, f, g
  <2>5. Stored(n) = 0 .. n - 1
    <3>1. FirstWord(n) = 0 /\ ~(n >= SpecialCount) /\ 0 + n - 1 = n - 1
      BY <2>1, FreeListPageAssumption DEF FirstWord
    <3> QED  BY <3>1 DEF Stored
  <2>6. ByteSize(f, g) = n
    <3>1. f + g = n /\ ~(f + g >= SpecialCount)
      BY <2>1, <2>4, FreeListPageAssumption
    <3> QED  BY <3>1 DEF ByteSize
  <2> QED  BY <2>1, <2>5, <2>6 DEF f, g, FitsByteSize
<1> QED  BY <1>1, TypeCorrect, NeverListedTwice, PTL

-----------------------------------------------------------------------------
(* The free list under transactions.                                         *)

\* What is free, and what committed transactions freed, is no longer part of
\* the committed tree; only the running writer has pending pages of its own.
PendingIsDead ==
  /\ tree \cap PagesOf(ids) = {}
  /\ \A t \in TxnId : t <= txid => tree \cap PagesOf(pending[t]) = {}
  /\ \A t \in TxnId : t > txid /\ PagesOf(pending[t]) # {}
                        => t = wtx /\ phase \in {"open", "failed"}

\* What a reader sees is still in the committed tree, or was freed by a
\* transaction that committed after the reader started.
SnapshotsCovered ==
  \A r \in Reader :
    /\ r \notin reading => snap[r] = {}
    /\ r \in reading =>
         /\ rtx[r] <= txid
         /\ \A p \in snap[r] \ tree :
              \E t \in TxnId : rtx[r] < t /\ t <= txid /\ p \in PagesOf(pending[t])

WriterIdle == phase \in {"idle", "undone"} => work = tree

\* The inductive invariant of the composition.
TxnsInv ==
  /\ Inv
  /\ TxnsTypeOK
  /\ PagesAccounted
  /\ CacheExact
  /\ CrashRecovers
  /\ PendingIsDead
  /\ SnapshotsCovered
  /\ WriterIdle

-----------------------------------------------------------------------------
LEMMA TrackedUsable ==
  ASSUME TxnsInv
  PROVE  Tracked \subseteq Usable
<1>1. \A p \in Page : p <= 1 => p \notin Tracked
  BY DEF TxnsInv, Inv, ImageSound
<1>2. Tracked \subseteq Page
  BY DEF Tracked, PendingPages, PagesOf
<1> QED  BY <1>1, <1>2 DEF Usable, Page

LEMMA TrackedMember ==
  /\ \A p : p \in Tracked <=> p \in PagesOf(ids)
                              \/ \E t \in TxnId : p \in PagesOf(pending[t])
  /\ \A p : p \in Tracked' <=> p \in PagesOf(ids')
                               \/ \E t \in TxnId : p \in PagesOf(pending'[t])
BY DEF Tracked, PendingPages, PagesOf

\* While the writer runs, the committed tree's pages are its own or its pending.
LEMMA TreeKept ==
  ASSUME TxnsInv, phase \in {"open", "failed"}
  PROVE  tree \subseteq work \cup PagesOf(pending[wtx])
<1> SUFFICES ASSUME NEW p \in tree, p \notin work
             PROVE  p \in PagesOf(pending[wtx])
  OBVIOUS
<1>1. p \in Tracked /\ p \notin PagesOf(ids)
  BY DEF TxnsInv, PagesAccounted, PendingIsDead, TxnsTypeOK
<1>2. PICK t \in TxnId : p \in PagesOf(pending[t])
  BY <1>1, TrackedMember
<1>3. txid \in Nat /\ t \in Nat
  BY DEF TxnsInv, TxnsTypeOK, TxnId
<1>4. ~(t <= txid)
  BY <1>2 DEF TxnsInv, PendingIsDead
<1> QED  BY <1>2, <1>3, <1>4 DEF TxnsInv, PendingIsDead

LEMMA TxnsInitInv == TxnsInit => TxnsInv
<1> SUFFICES ASSUME TxnsInit PROVE TxnsInv
  OBVIOUS
<1> USE DEF TxnsInit
<1>1. PagesOf(image) = Usable \ tree
  BY DEF PagesOf, Usable
<1>2. \A t \in TxnId : PagesOf(pending[t]) = {}
  BY DEF NoPages, PagesOf
<1>3. Tracked = Usable \ tree
  BY <1>1, <1>2, TrackedMember
<1>4. TypeOK
  <2>1. image \in Bag /\ NoPages \in Bag
    BY DEF Bag, NoPages
  <2> QED  BY <2>1 DEF TypeOK, PagesOf
<1>5. TrackedOnce
  BY DEF TrackedOnce, NoPages
<1>6. CacheCovers /\ CacheExact
  BY <1>1, <1>3 DEF CacheCovers, CacheExact
<1>7. ImageSound
  BY <1>1, <1>3 DEF ImageSound, Usable, Page
<1>8. TxnsTypeOK
  BY <1>4, FreeListAssumption DEF TxnsTypeOK, TxnId, Phases
<1>9. PagesAccounted /\ CrashRecovers /\ PendingIsDead
  BY <1>1, <1>2, <1>3 DEF PagesAccounted, CrashRecovers, PendingIsDead
<1>10. SnapshotsCovered /\ WriterIdle
  BY DEF SnapshotsCovered, WriterIdle
<1> QED  BY <1>4, <1>5, <1>6, <1>7, <1>8, <1>9, <1>10 DEF TxnsInv, Inv

LEMMA BeginStep == ASSUME TxnsInv, Begin PROVE TxnsInv'
<1>1. /\ UNCHANGED <<ids, pending, cache, image, tree, work, txid, reading, rtx, snap>>
      /\ phase = "idle" /\ phase' = "open" /\ wtx \in TxnId
  BY DEF Begin, vars
<1>2. Tracked' = Tracked
  BY <1>1 DEF Tracked, PendingPages, PagesOf
<1>3. Inv' /\ CacheExact' /\ CrashRecovers'
  BY <1>1, <1>2 DEF TxnsInv, Inv, TypeOK, TrackedOnce, CacheCovers, ImageSound,
                    CacheExact, CrashRecovers, PagesOf
<1>4. TxnsTypeOK' /\ PagesAccounted'
  BY <1>1, <1>2, <1>3 DEF Inv, TxnsInv, TxnsTypeOK, PagesAccounted, Phases, wtx
<1>5. PendingIsDead' /\ SnapshotsCovered' /\ WriterIdle'
  BY <1>1 DEF TxnsInv, PendingIsDead, SnapshotsCovered, WriterIdle, PagesOf, wtx
<1> QED  BY <1>3, <1>4, <1>5 DEF TxnsInv

LEMMA AllocateStep ==
  ASSUME TxnsInv, NEW first \in Page, NEW n \in 1 .. MaxRun, Allocate(first, n)
  PROVE  TxnsInv'
<1> DEFINE R == Run(first, n)
<1>1. /\ UNCHANGED <<tree, txid, phase, reading, rtx, snap>>
      /\ phase = "open"
      /\ work' = work \cup R
      /\ AllocateContiguous(first, n)
  BY DEF Allocate
<1>2. Inv
  BY DEF TxnsInv
<1>3. /\ R \subseteq PagesOf(ids)
      /\ PagesOf(ids') = PagesOf(ids) \ R
      /\ cache' = cache \ R
      /\ pending' = pending /\ image' = image
  BY <1>1, <1>2, AllocateEffect
<1>4. Inv'
  BY <1>1, <1>2, AllocatePreserves
<1> HIDE DEF R
<1>5. Tracked' = Tracked \ R
  BY <1>2, <1>3, TrackedMember, VectorsDisjoint
<1>6. R \subseteq Tracked /\ R \subseteq Usable
  BY <1>3, TrackedMember, TrackedUsable
<1>7. TxnsTypeOK'
  BY <1>1, <1>4, <1>6 DEF Inv, TxnsInv, TxnsTypeOK, wtx
<1>8. PagesAccounted' /\ CacheExact'
  BY <1>1, <1>3, <1>5, <1>6 DEF TxnsInv, PagesAccounted, CacheExact
<1>9. CrashRecovers'
  BY <1>1, <1>3 DEF TxnsInv, CrashRecovers, PagesOf
<1>10. PendingIsDead'
  <2>1. tree' \cap PagesOf(ids') = {}
    BY <1>1, <1>3 DEF TxnsInv, PendingIsDead
  <2> QED  BY <1>1, <1>3, <2>1 DEF TxnsInv, PendingIsDead, wtx, PagesOf
<1>11. SnapshotsCovered' /\ WriterIdle'
  BY <1>1, <1>3 DEF TxnsInv, SnapshotsCovered, WriterIdle, PagesOf
<1> QED  BY <1>4, <1>7, <1>8, <1>9, <1>10, <1>11 DEF TxnsInv

LEMMA FreePageStep ==
  ASSUME TxnsInv, NEW p \in Page, NEW overflow \in 0 .. MaxOverflow,
         FreePage(p, overflow)
  PROVE  TxnsInv'
<1>1. PICK k \in 0 .. overflow + 1 :
        /\ FreeTurns(wtx, p, overflow, k)
        /\ work' = work \ Run(p, k)
        /\ phase' = IF k <= overflow THEN "failed" ELSE "open"
  BY DEF FreePage
<1> DEFINE R == Run(p, k)
<1>2. /\ UNCHANGED <<tree, txid, reading, rtx, snap>>
      /\ phase = "open" /\ phase' \in {"open", "failed"} /\ work' = work \ R
  BY <1>1 DEF FreePage
<1>3. Inv /\ wtx \in TxnId /\ wtx' = wtx
  BY <1>2 DEF TxnsInv, TxnsTypeOK, wtx
<1>4. /\ R \cap Tracked = {}
      /\ R \subseteq {q \in Page : q > 1}
      /\ \A u \in TxnId :
           PagesOf(pending'[u]) = IF u = wtx THEN PagesOf(pending[u]) \cup R
                                            ELSE PagesOf(pending[u])
      /\ cache' = cache \cup R
      /\ UNCHANGED <<ids, image>>
  BY <1>1, <1>3, FreeEffect
<1>5. Inv'
  BY <1>1, <1>3, FreePreserves
<1> HIDE DEF R
<1>6. Tracked' = Tracked \cup R
  BY <1>3, <1>4, TrackedMember
<1>7. R \subseteq Usable
  BY <1>4 DEF Usable
<1>8. TxnsTypeOK'
  BY <1>2, <1>3, <1>5 DEF Inv, TxnsInv, TxnsTypeOK, Phases
<1>9. PagesAccounted' /\ CacheExact'
  BY <1>2, <1>4, <1>6, <1>7 DEF TxnsInv, PagesAccounted, CacheExact
<1>10. CrashRecovers'
  BY <1>2, <1>4 DEF TxnsInv, CrashRecovers, PagesOf
<1>11. txid \in Nat /\ wtx = txid + 1 /\ TxnId \subseteq Nat
  BY DEF TxnsInv, TxnsTypeOK, wtx, TxnId
<1>12. \A t \in TxnId : t <= txid => PagesOf(pending'[t]) = PagesOf(pending[t])
  <2>1. \A t \in TxnId : t <= txid => t # wtx
    BY <1>11
  <2> QED  BY <1>4, <2>1
<1>13. PendingIsDead'
  <2>1. tree' \cap PagesOf(ids') = {}
    BY <1>2, <1>4 DEF TxnsInv, PendingIsDead
  <2>2. \A t \in TxnId : t <= txid => tree \cap PagesOf(pending'[t]) = {}
    BY <1>12 DEF TxnsInv, PendingIsDead
  <2>3. \A t \in TxnId : t > txid /\ PagesOf(pending'[t]) # {} => t = wtx
    BY <1>4 DEF TxnsInv, PendingIsDead
  <2> QED  BY <1>2, <1>3, <2>1, <2>2, <2>3 DEF PendingIsDead, PagesOf
<1>14. SnapshotsCovered'
  <2> SUFFICES ASSUME NEW r \in Reader
               PROVE  /\ r \notin reading => snap[r] = {}
                      /\ r \in reading =>
                           /\ rtx[r] <= txid
                           /\ \A q \in snap[r] \ tree :
                                \E t \in TxnId : rtx[r] < t /\ t <= txid
                                                 /\ q \in PagesOf(pending'[t])
    BY <1>2 DEF SnapshotsCovered, PagesOf
  <2> QED  BY <1>12 DEF TxnsInv, SnapshotsCovered
<1>15. WriterIdle'
  BY <1>2 DEF WriterIdle
<1> QED  BY <1>5, <1>8, <1>9, <1>10, <1>13, <1>14, <1>15 DEF TxnsInv

LEMMA ReleaseOldStep ==
  ASSUME TxnsInv, NEW t \in TxnId, ReleaseOld(t)
  PROVE  TxnsInv'
<1> DEFINE older == {u \in TxnId : u <= t}
<1>1. /\ UNCHANGED <<tree, work, txid, phase, reading, rtx, snap>>
      /\ phase = "open" /\ t <= txid /\ Release(t)
      /\ \A r \in reading : t <= rtx[r]
  BY DEF ReleaseOld, txnVars
<1>2. Inv
  BY DEF TxnsInv
<1>3. /\ PagesOf(ids') = PagesOf(ids) \cup PendingPages(older)
      /\ \A u \in TxnId :
           PagesOf(pending'[u]) = IF u <= t THEN {} ELSE PagesOf(pending[u])
      /\ UNCHANGED <<cache, image>>
  BY <1>1, <1>2, ReleaseEffect
<1>4. Inv'
  BY <1>1, <1>2, ReleasePreserves
<1>5. \A p : p \in PagesOf(ids') <=> p \in PagesOf(ids)
                \/ \E u \in TxnId : u <= t /\ p \in PagesOf(pending[u])
  BY <1>3 DEF PendingPages
<1>6. Tracked' = Tracked
  BY <1>3, <1>5, TrackedMember
<1>7. TxnsTypeOK'
  BY <1>1, <1>4 DEF Inv, TxnsInv, TxnsTypeOK, wtx
<1>8. PagesAccounted' /\ CacheExact' /\ CrashRecovers'
  BY <1>1, <1>3, <1>6 DEF TxnsInv, PagesAccounted, CacheExact, CrashRecovers, PagesOf
<1>9. TxnId \subseteq Nat /\ txid \in Nat
  BY DEF TxnId, TxnsInv, TxnsTypeOK
<1>10. PendingIsDead'
  <2>1. tree \cap PagesOf(ids') = {}
    <3>1. \A u \in TxnId : u <= t => u <= txid
      BY <1>1, <1>9
    <3> QED  BY <1>5, <3>1 DEF TxnsInv, PendingIsDead
  <2>2. \A u \in TxnId : PagesOf(pending'[u]) \subseteq PagesOf(pending[u])
    BY <1>3
  <2> QED  BY <1>1, <2>1, <2>2 DEF TxnsInv, PendingIsDead, wtx, PagesOf
<1>11. SnapshotsCovered'
  <2> SUFFICES ASSUME NEW r \in Reader
               PROVE  /\ r \notin reading => snap[r] = {}
                      /\ r \in reading =>
                           /\ rtx[r] <= txid
                           /\ \A q \in snap[r] \ tree :
                                \E u \in TxnId : rtx[r] < u /\ u <= txid
                                                 /\ q \in PagesOf(pending'[u])
    BY <1>1 DEF SnapshotsCovered, PagesOf
  <2>1. r \in reading => \A u \in TxnId :
          rtx[r] < u => PagesOf(pending'[u]) = PagesOf(pending[u])
    <3>1. rtx[r] \in Nat
      BY <1>9 DEF TxnsInv, TxnsTypeOK
    <3> QED  BY <1>1, <1>3, <1>9, <3>1
  <2> QED  BY <2>1 DEF TxnsInv, SnapshotsCovered
<1>12. WriterIdle'
  BY <1>1 DEF WriterIdle
<1> QED  BY <1>4, <1>7, <1>8, <1>10, <1>11, <1>12 DEF TxnsInv

LEMMA CommitStep == ASSUME TxnsInv, Commit PROVE TxnsInv'
<1>1. /\ UNCHANGED <<work, reading, rtx, snap>>
      /\ phase = "open" /\ phase' = "idle" /\ tree' = work /\ txid' = txid + 1
      /\ WriteTo
  BY DEF Commit, wtx
<1>2. Inv /\ txid \in Nat /\ wtx \in TxnId /\ TxnId \subseteq Nat /\ wtx = txid + 1
  BY <1>1 DEF TxnsInv, TxnsTypeOK, TxnId, wtx
<1>3. PagesOf(image') = Tracked /\ UNCHANGED <<ids, pending, cache>>
  BY <1>1, <1>2, WriteToEffect
<1>4. Inv'
  BY <1>1, <1>2, WriteToPreserves
<1>5. Tracked' = Tracked
  BY <1>3, TrackedMember
<1>6. work \cup Tracked = Usable /\ work \cap Tracked = {}
  BY <1>1 DEF TxnsInv, PagesAccounted
<1>7. TxnsTypeOK'
  BY <1>1, <1>2, <1>4 DEF Inv, TxnsInv, TxnsTypeOK, Phases
<1>8. PagesAccounted' /\ CacheExact'
  BY <1>1, <1>3, <1>5, <1>6 DEF TxnsInv, PagesAccounted, CacheExact
<1>9. CrashRecovers'
  BY <1>1, <1>3, <1>6 DEF CrashRecovers, PagesOf
<1>10. PendingIsDead'
  <2>1. work \cap PagesOf(ids) = {} /\ \A t \in TxnId : work \cap PagesOf(pending[t]) = {}
    BY <1>6, TrackedMember
  <2>2. \A t \in TxnId : t > txid + 1 => PagesOf(pending[t]) = {}
    BY <1>2 DEF TxnsInv, PendingIsDead
  <2> QED  BY <1>1, <1>3, <2>1, <2>2 DEF PendingIsDead, PagesOf
<1>11. SnapshotsCovered'
  <2> SUFFICES ASSUME NEW r \in Reader
               PROVE  /\ r \notin reading => snap[r] = {}
                      /\ r \in reading =>
                           /\ rtx[r] <= txid + 1
                           /\ \A q \in snap[r] \ work :
                                \E t \in TxnId : rtx[r] < t /\ t <= txid + 1
                                                 /\ q \in PagesOf(pending[t])
    BY <1>1, <1>3 DEF SnapshotsCovered, PagesOf
  <2>1. rtx[r] \in Nat
    BY <1>2 DEF TxnsInv, TxnsTypeOK
  <2>2. r \notin reading => snap[r] = {}
    BY DEF TxnsInv, SnapshotsCovered
  <2>3. r \in reading => rtx[r] <= txid
    BY DEF TxnsInv, SnapshotsCovered
  <2>4. ASSUME r \in reading, NEW q \in snap[r] \ work
        PROVE  \E t \in TxnId : rtx[r] < t /\ t <= txid + 1 /\ q \in PagesOf(pending[t])
    <3>1. CASE q \in tree
      <4>1. q \in PagesOf(pending[wtx])
        BY <1>1, <2>4, <3>1, TreeKept
      <4> QED  BY <1>2, <2>1, <2>3, <2>4, <4>1
    <3>2. CASE q \notin tree
      <4>1. PICK t \in TxnId : rtx[r] < t /\ t <= txid /\ q \in PagesOf(pending[t])
        BY <2>4, <3>2 DEF TxnsInv, SnapshotsCovered
      <4> QED  BY <1>2, <4>1
    <3> QED  BY <3>1, <3>2
  <2> QED  BY <1>2, <2>1, <2>2, <2>3, <2>4
<1>12. WriterIdle'
  BY <1>1 DEF WriterIdle
<1> QED  BY <1>4, <1>7, <1>8, <1>9, <1>10, <1>11, <1>12 DEF TxnsInv

LEMMA AbortStep == ASSUME TxnsInv, Abort PROVE TxnsInv'
<1>1. /\ UNCHANGED <<tree, txid, reading, rtx, snap>>
      /\ phase \in {"open", "failed"} /\ phase' = "undone" /\ work' = tree
      /\ Rollback(wtx)
  BY DEF Abort
<1>2. Inv /\ wtx \in TxnId
  BY <1>1 DEF TxnsInv, TxnsTypeOK
<1>3. txid \in Nat /\ TxnId \subseteq Nat /\ wtx = txid + 1 /\ wtx' = wtx
  BY <1>1 DEF TxnsInv, TxnsTypeOK, TxnId, wtx
<1>4. /\ \A u \in TxnId :
           PagesOf(pending'[u]) = IF u = wtx THEN {} ELSE PagesOf(pending[u])
      /\ cache' = cache \ PagesOf(pending[wtx])
      /\ UNCHANGED <<ids, image>>
  BY <1>1, <1>2, RollbackEffect
<1>5. Inv'
  BY <1>1, <1>2, RollbackPreserves
<1>6. Tracked' = Tracked \ PagesOf(pending[wtx])
  BY <1>2, <1>4, TrackedMember, VectorsDisjoint
<1>7. TxnsTypeOK'
  BY <1>1, <1>5 DEF Inv, TxnsInv, TxnsTypeOK, Phases
<1>8. PagesAccounted' /\ CacheExact' /\ CrashRecovers'
  BY <1>1, <1>4, <1>6 DEF TxnsInv, PagesAccounted, CacheExact, CrashRecovers, PagesOf
<1>9. PendingIsDead'
  <2>1. tree \cap PagesOf(ids) = {}
    BY DEF TxnsInv, PendingIsDead
  <2>2. \A t \in TxnId : t <= txid => tree \cap PagesOf(pending'[t]) = {}
    BY <1>4 DEF TxnsInv, PendingIsDead
  <2>3. \A t \in TxnId : t > txid => PagesOf(pending'[t]) = {}
    BY <1>4 DEF TxnsInv, PendingIsDead
  <2> QED  BY <1>1, <1>4, <2>1, <2>2, <2>3 DEF PendingIsDead, PagesOf
<1>10. SnapshotsCovered'
  <2>1. \A t \in TxnId : t <= txid => t # wtx
    BY <1>3
  <2>2. \A t \in TxnId : t <= txid => PagesOf(pending'[t]) = PagesOf(pending[t])
    BY <1>4, <2>1
  <2> QED  BY <1>1, <2>2 DEF TxnsInv, SnapshotsCovered, PagesOf
<1>11. WriterIdle'
  BY <1>1 DEF WriterIdle
<1> QED  BY <1>5, <1>7, <1>8, <1>9, <1>10, <1>11 DEF TxnsInv

LEMMA ReloadStep == ASSUME TxnsInv, ReloadCommitted PROVE TxnsInv'
<1>1. /\ UNCHANGED <<tree, work, txid, reading, rtx, snap>>
      /\ phase = "undone" /\ phase' = "idle" /\ Reload
  BY DEF ReloadCommitted
<1>2. Inv
  BY DEF TxnsInv
<1>3. /\ PagesOf(ids') = PagesOf(image) \ PendingPages(TxnId)
      /\ cache' = cache \cup PagesOf(image) \cup PendingPages(TxnId)
      /\ UNCHANGED <<pending, image>>
  BY <1>1, <1>2, ReloadEffect
<1>4. Inv'
  BY <1>1, <1>2, ReloadPreserves
<1>5. PagesOf(image) = Usable \ tree /\ work = tree
  BY <1>1 DEF TxnsInv, CrashRecovers, WriterIdle
<1>6. \A t \in TxnId : tree \cap PagesOf(pending[t]) = {}
  <2>1. \A t \in TxnId : t > txid => PagesOf(pending[t]) = {}
    BY <1>1 DEF TxnsInv, PendingIsDead
  <2>2. \A t \in TxnId : t <= txid \/ t > txid
    BY DEF TxnsInv, TxnsTypeOK, TxnId
  <2> QED  BY <2>1, <2>2 DEF TxnsInv, PendingIsDead
<1>7. PendingPages(TxnId) \subseteq Tracked /\ Tracked \subseteq Usable
  BY TrackedUsable DEF Tracked
<1>8. PendingPages(TxnId) \cap tree = {}
  BY <1>6 DEF PendingPages
<1>9. Tracked' = Usable \ tree
  <2>1. Tracked' = PagesOf(ids') \cup PendingPages(TxnId)
    BY <1>3 DEF Tracked, PendingPages, PagesOf
  <2> QED  BY <1>3, <1>5, <1>7, <1>8, <2>1
<1>10. Tracked \cap tree = {}
  BY <1>8 DEF Tracked, TxnsInv, PendingIsDead
<1>11. CacheExact'
  <2>1. cache = Tracked
    BY DEF TxnsInv, CacheExact
  <2> QED  BY <1>3, <1>5, <1>7, <1>8, <1>9, <1>10, <2>1 DEF CacheExact
<1>12. tree \subseteq Usable
  BY DEF TxnsInv, TxnsTypeOK
<1>13. TxnsTypeOK' /\ PagesAccounted' /\ CrashRecovers'
  BY <1>1, <1>3, <1>4, <1>5, <1>9, <1>12 DEF Inv, TxnsInv, TxnsTypeOK, Phases,
       PagesAccounted, CrashRecovers, PagesOf
<1>14. PendingIsDead'
  <2>1. tree \cap PagesOf(ids') = {}
    BY <1>3, <1>5
  <2> QED  BY <1>1, <1>3, <2>1 DEF TxnsInv, PendingIsDead, PagesOf
<1>15. SnapshotsCovered' /\ WriterIdle'
  BY <1>1, <1>3, <1>5 DEF TxnsInv, SnapshotsCovered, WriterIdle, PagesOf
<1> QED  BY <1>4, <1>11, <1>13, <1>14, <1>15 DEF TxnsInv

LEMMA ReaderStep ==
  ASSUME TxnsInv, NEW r \in Reader, BeginRead(r) \/ EndRead(r)
  PROVE  TxnsInv'
<1>1. UNCHANGED <<ids, pending, cache, image, tree, work, txid, phase>>
  BY DEF BeginRead, EndRead, vars
<1>2. Tracked' = Tracked
  BY <1>1 DEF Tracked, PendingPages, PagesOf
<1>3. Inv' /\ CacheExact' /\ CrashRecovers'
  BY <1>1, <1>2 DEF TxnsInv, Inv, TypeOK, TrackedOnce, CacheCovers, ImageSound,
                    CacheExact, CrashRecovers, PagesOf
<1>4. TxnsTypeOK'
  <2>1. 0 \in TxnId
    BY FreeListAssumption DEF TxnId
  <2> QED  BY <1>1, <1>3, <2>1 DEF Inv, TxnsInv, TxnsTypeOK, wtx, BeginRead, EndRead
<1>5. PagesAccounted' /\ PendingIsDead' /\ WriterIdle'
  BY <1>1, <1>2 DEF TxnsInv, PagesAccounted, PendingIsDead, WriterIdle, wtx, PagesOf
<1>6. txid <= txid
  BY DEF TxnsInv, TxnsTypeOK, TxnId
<1>7. rtx \in [Reader -> TxnId] /\ snap \in [Reader -> SUBSET Usable]
  BY DEF TxnsInv, TxnsTypeOK
<1>8. SnapshotsCovered'
  <2>1. CASE BeginRead(r)
    BY <1>1, <1>6, <1>7, <2>1 DEF TxnsInv, SnapshotsCovered, BeginRead, PagesOf
  <2>2. CASE EndRead(r)
    BY <1>1, <1>7, <2>2 DEF TxnsInv, SnapshotsCovered, EndRead, PagesOf
  <2> QED  BY <2>1, <2>2
<1> QED  BY <1>3, <1>4, <1>5, <1>8 DEF TxnsInv

LEMMA CrashStep == ASSUME TxnsInv, Crash PROVE TxnsInv'
<1>1. /\ UNCHANGED <<tree, txid>>
      /\ work' = tree /\ phase' = "idle" /\ reading' = {}
      /\ rtx' = [r \in Reader |-> 0] /\ snap' = [r \in Reader |-> {}]
      /\ Restart
  BY DEF Crash
<1>2. Inv
  BY DEF TxnsInv
<1>3. /\ ids' = image /\ image' = image
      /\ \A t \in TxnId : PagesOf(pending'[t]) = {}
      /\ cache' = PagesOf(image)
  BY <1>1, <1>2, RestartEffect
<1>4. Inv'
  BY <1>1, <1>2, RestartPreserves
<1>5. PagesOf(image) = Usable \ tree /\ tree \subseteq Usable
  BY DEF TxnsInv, CrashRecovers, TxnsTypeOK
<1>6. Tracked' = PagesOf(image)
  BY <1>3, TrackedMember
<1>7. TxnsTypeOK'
  <2>1. 0 \in TxnId
    BY FreeListAssumption DEF TxnId
  <2> QED  BY <1>1, <1>4, <2>1 DEF Inv, TxnsInv, TxnsTypeOK, Phases
<1>8. PagesAccounted' /\ CacheExact' /\ CrashRecovers'
  BY <1>1, <1>3, <1>5, <1>6 DEF PagesAccounted, CacheExact, CrashRecovers, PagesOf
<1>9. PendingIsDead'
  BY <1>1, <1>3, <1>5 DEF PendingIsDead, PagesOf
<1>10. SnapshotsCovered' /\ WriterIdle'
  BY <1>1 DEF SnapshotsCovered, WriterIdle
<1> QED  BY <1>4, <1>7, <1>8, <1>9, <1>10 DEF TxnsInv

LEMMA TxnsStepInv == TxnsInv /\ [TxnsNext]_allVars => TxnsInv'
<1> SUFFICES ASSUME TxnsInv, [TxnsNext]_allVars PROVE TxnsInv'
  OBVIOUS
<1>1. CASE Begin
  BY <1>1, BeginStep
<1>2. ASSUME NEW t \in TxnId, ReleaseOld(t) PROVE TxnsInv'
  BY <1>2, ReleaseOldStep
<1>3. ASSUME NEW first \in Page, NEW n \in 1 .. MaxRun, Allocate(first, n)
      PROVE  TxnsInv'
  BY <1>3, AllocateStep
<1>4. ASSUME NEW p \in Page, NEW overflow \in 0 .. MaxOverflow, FreePage(p, overflow)
      PROVE  TxnsInv'
  BY <1>4, FreePageStep
<1>5. CASE Commit
  BY <1>5, CommitStep
<1>6. CASE Abort
  BY <1>6, AbortStep
<1>7. CASE ReloadCommitted
  BY <1>7, ReloadStep
<1>8. ASSUME NEW r \in Reader, BeginRead(r) \/ EndRead(r) PROVE TxnsInv'
  BY <1>8, ReaderStep
<1>9. CASE Crash
  BY <1>9, CrashStep
<1>10. CASE UNCHANGED allVars
  <2>1. /\ UNCHANGED <<ids, pending, cache, image>>
        /\ UNCHANGED <<tree, work, txid, phase, reading, rtx, snap>>
    BY <1>10 DEF allVars, vars, txnVars
  <2>2. Tracked' = Tracked
    BY <2>1 DEF Tracked, PendingPages, PagesOf
  <2>3. Inv' /\ CacheExact' /\ CrashRecovers'
    BY <2>1, <2>2 DEF TxnsInv, Inv, TypeOK, TrackedOnce, CacheCovers, ImageSound,
                      CacheExact, CrashRecovers, PagesOf
  <2> QED  BY <2>1, <2>2, <2>3 DEF Inv, TxnsInv, TxnsTypeOK, PagesAccounted,
             PendingIsDead, SnapshotsCovered, WriterIdle, wtx, PagesOf
<1> QED  BY <1>1, <1>2, <1>3, <1>4, <1>5, <1>6, <1>7, <1>8, <1>9, <1>10 DEF TxnsNext

\* So does every step of the transactions that use it, crashes included.
THEOREM TxnsInvariance == TxnsSpec => []TxnsInv
BY TxnsInitInv, TxnsStepInv, PTL DEF TxnsSpec

\* The composition's variables keep their types.
THEOREM TxnsTypeCorrect == TxnsSpec => []TxnsTypeOK
BY TxnsInvariance, PTL DEF TxnsInv

\* No page is lost and none has two uses, through aborts after a free that threw
\* half way and through crashes.
THEOREM NoPageLost == TxnsSpec => []PagesAccounted
BY TxnsInvariance, PTL DEF TxnsInv

\* Under transactions the cache never holds a page that is neither free nor
\* pending, although reindex never removes one.
THEOREM CacheStaysExact == TxnsSpec => []CacheIsExact
BY TxnsInvariance, PTL DEF TxnsInv, CacheIsExact

\* The committed freelist page is the complement of the committed tree, so a
\* crash at any point neither leaks a page nor offers one that is in use.
THEOREM CrashIsSafe == TxnsSpec => []CrashRecovers
BY TxnsInvariance, PTL DEF TxnsInv

-----------------------------------------------------------------------------
\* SnapshotsCovered is what keeps a reader's pages out of ids_: what it sees is in
\* the tree or pending, and neither of those is free.
LEMMA ReadersKept == ASSUME TxnsInv PROVE ReadersKeepPages
<1>1. tree \cap PagesOf(ids) = {}
  BY DEF TxnsInv, PendingIsDead
<1>2. ASSUME NEW r \in Reader, NEW p \in snap[r] PROVE p \notin PagesOf(ids)
  <2>1. CASE p \in tree
    BY <1>1, <2>1
  <2>2. CASE p \notin tree
    <3>1. PICK t \in TxnId : p \in PagesOf(pending[t])
      BY <1>2, <2>2 DEF TxnsInv, SnapshotsCovered
    <3> QED  BY <3>1, VectorsDisjoint DEF TxnsInv
  <2> QED  BY <2>1, <2>2
<1> QED  BY <1>1, <1>2 DEF ReadersKeepPages

\* The pages of the committed tree and of every open reader are never up for
\* allocation, however many transactions freed, committed and released since.
THEOREM ReadersAreSafe == TxnsSpec => []ReadersKeepPages
BY TxnsInvariance, ReadersKept, PTL

LEMMA TxnsStepRefines ==
  TxnsInv /\ [TxnsNext]_allVars => [Snapshots!SnapNext]_(Snapshots!snapVars)
<1> SUFFICES ASSUME TxnsInv, [TxnsNext]_allVars
             PROVE  [Snapshots!SnapNext]_(Snapshots!snapVars)
  OBVIOUS
<1> USE DEF Snapshots!SnapNext, Snapshots!snapVars
<1>1. CASE Begin
  BY <1>1 DEF Begin
<1>2. ASSUME NEW t \in TxnId, ReleaseOld(t) PROVE UNCHANGED <<tree, work, snap>>
  BY <1>2 DEF ReleaseOld, txnVars
<1>3. ASSUME NEW first \in Page, NEW n \in 1 .. MaxRun, Allocate(first, n)
      PROVE  Snapshots!Grow
  <2>1. Run(first, n) \subseteq PagesOf(ids)
    BY <1>3, AllocateEffect DEF Allocate, TxnsInv
  <2>2. PagesOf(ids) \subseteq Tracked
    BY TrackedMember
  <2>3. PagesOf(ids) \cap work = {}
    BY <1>3, <2>2 DEF Allocate, TxnsInv, PagesAccounted
  <2>4. PagesOf(ids) \cap Snapshots!InUse = {}
    BY <2>3, ReadersKept DEF ReadersKeepPages, Snapshots!InUse
  <2>5. Run(first, n) \in SUBSET (Usable \ Snapshots!InUse)
    BY <2>1, <2>2, <2>4, TrackedUsable
  <2> QED  BY <1>3, <2>5 DEF Allocate, Snapshots!Grow
<1>4. ASSUME NEW p \in Page, NEW overflow \in 0 .. MaxOverflow, FreePage(p, overflow)
      PROVE  Snapshots!Shrink
  <2>1. PICK k \in 0 .. overflow + 1 : work' = work \ Run(p, k)
    BY <1>4 DEF FreePage
  <2>2. work' = work \ (Run(p, k) \cap work) /\ Run(p, k) \cap work \in SUBSET work
    BY <2>1
  <2> QED  BY <1>4, <2>2 DEF FreePage, Snapshots!Shrink
<1>5. CASE Commit
  BY <1>5 DEF Commit, Snapshots!Publish
<1>6. CASE Abort
  BY <1>6 DEF Abort, Snapshots!Discard
<1>7. CASE ReloadCommitted
  BY <1>7 DEF ReloadCommitted
<1>8. ASSUME NEW r \in Reader, BeginRead(r) PROVE Snapshots!Observe(r)
  BY <1>8 DEF BeginRead, Snapshots!Observe
<1>9. ASSUME NEW r \in Reader, EndRead(r) PROVE Snapshots!Leave(r)
  BY <1>9 DEF EndRead, Snapshots!Leave
<1>10. CASE Crash
  BY <1>10 DEF Crash, Snapshots!Fail
<1>11. CASE UNCHANGED allVars
  BY <1>11 DEF allVars, txnVars
<1> QED  BY <1>1, <1>2, <1>3, <1>4, <1>5, <1>6, <1>7, <1>8, <1>9, <1>10, <1>11
         DEF TxnsNext

\* Readers and the writer get snapshot isolation of pages from the free list.
THEOREM TxnsRefinement == TxnsSpec => ImplementsSnapshots
<1>1. TxnsInit => Snapshots!SnapInit
  BY DEF TxnsInit, Snapshots!SnapInit
<1> QED  BY <1>1, TxnsInvariance, TxnsStepRefines, PTL
         DEF TxnsSpec, ImplementsSnapshots, Snapshots!SnapSpec
=============================================================================
