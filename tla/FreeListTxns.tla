---------------------------- MODULE FreeListTxns ----------------------------
(***************************************************************************)
(* The free list under the transactions it exists for: one writer at a     *)
(* time, readers that keep the tree they started from, aborts and crashes  *)
(* at every point (txn.hpp 17-29, freelist.hpp 15-17, 47-50, 65-71).       *)
(*                                                                         *)
(* The operations on the list are the actions of FreeList.  The code of    *)
(* Txn::allocate, DB::allocate, begin, commit and rollback is not written  *)
(* in the repository, so who calls them is modelled from the comments that *)
(* say how the list is used, and marked external.  Two assumptions of that *)
(* part: the file has all its pages (it does not grow), and a commit       *)
(* switches to the new freelist page and the new tree in one step, as      *)
(* writing one meta page does.                                             *)
(***************************************************************************)
EXTENDS FreeList

CONSTANT Reader     \* read-only transactions

VARIABLES tree,     \* pages of the committed tree
          work,     \* pages of the tree the writer sees
          txid,     \* id of the last committed transaction
          phase,    \* what the writer is doing
          reading,  \* the readers that are open
          rtx,      \* rtx[r]: the txid reader r started from
          snap      \* snap[r]: the tree reader r started from

txnVars == <<tree, work, txid, phase, reading, rtx, snap>>
allVars == <<vars, txnVars>>

Usable == {p \in Page : p > 1}
wtx == txid + 1
Phases == {"idle", "open", "failed", "undone"}

-----------------------------------------------------------------------------
Begin ==
  /\ phase = "idle"
  /\ wtx \in TxnId
  /\ phase' = "open"
  /\ UNCHANGED <<vars, tree, work, txid, reading, rtx, snap>>

\* The writer reclaims what no open reader can see any more.
ReleaseOld(t) ==
  /\ phase = "open"
  /\ t <= txid
  /\ \A r \in reading : t <= rtx[r]
  /\ Release(t)
  /\ UNCHANGED txnVars

Allocate(first, n) ==
  /\ phase = "open"
  /\ AllocateContiguous(first, n)
  /\ work' = work \cup Run(first, n)
  /\ UNCHANGED <<tree, txid, phase, reading, rtx, snap>>

\* Txn::free: any page, with any overflow.  When free throws on the way, the
\* pages of the turns before stay freed and the transaction can only abort.
FreePage(p, overflow) ==
  /\ phase = "open"
  /\ \E k \in 0 .. overflow + 1 :
       /\ FreeTurns(wtx, p, overflow, k)
       /\ work' = work \ Run(p, k)
       /\ phase' = IF k <= overflow THEN "failed" ELSE "open"
  /\ UNCHANGED <<tree, txid, reading, rtx, snap>>

Commit ==
  /\ phase = "open"
  /\ WriteTo
  /\ tree' = work
  /\ txid' = wtx
  /\ phase' = "idle"
  /\ UNCHANGED <<work, reading, rtx, snap>>

\* An abort is rollback(wtx) and then reload(the committed freelist page).
Abort ==
  /\ phase \in {"open", "failed"}
  /\ Rollback(wtx)
  /\ work' = tree
  /\ phase' = "undone"
  /\ UNCHANGED <<tree, txid, reading, rtx, snap>>

ReloadCommitted ==
  /\ phase = "undone"
  /\ Reload
  /\ phase' = "idle"
  /\ UNCHANGED <<tree, work, txid, reading, rtx, snap>>

BeginRead(r) ==
  /\ r \notin reading
  /\ reading' = reading \cup {r}
  /\ rtx' = [rtx EXCEPT ![r] = txid]
  /\ snap' = [snap EXCEPT ![r] = tree]
  /\ UNCHANGED <<vars, tree, work, txid, phase>>

EndRead(r) ==
  /\ r \in reading
  /\ reading' = reading \ {r}
  /\ rtx' = [rtx EXCEPT ![r] = 0]
  /\ snap' = [snap EXCEPT ![r] = {}]
  /\ UNCHANGED <<vars, tree, work, txid, phase>>

\* The process dies at any point and opens the file again.
Crash ==
  /\ Restart
  /\ work' = tree
  /\ phase' = "idle"
  /\ reading' = {}
  /\ rtx' = [r \in Reader |-> 0]
  /\ snap' = [r \in Reader |-> {}]
  /\ UNCHANGED <<tree, txid>>

-----------------------------------------------------------------------------
\* A database just opened: the tree is on some pages, the freelist page lists
\* the others and has been read.
TxnsInit ==
  /\ tree \in SUBSET Usable
  /\ work = tree
  /\ image = [p \in Page |-> IF p \in Usable \ tree THEN 1 ELSE 0]
  /\ ids = image
  /\ pending = [t \in TxnId |-> NoPages]
  /\ cache = PagesOf(image)
  /\ txid = 0
  /\ phase = "idle"
  /\ reading = {}
  /\ rtx = [r \in Reader |-> 0]
  /\ snap = [r \in Reader |-> {}]

TxnsNext ==
  \/ Begin
  \/ \E t \in TxnId : ReleaseOld(t)
  \/ \E first \in Page, n \in 1 .. MaxRun : Allocate(first, n)
  \/ \E p \in Page, overflow \in 0 .. MaxOverflow : FreePage(p, overflow)
  \/ Commit
  \/ Abort
  \/ ReloadCommitted
  \/ \E r \in Reader : BeginRead(r) \/ EndRead(r)
  \/ Crash

TxnsSpec == TxnsInit /\ [][TxnsNext]_allVars

-----------------------------------------------------------------------------
TxnsTypeOK ==
  /\ TypeOK
  /\ tree \in SUBSET Usable
  /\ work \in SUBSET Usable
  /\ txid \in TxnId
  /\ phase \in Phases
  /\ phase \in {"open", "failed"} => wtx \in TxnId
  /\ reading \in SUBSET Reader
  /\ rtx \in [Reader -> TxnId]
  /\ snap \in [Reader -> SUBSET Usable]

\* No page is lost and none has two uses: at every moment outside an abort a
\* page is in the writer's tree or tracked by the list, never both.  In
\* "idle" work is the committed tree, so an abort, even one after a free that
\* threw half way (freelist.cpp 86-94), gives every page back.
PagesAccounted ==
  phase # "undone" => /\ work \cup Tracked = Usable
                      /\ work \cap Tracked = {}

\* Outside the class's own tests the cache is exact: is_freed (freelist.hpp 53)
\* answers for free and pending pages only, so free never refuses a page of
\* the tree.  reload only adds to the cache; this says that is enough here.
CacheIsExact == CacheExact

\* The freelist page of the committed state lists exactly the pages outside the
\* committed tree, those pending at the commit included (freelist.hpp 65-67):
\* whenever a crash comes, the reopened list neither leaks a page nor offers
\* one of the tree.
CrashRecovers == PagesOf(image) = Usable \ tree

\* An open reader's pages, and the committed tree's, are not up for allocation.
ReadersKeepPages ==
  /\ tree \cap PagesOf(ids) = {}
  /\ \A r \in Reader : snap[r] \cap PagesOf(ids) = {}

Snapshots == INSTANCE SnapshotPages

\* The list gives transactions what SnapshotPages promises: pages are reused
\* only when no tree and no reader needs them, aborts and crashes leave no
\* trace.
ImplementsSnapshots == Snapshots!SnapSpec
=============================================================================
