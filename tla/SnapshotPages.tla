--------------------------- MODULE SnapshotPages ---------------------------
(***************************************************************************)
(* What transactions may rely on (include/boltdb/transaction/txn.hpp,      *)
(* 17-29): a page that the committed tree, the writer's tree or an open    *)
(* reader uses is never given to the writer to write on; a transaction     *)
(* that does not commit leaves no trace; a crash loses nothing committed.  *)
(***************************************************************************)
CONSTANTS Usable,   \* pages that can hold a part of the tree
          Reader    \* read-only transactions

VARIABLES tree,     \* pages of the committed tree
          work,     \* pages of the tree the writer sees
          snap      \* snap[r]: pages of the tree reader r sees; {} = not open

snapVars == <<tree, work, snap>>

InUse == tree \cup work \cup UNION {snap[r] : r \in Reader}

SnapInit ==
  /\ tree \in SUBSET Usable
  /\ work = tree
  /\ snap = [r \in Reader |-> {}]

\* The writer takes pages that nobody uses.
Grow ==
  /\ \E P \in SUBSET (Usable \ InUse) : work' = work \cup P
  /\ UNCHANGED <<tree, snap>>

Shrink ==
  /\ \E P \in SUBSET work : work' = work \ P
  /\ UNCHANGED <<tree, snap>>

Publish ==
  /\ tree' = work
  /\ UNCHANGED <<work, snap>>

Discard ==
  /\ work' = tree
  /\ UNCHANGED <<tree, snap>>

Observe(r) ==
  /\ snap' = [snap EXCEPT ![r] = tree]
  /\ UNCHANGED <<tree, work>>

Leave(r) ==
  /\ snap' = [snap EXCEPT ![r] = {}]
  /\ UNCHANGED <<tree, work>>

Fail ==
  /\ work' = tree
  /\ snap' = [r \in Reader |-> {}]
  /\ UNCHANGED tree

SnapNext ==
  \/ Grow
  \/ Shrink
  \/ Publish
  \/ Discard
  \/ \E r \in Reader : Observe(r) \/ Leave(r)
  \/ Fail

SnapSpec == SnapInit /\ [][SnapNext]_snapVars
=============================================================================
