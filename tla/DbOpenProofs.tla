---------------------------- MODULE DbOpenProofs ----------------------------
(***************************************************************************)
(* For any processes and any number of failures: the file lock keeps a     *)
(* process that initialises the file alone, as long as only one process    *)
(* opens it read-only (DbOpenShared shows two of them fail); an open that  *)
(* returned has its four pages on disk unless some init was cut short; and *)
(* a page that is on disk stays there.                                     *)
(***************************************************************************)
EXTENDS DbOpen, TLAPS

\* Processes that share the lock never exclude each other.
OneReader == \A p, q \in ReadOnly : p = q

\* The lock is held from flock to the end, in the mode that was asked for, and
\* two processes hold it only if both share it.
LocksExclude ==
  /\ \A p \in Proc : lock[p] = IF Holding(p) THEN LockMode(p) ELSE "none"
  /\ \A p, q \in Proc : p # q /\ Holding(p) /\ Holding(q) =>
       LockMode(p) = "shared" /\ LockMode(q) = "shared"

LockInv == DbTypeOK /\ LocksExclude

\* A page on disk is in the file as well.
DiskInFile == \A i \in PageNo : disk[i] = "whole" => file[i] = "whole"

\* What init has written so far.
Begun(n) == [i \in PageNo |-> IF i < n THEN "whole" ELSE "none"]

\* Until an init is cut short, the file is empty, or complete, or one process is
\* filling it from the front and nothing of it is on disk.
FileInv ==
  /\ \A p \in Proc : pc[p] # "init" => next[p] = 0
  /\ ~cutShort =>
       /\ \A p \in Proc : pc[p] = "init" => file = Begun(next[p]) /\ disk = Empty
       /\ \A p \in Proc : pc[p] = "sync" => file = Initialised /\ disk = Empty
       /\ \A p \in Proc : pc[p] \in {"meta", "open"} => file = Initialised /\ disk = Initialised
       /\ (\A p \in Proc : pc[p] \notin {"init", "sync"}) =>
            file = disk /\ file \in {Empty, Initialised}

-----------------------------------------------------------------------------
LEMMA DbInitInv == DbInit => LockInv /\ DiskInFile /\ FileInv
<1> SUFFICES ASSUME DbInit PROVE LockInv /\ DiskInFile /\ FileInv
  OBVIOUS
<1>1. Empty \in [PageNo -> Extent] /\ Initialised \in [PageNo -> Extent]
  BY DEF Empty, Initialised, Extent
<1>2. DbTypeOK
  <2>1. pc \in [Proc -> PCs] /\ lock \in [Proc -> {"none", "shared", "exclusive"}]
    BY DEF DbInit, PCs
  <2>2. next \in [Proc -> PageNo]
    BY DEF DbInit, PageNo
  <2>3. file \in [PageNo -> Extent] /\ disk \in [PageNo -> Extent]
    BY <1>1 DEF DbInit
  <2>4. faults \in 0 .. MaxFaults /\ cutShort \in BOOLEAN
    <3>1. 0 \in 0 .. MaxFaults
      BY DbOpenAssumption
    <3> QED  BY <3>1 DEF DbInit
  <2> QED  BY <2>1, <2>2, <2>3, <2>4 DEF DbTypeOK
<1>3. \A p \in Proc : pc[p] = "closed" /\ next[p] = 0 /\ lock[p] = "none"
  BY DEF DbInit
<1>4. LocksExclude
  BY <1>3 DEF LocksExclude, Holding
<1>5. file = disk /\ file \in {Empty, Initialised}
  BY DEF DbInit
<1>6. FileInv
  BY <1>3, <1>5 DEF FileInv
<1> QED  BY <1>2, <1>4, <1>5, <1>6 DEF LockInv, DiskInFile

LEMMA TypeStep == ASSUME DbTypeOK, [DbNext]_dbVars PROVE DbTypeOK'
<1> USE DEF DbTypeOK, PCs, PageNo, Extent
<1>1. ASSUME NEW p \in Proc, Open(p) PROVE DbTypeOK'
  BY <1>1 DEF Open
<1>2. ASSUME NEW p \in Proc, Flock(p) PROVE DbTypeOK'
  BY <1>2 DEF Flock, LockMode
<1>3. ASSUME NEW p \in Proc, CheckSize(p) PROVE DbTypeOK'
  BY <1>3 DEF CheckSize
<1>4. ASSUME NEW p \in Proc, WritePage(p) PROVE DbTypeOK'
  <2>1. next[p] \in 0 .. 3 /\ (next[p] # 3 => next[p] + 1 \in 0 .. 3)
    OBVIOUS
  <2>2. next' \in [Proc -> 0 .. 3]
    BY <1>4, <2>1 DEF WritePage
  <2> QED  BY <1>4, <2>2 DEF WritePage
<1>5. ASSUME NEW p \in Proc, Sync(p) \/ ReadMeta(p) PROVE DbTypeOK'
  BY <1>5 DEF Sync, ReadMeta
<1>13. ASSUME NEW f, Happens(f) PROVE faults' \in 0 .. MaxFaults
  BY <1>13, DbOpenAssumption DEF Happens
<1>14. ASSUME NEW p \in Proc, Leave(p)
      PROVE  /\ pc' \in [Proc -> PCs]
             /\ next' \in [Proc -> PageNo]
             /\ lock' \in [Proc -> {"none", "shared", "exclusive"}]
  BY <1>14 DEF Leave
<1>6. ASSUME NEW p \in Proc, FlockFails(p) \/ WriteFails(p) \/ ReadFails(p) PROVE DbTypeOK'
  BY <1>6, <1>13, <1>14 DEF FlockFails, WriteFails, ReadFails
<1>7. ASSUME NEW p \in Proc, WriteShort(p) PROVE DbTypeOK'
  BY <1>7, <1>13, <1>14 DEF WriteShort
<1>8. ASSUME NEW p \in Proc, SyncFails(p) PROVE DbTypeOK'
  BY <1>8, DbOpenAssumption DEF SyncFails, Happens
<1>9. ASSUME NEW p \in Proc, Close(p) PROVE DbTypeOK'
  BY <1>9, <1>14 DEF Close
<1>15. ASSUME NEW p \in Proc, Kill(p) PROVE DbTypeOK'
  <2>1. cutShort' \in BOOLEAN
    BY <1>15 DEF Kill
  <2> QED  BY <1>13, <1>14, <1>15, <2>1 DEF Kill
<1>10. CASE PowerLoss
  BY <1>10, DbOpenAssumption DEF PowerLoss, Happens
<1>11. CASE UNCHANGED dbVars
  BY <1>11 DEF dbVars
<1> QED
  BY <1>1, <1>2, <1>3, <1>4, <1>5, <1>6, <1>7, <1>8, <1>9, <1>10, <1>11,
     <1>15
     DEF DbNext, OpenStep

LEMMA LockStep == ASSUME LockInv, [DbNext]_dbVars PROVE LockInv'
<1>1. DbTypeOK'
  BY TypeStep DEF LockInv
<1> USE DEF LockInv, DbTypeOK, LocksExclude, Holding, LockMode
<1>2. ASSUME NEW p \in Proc, Flock(p) PROVE LocksExclude'
  <2>1. \A q \in Proc \ {p} : Holding(q) => LockMode(q) = "shared" /\ LockMode(p) = "shared"
    BY <1>2 DEF Flock, Grantable
  <2>2. \A q \in Proc \ {p} : Holding(q)' <=> Holding(q)
    BY <1>2 DEF Flock
  <2>3. Holding(p)' /\ lock'[p] = LockMode(p)
    BY <1>2 DEF Flock
  <2>4. \A q \in Proc \ {p} : lock'[q] = lock[q]
    BY <1>2 DEF Flock
  <2> QED  BY <2>1, <2>2, <2>3, <2>4
<1>3. ASSUME NEW p \in Proc, Leave(p) PROVE LocksExclude'
  BY <1>3 DEF Leave
<1>4. ASSUME NEW p \in Proc, Open(p) PROVE LocksExclude'
  BY <1>4 DEF Open
<1>5. ASSUME NEW p \in Proc, CheckSize(p) \/ WritePage(p) \/ Sync(p) \/ ReadMeta(p) \/ SyncFails(p)
      PROVE LocksExclude'
  BY <1>5 DEF CheckSize, WritePage, Sync, ReadMeta, SyncFails
<1>6. CASE PowerLoss
  <2>1. /\ pc' = [p \in Proc |-> "closed"]
        /\ lock' = [p \in Proc |-> "none"]
    BY <1>6 DEF PowerLoss
  <2> HIDE DEF LockInv, DbTypeOK, LocksExclude, Holding, LockMode
  <2>2. \A p \in Proc : pc'[p] = "closed" /\ lock'[p] = "none"
    BY <2>1
  <2>3. \A p \in Proc : ~Holding(p)'
    BY <2>2 DEF Holding
  <2> QED  BY <1>1, <2>2, <2>3 DEF LockInv, LocksExclude
<1>7. CASE UNCHANGED dbVars
  BY <1>7 DEF dbVars
<1>8. ASSUME NEW p \in Proc,
             FlockFails(p) \/ WriteShort(p) \/ WriteFails(p) \/ ReadFails(p) \/ Close(p) \/ Kill(p)
      PROVE LocksExclude'
  BY <1>3, <1>8 DEF FlockFails, WriteShort, WriteFails, ReadFails, Close, Kill
<1>9. LocksExclude'
  BY <1>2, <1>4, <1>5, <1>6, <1>7, <1>8 DEF DbNext, OpenStep
<1> QED  BY <1>1, <1>9

LEMMA AloneFromLocks == ASSUME OneReader, LockInv PROVE WriterAlone
<1> SUFFICES ASSUME NEW p \in Proc, NEW q \in Proc,
                    pc[p] \in {"init", "sync"}, Holding(q), p # q
             PROVE FALSE
  BY DEF WriterAlone
<1>1. Holding(p)
  BY DEF Holding
<1>2. LockMode(p) = "shared" /\ LockMode(q) = "shared"
  BY <1>1 DEF LockInv, LocksExclude
<1>3. p \in ReadOnly /\ q \in ReadOnly
  BY <1>2 DEF LockMode
<1> QED  BY <1>3 DEF OneReader

-----------------------------------------------------------------------------
LEMMA DiskStep == ASSUME DbTypeOK, DiskInFile, [DbNext]_dbVars PROVE DiskInFile'
<1> USE DEF DiskInFile, DbTypeOK
<1>1. ASSUME NEW p \in Proc, WritePage(p) \/ WriteShort(p) PROVE DiskInFile'
  BY <1>1 DEF WritePage, WriteShort
<1>2. ASSUME NEW p \in Proc, Sync(p) PROVE DiskInFile'
  BY <1>2 DEF Sync
<1>3. ASSUME NEW p \in Proc,
             \/ Open(p) \/ Flock(p) \/ CheckSize(p) \/ ReadMeta(p) \/ FlockFails(p)
             \/ WriteFails(p) \/ SyncFails(p) \/ ReadFails(p) \/ Close(p) \/ Kill(p)
      PROVE DiskInFile'
  BY <1>3 DEF Open, Flock, CheckSize, ReadMeta, FlockFails, WriteFails, SyncFails,
              ReadFails, Close, Kill
<1>4. CASE PowerLoss
  BY <1>4 DEF PowerLoss
<1>5. CASE UNCHANGED dbVars
  BY <1>5 DEF dbVars
<1> QED  BY <1>1, <1>2, <1>3, <1>4, <1>5 DEF DbNext, OpenStep

\* What is whole on disk stays whole: by a sync because it is in the file, by a
\* power loss because it was there already.
LEMMA DiskKeeps ==
  ASSUME DbTypeOK, DiskInFile, [DbNext]_dbVars
  PROVE  \A i \in PageNo : disk[i] = "whole" => disk'[i] = "whole"
<1> USE DEF DiskInFile, DbTypeOK
<1>1. ASSUME NEW p \in Proc, Sync(p)
      PROVE  \A i \in PageNo : disk[i] = "whole" => disk'[i] = "whole"
  BY <1>1 DEF Sync
<1>2. ASSUME NEW p \in Proc,
             \/ Open(p) \/ Flock(p) \/ CheckSize(p) \/ ReadMeta(p) \/ FlockFails(p)
             \/ WritePage(p) \/ WriteShort(p) \/ WriteFails(p) \/ SyncFails(p)
             \/ ReadFails(p) \/ Close(p) \/ Kill(p)
      PROVE  UNCHANGED disk
  BY <1>2 DEF Open, Flock, CheckSize, ReadMeta, FlockFails, WritePage, WriteShort,
              WriteFails, SyncFails, ReadFails, Close, Kill
<1>3. CASE PowerLoss
  BY <1>3 DEF PowerLoss
<1>4. CASE UNCHANGED dbVars
  BY <1>4 DEF dbVars
<1> QED  BY <1>1, <1>2, <1>3, <1>4 DEF DbNext, OpenStep

-----------------------------------------------------------------------------
LEMMA WrittenNext ==
  ASSUME NEW n \in 0 .. 3
  PROVE  [Begun(n) EXCEPT ![n] = "whole"] = Begun(n + 1)
<1> DEFINE f == [Begun(n) EXCEPT ![n] = "whole"]
           g == Begun(n + 1)
<1>1. f = [i \in PageNo |-> f[i]] /\ g = [i \in PageNo |-> g[i]]
  BY DEF Begun
<1>2. ASSUME NEW i \in PageNo PROVE f[i] = g[i]
  BY DEF Begun, PageNo
<1> HIDE DEF f, g
<1>3. f = g
  BY <1>1, <1>2
<1> QED  BY <1>3 DEF f, g

LEMMA FileStep ==
  ASSUME DbTypeOK, WriterAlone, FileInv, [DbNext]_dbVars PROVE FileInv'
<1> USE DEF DbTypeOK, FileInv
<1>1. ASSUME NEW p \in Proc, Open(p) PROVE FileInv'
  BY <1>1 DEF Open
<1>2. ASSUME NEW p \in Proc, Flock(p) PROVE FileInv'
  BY <1>2 DEF Flock
<1>3. ASSUME NEW p \in Proc, CheckSize(p) PROVE FileInv'
  <2>1. \A q \in Proc : pc[q] \notin {"init", "sync"}
    BY <1>3 DEF CheckSize, WriterAlone, Holding
  <2>2. Begun(0) = Empty
    BY DEF Begun, Empty, PageNo
  <2>3. \A q \in Proc : q # p => pc'[q] = pc[q]
    BY <1>3 DEF CheckSize
  <2>4. pc'[p] = IF file = Empty THEN "init" ELSE "meta"
    BY <1>3 DEF CheckSize
  <2>5. next[p] = 0
    BY <1>3 DEF CheckSize
  <2>6. UNCHANGED <<next, file, disk, cutShort>>
    BY <1>3 DEF CheckSize
  <2>7. Empty # Initialised
    <3>1. Empty[0] = "none" /\ Initialised[0] = "whole"
      BY DEF Empty, Initialised, PageNo
    <3> QED  BY <3>1
  <2> HIDE DEF DbTypeOK
  <2> QED  BY <2>1, <2>2, <2>3, <2>4, <2>5, <2>6, <2>7
<1>4. ASSUME NEW p \in Proc, WritePage(p) PROVE FileInv'
  <2>1. \A q \in Proc \ {p} : pc[q] \notin {"init", "sync", "meta", "open"}
    BY <1>4 DEF WritePage, WriterAlone, Holding
  <2>2. \A q \in Proc \ {p} : pc'[q] = pc[q] /\ next'[q] = next[q]
    BY <1>4 DEF WritePage
  <2>3. pc[p] = "init" /\ next[p] \in 0 .. 3 /\ UNCHANGED <<disk, cutShort>>
    BY <1>4 DEF WritePage, PageNo
  <2>6. ~cutShort => file = Begun(next[p]) /\ file' = [file EXCEPT ![next[p]] = "whole"]
    BY <1>4, <2>3 DEF WritePage
  <2>4. CASE next[p] # 3
    <3>1. next'[p] = next[p] + 1 /\ pc'[p] = "init"
      BY <1>4, <2>4 DEF WritePage
    <3>2. ~cutShort => file' = Begun(next[p] + 1)
      BY <2>3, <2>6, WrittenNext
    <3> QED  BY <2>1, <2>2, <2>3, <3>1, <3>2
  <2>5. CASE next[p] = 3
    <3>1. next'[p] = 0 /\ pc'[p] = "sync"
      BY <1>4, <2>5 DEF WritePage
    <3>2. Begun(next[p] + 1) = Initialised
      BY <2>5 DEF Begun, PageNo, Initialised
    <3>3. ~cutShort => file' = Initialised
      BY <2>3, <2>6, <3>2, WrittenNext
    <3> QED  BY <2>1, <2>2, <2>3, <3>1, <3>3
  <2> QED  BY <2>4, <2>5
<1>5. ASSUME NEW p \in Proc, Sync(p) PROVE FileInv'
  <2>1. \A q \in Proc \ {p} : pc[q] \notin {"init", "sync", "meta", "open"}
    BY <1>5 DEF Sync, WriterAlone, Holding
  <2> QED  BY <1>5, <2>1 DEF Sync
<1>6. ASSUME NEW p \in Proc, ReadMeta(p) PROVE FileInv'
  BY <1>6 DEF ReadMeta
<1>7. ASSUME NEW p \in Proc, WriteShort(p) \/ WriteFails(p) PROVE FileInv'
  BY <1>7 DEF WriteShort, WriteFails, Leave
<1>8. ASSUME NEW p \in Proc, SyncFails(p) PROVE FileInv'
  BY <1>8 DEF SyncFails
<1>9. ASSUME NEW p \in Proc, FlockFails(p) \/ ReadFails(p) \/ Close(p) PROVE FileInv'
  BY <1>9 DEF FlockFails, ReadFails, Close, Leave
<1>10. ASSUME NEW p \in Proc, Kill(p) PROVE FileInv'
  BY <1>10 DEF Kill, Leave
<1>11. CASE PowerLoss
  <2>1. \A p \in Proc : pc'[p] = "closed" /\ next'[p] = 0
    BY <1>11 DEF PowerLoss
  <2>2. CASE cutShort'
    BY <2>1, <2>2
  <2>3. CASE ~cutShort'
    <3>1. ~cutShort /\ \A p \in Proc : pc[p] \notin {"init", "sync"}
      BY <1>11, <2>3 DEF PowerLoss
    <3>2. file = disk /\ file \in {Empty, Initialised}
      BY <3>1
    <3>3. PICK kept \in SUBSET PageNo :
            LET left == [i \in PageNo |-> IF i \in kept THEN file[i] ELSE disk[i]]
            IN  disk' = [i \in PageNo |->
                           IF left[i] = "none" /\ \E j \in PageNo : j > i /\ left[j] # "none"
                           THEN "torn" ELSE left[i]]
      BY <1>11 DEF PowerLoss
    <3>4. [i \in PageNo |-> IF i \in kept THEN file[i] ELSE disk[i]] = file
      BY <3>2
    <3>5. disk' = file
      BY <3>2, <3>3, <3>4 DEF Empty, Initialised
    <3>6. file' = disk'
      BY <1>11 DEF PowerLoss
    <3> QED  BY <2>1, <3>2, <3>5, <3>6
  <2> QED  BY <2>2, <2>3
<1>12. CASE UNCHANGED dbVars
  BY <1>12 DEF dbVars
<1> QED
  BY <1>1, <1>2, <1>3, <1>4, <1>5, <1>6, <1>7, <1>8, <1>9, <1>10, <1>11, <1>12
     DEF DbNext, OpenStep

-----------------------------------------------------------------------------
\* The file lock is held from flock to the end of a use, and two processes that hold
\* it both asked for it shared (db.cpp 91-103).
THEOREM LockInvariance == DbSpec => []LockInv
<1>1. LockInv /\ [DbNext]_dbVars => LockInv'
  BY LockStep
<1> QED  BY <1>1, DbInitInv, PTL DEF DbSpec

\* The variables of open_db keep their types.
THEOREM DbTypeCorrect == DbSpec => []DbTypeOK
BY LockInvariance, PTL DEF LockInv

\* While a process writes the first pages no other uses the database, if at most
\* one process opens it read-only.
THEOREM InitIsAlone == ASSUME OneReader PROVE DbSpec => []WriterAlone
<1>1. LockInv => WriterAlone
  BY AloneFromLocks
<1> QED  BY <1>1, LockInvariance, PTL

\* An open that returned OK has four whole pages on disk, if at most one process
\* opens the file read-only and no init was cut short.
THEOREM OpenIsClean == ASSUME OneReader PROVE DbSpec => []CleanOpen
<1>1. FileInv => CleanOpen
  BY DEF FileInv, CleanOpen
<1>2. LockInv /\ FileInv /\ [DbNext]_dbVars => FileInv'
  BY AloneFromLocks, FileStep DEF LockInv
<1> QED  BY <1>1, <1>2, DbInitInv, LockInvariance, PTL DEF DbSpec

\* No page that reached the disk is lost, whoever opens the file, fails or dies.
THEOREM DiskNeverLoses == DbSpec => NothingLost
<1>1. LockInv /\ DiskInFile /\ [DbNext]_dbVars => DiskInFile'
  BY DiskStep DEF LockInv
<1>2. LockInv /\ DiskInFile /\ [DbNext]_dbVars =>
        [\A i \in PageNo : disk[i] = "whole" => disk'[i] = "whole"]_dbVars
  BY DiskKeeps DEF LockInv
<1> QED  BY <1>1, <1>2, DbInitInv, LockInvariance, PTL DEF DbSpec, NothingLost
=============================================================================
