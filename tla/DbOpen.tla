------------------------------- MODULE DbOpen -------------------------------
(***************************************************************************)
(* open_db and DB::init (src/db/db.cpp 14-66, 76-141) run by several       *)
(* processes on one file, with UnixFileHandle's flock, write, fdatasync    *)
(* and close (src/fs/file_system.cpp).  A process can be killed between    *)
(* any two steps, the machine can lose power, and calls can fail.          *)
(*                                                                         *)
(* The file is its first four pages; what a page holds is abstracted to    *)
(* how much of it was written.                                             *)
(***************************************************************************)
EXTENDS Naturals

CONSTANTS Proc,        \* the processes that open the database
          ReadOnly,    \* those whose Options have read_only set
          Faults,      \* the kinds of failure that can happen
          MaxFaults    \* bound on how many of them happen

FaultKinds == {"flock", "short", "write", "sync", "read", "kill", "power"}

ASSUME DbOpenAssumption ==
  /\ ReadOnly \subseteq Proc
  /\ Faults \subseteq FaultKinds
  /\ MaxFaults \in Nat

VARIABLES pc,        \* where each process is in open_db
          next,      \* next[p]: the page init writes next
          lock,      \* lock[p]: the mode of the flock p holds
          file,      \* the file as system calls see it
          disk,      \* the file as it survives a power loss
          faults,    \* failures so far
          cutShort   \* some init began and did not finish

dbVars == <<pc, next, lock, file, disk, faults, cutShort>>

PageNo == 0 .. 3
Extent == {"none", "torn", "whole"}
PCs == {"closed", "locking", "locked", "init", "sync", "meta", "open"}

Empty == [i \in PageNo |-> "none"]
Initialised == [i \in PageNo |-> "whole"]

\* Faulty variant of LockMode: every process asks for a shared lock.
AlwaysShared(p) == "shared"

\* operation = LOCK_EX, or LOCK_SH if options.is_read_only()
LockMode(p) == IF p \in ReadOnly THEN "shared" ELSE "exclusive"

\* The kernel's rule for flock.
Grantable(p) ==
  \A q \in Proc \ {p} : lock[q] # "none" => lock[q] = "shared" /\ LockMode(p) = "shared"

Happens(fault) ==
  /\ fault \in Faults
  /\ faults < MaxFaults
  /\ faults' = faults + 1

\* The handle goes away: close() gives the lock back with the descriptor.
Leave(p) ==
  /\ pc' = [pc EXCEPT ![p] = "closed"]
  /\ next' = [next EXCEPT ![p] = 0]
  /\ lock' = [lock EXCEPT ![p] = "none"]

-----------------------------------------------------------------------------
\* Faulty variant of Open: O_TRUNC is among the flags.
OpenTruncates(p) ==
  /\ pc[p] = "closed"
  /\ file' = Empty
  /\ disk' = Empty
  /\ pc' = [pc EXCEPT ![p] = "locking"]
  /\ UNCHANGED <<next, lock, faults, cutShort>>

\* FileSystem::open(path, open_flag() | O_CREAT)
Open(p) ==
  /\ pc[p] = "closed"
  /\ pc' = [pc EXCEPT ![p] = "locking"]
  /\ UNCHANGED <<next, lock, file, disk, faults, cutShort>>

\* ::flock without LOCK_NB blocks until the lock is granted; the timeout of
\* FileHandle::flock is looked at only after the call has returned.
Flock(p) ==
  /\ pc[p] = "locking"
  /\ Grantable(p)
  /\ lock' = [lock EXCEPT ![p] = LockMode(p)]
  /\ pc' = [pc EXCEPT ![p] = "locked"]
  /\ UNCHANGED <<next, file, disk, faults, cutShort>>

\* -1 is never EWOULDBLOCK: every failure, an interrupted wait too, is an error.
FlockFails(p) ==
  /\ pc[p] = "locking"
  /\ Happens("flock")
  /\ Leave(p)
  /\ UNCHANGED <<file, disk, cutShort>>

\* FileSystem::file_size(...) == 0 decides whether the file is initialised.
CheckSize(p) ==
  /\ pc[p] = "locked"
  /\ pc' = [pc EXCEPT ![p] = IF file = Empty THEN "init" ELSE "meta"]
  /\ UNCHANGED <<next, lock, file, disk, faults, cutShort>>

\* Faulty variants of WritePage: the loop runs once too often; it stops at the
\* freelist page; it never advances.
WritePageOnceMore(p) ==
  /\ pc[p] = "init"
  /\ file' = [file EXCEPT ![next[p]] = "whole"]
  /\ next' = [next EXCEPT ![p] = @ + 1]
  /\ pc' = [pc EXCEPT ![p] = IF next[p] = 3 THEN "sync" ELSE "init"]
  /\ UNCHANGED <<lock, disk, faults, cutShort>>

WriteThreePages(p) ==
  /\ pc[p] = "init"
  /\ file' = [file EXCEPT ![next[p]] = "whole"]
  /\ next' = [next EXCEPT ![p] = IF next[p] = 2 THEN 0 ELSE @ + 1]
  /\ pc' = [pc EXCEPT ![p] = IF next[p] = 2 THEN "sync" ELSE "init"]
  /\ UNCHANGED <<lock, disk, faults, cutShort>>

WriteSamePage(p) ==
  /\ pc[p] = "init"
  /\ file' = [file EXCEPT ![next[p]] = "whole"]
  /\ next' = [next EXCEPT ![p] = (@ + 1) % 2]
  /\ UNCHANGED <<pc, lock, disk, faults, cutShort>>

WritePage(p) ==
  /\ pc[p] = "init"
  /\ file' = [file EXCEPT ![next[p]] = "whole"]
  /\ next' = [next EXCEPT ![p] = IF next[p] = 3 THEN 0 ELSE @ + 1]
  /\ pc' = [pc EXCEPT ![p] = IF next[p] = 3 THEN "sync" ELSE "init"]
  /\ UNCHANGED <<lock, disk, faults, cutShort>>

\* A short write is reported as kStatusCorrupt; what was written stays.
WriteShort(p) ==
  /\ pc[p] = "init"
  /\ Happens("short")
  /\ file' = [file EXCEPT ![next[p]] = IF @ = "whole" THEN "whole" ELSE "torn"]
  /\ cutShort' = TRUE
  /\ Leave(p)
  /\ UNCHANGED disk

\* write throws IOException, which init turns into kStatusErr.
WriteFails(p) ==
  /\ pc[p] = "init"
  /\ Happens("write")
  /\ cutShort' = TRUE
  /\ Leave(p)
  /\ UNCHANGED <<file, disk>>

Sync(p) ==
  /\ pc[p] = "sync"
  /\ disk' = file
  /\ pc' = [pc EXCEPT ![p] = "open"]
  /\ UNCHANGED <<next, lock, file, faults, cutShort>>

\* init drops the Status of fdatasync: open_db returns OK all the same.
SyncFails(p) ==
  /\ pc[p] = "sync"
  /\ Happens("sync")
  /\ cutShort' = TRUE
  /\ pc' = [pc EXCEPT ![p] = "open"]
  /\ UNCHANGED <<next, lock, file, disk>>

\* Whatever the first page holds, open_db returns OK; a meta page that does not
\* validate only changes where the page size comes from.
ReadMeta(p) ==
  /\ pc[p] = "meta"
  /\ pc' = [pc EXCEPT ![p] = "open"]
  /\ UNCHANGED <<next, lock, file, disk, faults, cutShort>>

\* read throws IOException, which open_db does not catch: the DB and its handle are
\* destroyed on the way out.
ReadFails(p) ==
  /\ pc[p] = "meta"
  /\ Happens("read")
  /\ Leave(p)
  /\ UNCHANGED <<file, disk, cutShort>>

Close(p) ==
  /\ pc[p] = "open"
  /\ Leave(p)
  /\ UNCHANGED <<file, disk, faults, cutShort>>

\* The process dies; the kernel closes its descriptors and keeps the file.
Kill(p) ==
  /\ pc[p] # "closed"
  /\ Happens("kill")
  /\ cutShort' = (cutShort \/ pc[p] \in {"init", "sync"})
  /\ Leave(p)
  /\ UNCHANGED <<file, disk>>

\* Each page that is not on disk yet gets there or not; a page missing before
\* one that is there reads as garbage.
PowerLoss ==
  /\ Happens("power")
  /\ \E kept \in SUBSET PageNo :
       LET left == [i \in PageNo |-> IF i \in kept THEN file[i] ELSE disk[i]]
       IN  disk' = [i \in PageNo |->
                      IF left[i] = "none" /\ \E j \in PageNo : j > i /\ left[j] # "none"
                      THEN "torn" ELSE left[i]]
  /\ file' = disk'
  /\ cutShort' = (cutShort \/ \E p \in Proc : pc[p] \in {"init", "sync"})
  /\ pc' = [p \in Proc |-> "closed"]
  /\ next' = [p \in Proc |-> 0]
  /\ lock' = [p \in Proc |-> "none"]

-----------------------------------------------------------------------------
\* A path that does not exist yet, or a database made before.
DbInit ==
  /\ pc = [p \in Proc |-> "closed"]
  /\ next = [p \in Proc |-> 0]
  /\ lock = [p \in Proc |-> "none"]
  /\ file \in {Empty, Initialised}
  /\ disk = file
  /\ faults = 0
  /\ cutShort = FALSE

\* The steps open_db itself takes once it runs.
OpenStep(p) ==
  \/ Flock(p)
  \/ CheckSize(p)
  \/ WritePage(p)
  \/ Sync(p)
  \/ ReadMeta(p)

DbNext ==
  \/ \E p \in Proc :
       \/ Open(p)
       \/ OpenStep(p)
       \/ FlockFails(p)
       \/ WriteShort(p)
       \/ WriteFails(p)
       \/ SyncFails(p)
       \/ ReadFails(p)
       \/ Close(p)
       \/ Kill(p)
  \/ PowerLoss

\* The scheduler runs a process that can run; nobody has to open or to close the
\* database, and no call has to fail.
DbSpec ==
  /\ DbInit
  /\ [][DbNext]_dbVars
  /\ \A p \in Proc : WF_dbVars(OpenStep(p))

-----------------------------------------------------------------------------
DbTypeOK ==
  /\ pc \in [Proc -> PCs]
  /\ next \in [Proc -> PageNo]
  /\ lock \in [Proc -> {"none", "shared", "exclusive"}]
  /\ file \in [PageNo -> Extent]
  /\ disk \in [PageNo -> Extent]
  /\ faults \in 0 .. MaxFaults
  /\ cutShort \in BOOLEAN

Holding(p) == pc[p] \in {"locked", "init", "sync", "meta", "open"}

\* While a process writes the first pages, no other uses the database, which the file
\* lock of db.cpp 84-98 is for; with at most one process that opens read-only.
WriterAlone ==
  \A p, q \in Proc : pc[p] \in {"init", "sync"} /\ Holding(q) => p = q

\* DB::init runs in one process at a time.  The comment at db.cpp 84-86 wants the lock for
\* this: two processes "would write meta pages and free pages separately".  False, if two
\* processes open read-only.
OneInitialises ==
  \A p, q \in Proc : pc[p] \in {"init", "sync"} /\ pc[q] \in {"init", "sync"} => p = q

\* A process for which open_db returned OK has all four pages in the file, and
\* the pages are on disk, as long as no init was cut short: the
\* size check under the lock (db.cpp 105) never lets a process past a file that
\* another one is still initialising, if at most one process opens read-only.
CleanOpen ==
  ~cutShort => \A p \in Proc : pc[p] = "open" => file = Initialised /\ disk = Initialised

\* A page that reached the disk is never lost again, whoever opens the file,
\* fails or dies afterwards: init only writes to a file that has no page.
NothingLost == [][\A i \in PageNo : disk[i] = "whole" => disk'[i] = "whole"]_dbVars

\* A process that got the lock gets through open_db: it opens the database, or an
\* error or its death releases the lock for the others.
HoldersFinish == \A p \in Proc : Holding(p) ~> pc[p] \in {"open", "closed"}

\* Options::timeout "is the amount of time to wait to obtain a file lock"
\* (options.hpp 152-154): the wait for the lock ends.
WaitsEnd == \A p \in Proc : pc[p] = "locking" ~> pc[p] # "locking"
=============================================================================
