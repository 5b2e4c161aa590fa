# TLA+ models of boltdb-cpp

boltdb-cpp is an unfinished port of the key/value store bolt to C++. This directory holds
TLA+ modules for the parts of it that have behaviour, TLC configurations that check them on
small instances, and TLAPS proofs for every value of the constants. `PROJECT.json` lists
the runs, the theorems, the hazards and findings, and the source lines behind each definition.

    tlc -workers 2 -config FreeListTxns.cfg FreeListTxns.tla     # a run
    tlapm FreeListProofs.tla                                     # the proofs of a module

Paths below are relative to the root of the repository. A build makes `db.cpp`,
`file_system.cpp`, `os`, `util`, `freelist.cpp` and `page.cpp`; `node.cpp`, `bucket.cpp`,
`cursor.cpp` and `txn.cpp` belong to no target, and parts of them do not compile.

## 1. The system

| component | state | operations | module |
|---|---|---|---|
| free list, `page/freelist` | `ids_`, `pending_` by transaction, lookup `cache_` | allocate_contiguous, free, release, rollback, read_from, write_to, reload | FreeList, AllocateScan |
| freelist page | count and ids on a page | write_to, read_from, byte_size | FreeListPage, MCFreeList |
| transactions, `transaction/txn` | committed tree, writer, readers | free; the rest is declared or empty | FreeListTxns |
| database, `db/db` | file, page size | open_db, init | DbOpen |
| file handle, `fs/file_system` | descriptor, file lock | open, flock, read, write, fdatasync, close | DbOpen |
| byte slice, `util/slice`, `ref_count`, `alloc` | pointers into a buffer, shared counter, pool | construct, copy, move, append, reserve, remove_prefix, destroy | ByteSlice |
| node, `page/node` | inodes, children, parent | split; read and write; child_at, siblings, put, remove, spill | NodeSplit, NodePage, NodeTree |
| page, `page/page` | header, elements | accessors | FreeListPage, NodePage, MetaPage |
| meta page, `db/db` | fields and checksum | serialize, deserialize, sum64, validate, what init writes | MetaPage |
| integers, `util/binary`; checksum, `util/crc64` | none | uint, put_uint, append_uint; crc64_be | Binary, Crc64 |
| bucket, `db/bucket` | node cache, root node | node; page_node does not compile | NodeTree |
| cursor, `db/cursor` | page stack | first, unfinished | none |

**How they interact.** A transaction frees pages through `DB::free`, which passes its id and
the page to the free list; the list remembers them as pending until no reader can need them.
A commit writes the list to a freelist page, a new process reads it. A node is read from a
page, its keys and values are byte slices, and it is split into nodes that fit a page when it
is written. `open_db` makes a file handle, locks the file and initialises it; the file lock is
all that processes share. Everything else is called in one thread: slices are documented as
not thread-safe, and the list is used by the one writer.

**What is hard.** The free list has the same page in up to three containers that have to stay
in step, operations that stop half way with an exception, and callers whose order of calls
decides whether a reader loses its pages. Opening is concurrent between processes and can be
cut short at every system call. Slices share buffers and counters through any sequence of
copies, moves and growth. Node::split and the scan of allocate_contiguous are loops of
boundary conditions. A bucket's nodes are read on demand and linked by pointers, a cache and
keys that may change, keys of one size have no order, and spill changes the tree it walks. Only a
checksum tells a damaged meta page. The other components are sequential conversions.

**What makes each correct.**

- Free list: a page is listed once; the cache knows all listed pages; what is saved can be read.
- Transactions: every page is in use or tracked, never both; open readers keep their pages;
  an abort leaves no trace; after a crash the committed state accounts for every page.
- Opening: one process initialises and no other uses the file meanwhile; who gets OK has a
  complete, durable file; locks are given back; waits end.
- Slices: counters are exact; buffers are neither leaked nor dangling; an operation on one
  slice leaves the others alone.
- Nodes: a split keeps every inode in order, in nodes of a legal size, and ends; a page read
  back is what was written; a page has one node, a child is found in its parent, keys ascend,
  and each node has the entries that the puts and removals on it leave.
- Meta pages: what was written is read and validates; nothing else validates.

## 2. Modules

**PageLedger** (abstract) says what the free list promises: sets of free, held and saved pages
between which operations move pages. **FreeList** is the class, one action per operation.
Vectors are bags, `[Page -> Nat]`, so a page listed twice is visible; their order is left out
because `ids_` is sorted by every operation that fills it. `FreeTurns` is `free` after k turns
of its loop: k below the whole length is the call that throws at a cached page and leaves the
pages before it pending. `Reload` includes both reindexings. `image` is the freelist page last
written; `Restart` is a new process that reads it. `ImplementsLedger` is the refinement.

**AllocateScan** is the loop of `allocate_contiguous`, one iteration per step, on the sorted
vector. MCAllocateScan instantiates FreeList beside it, and `ScanIsAllocate` says that the loop
ends as FreeList's single step does, for a file of `MaxPage` pages: it throws if and only if a reserved
id keeps the step from being taken, and returns the same block and leaves the same list and cache
otherwise.

**SnapshotPages** (abstract) says what transactions may rely on. **FreeListTxns** EXTENDS
FreeList and puts its actions under one writer and several readers: begin, release of what no
reader sees, allocate, free, commit, rollback followed by reload, reading, crash. The repository
declares or documents these callers (`txn.hpp` 17-29, 127-132; `freelist.hpp` 47-50, 65-71) but
does not contain their bodies, so those actions are marked external in the map. Two assumptions
come with them: the file has all its pages, and the commit switches the committed tree and the
freelist page in one step. The writer's id is that of the committed transaction plus one.

**FreeListPage** is the freelist page word by word, as operators on a list and on a page that held
something else. A word is a page id; the pointer arithmetic of `write_to` and `read_from` is kept,
because the two differ. A small `SpecialCount` stands for 0xFFFF so that both forms of the page
fit. **MCFreeList** puts FreeList beside it: RoundTrip and FitsByteSize are about the page of every
list that the class's operations lead to.

**DbOpen** is `open_db` and `DB::init` in several processes: open, flock, size check, four page
writes, fdatasync, reading the meta page, close. `file` is what system calls see, `disk` what
survives a power loss. The faults are a failing flock, a short write, a failing write, a failing
fdatasync, a read that throws through open_db, a killed process, and a power loss that keeps any
subset of unsynced pages. What a page holds is abstracted to none, torn or whole.

**Binary**, **Crc64** and **MetaPage** are the meta page. An integer is the set of its bits that are
set, a byte one of at most `ByteBits`, so that 64 bit values are exact; `Uint` takes the order of
bytes as a parameter, as the two namespaces of `binary.hpp` do. `crc64_be` uses a table that is
computed from the polynomial; `Remainder` is the long division it is to agree with. MetaPage
writes a meta, writes another over it that may stop after any byte, or flips bits within the width
of the checksum, and reads it as `deserialize` and `validate` do. `InitWrites` is the meta page of
`DB::init`: a page header and the object in the machine's own byte order; open_db deserialises
that page from offset 0 in big endian, so it never validates there (a finding).

**ByteSlice** is the class with RefCount and the memory pool. Buffers and counters live at
addresses that are reused once freed; `mem` has their bytes. Each constructor, assignment and
mutator is an action that makes all the changes of the C++ call in their order, for example
`CopyAssign` lowers the old counter before it raises the new one. Copying a moved-from slice
dereferences a null pointer; the model records the crash in `fault` and stops. `remove_prefix`
and `operator[]` are called as their assertions allow.

**NodeSplit** is `Node::split` with `split_two`, `split_index` and `is_size_less_than`, one step
per inode counted. An inode is its position in the node that is split, and has a size. The
threshold is chosen nondeterministically, because `Bucket::fill_percent_` is never initialised.
`Cut` makes at most MaxInodes cuts, a bound that the code never comes near (a cut takes two inodes at
least): it only keeps a faulty loop, which cuts at 0 for ever, within a finite number of states.

**NodePage** is `Node::write` and `Node::read`, one step per inode written, on a page whose
memory holds something else and that has at least the `byte_size` bytes the node announces, as its
callers are to provide. Elements are records at the front of the page, keys and values
sequences of bytes behind them.

**KeyMap** (abstract) says what the nodes of a bucket promise: each has entries, loaded once from its
page. A store adds one and takes at most one of the old key away, a deletion takes at most one of its
key, and both take it for certain if the key is alone with its size in the node; a split moves entries to
empty nodes. **NodeTree** is `Bucket::node` with its cache, `child_at`, `child_index`, the siblings,
`put`, `remove` and `spill`. Nodes are numbered in the order of their construction; `made` is how
many there are. What a page of the committed tree holds is the constant `PageAt` (`DB::page` returns
null in the repository), with what a tree of pages guarantees as an assumption: pages may be empty, as
the root of a new database is, and keys may have one size. The order of keys is that of `operator<`,
which compares sizes only: `std::sort` may leave children of one size in any order, and `put` and
`remove` see the first key of a size. Callers of `put` are taken to give a new key the old one's place
in this order (`TakesPlace`). `highMark` is what `put` takes for the high water mark: the meta page id
of the transaction.

`stack` is the recursion of spill, a frame for each call: its node, and the children its loop has still to
visit. `Call` sorts the children and enters the loop; one child is not compared, two or more of which
one is empty are undefined, and `fault` is set. Then the node is split, at any cuts that respect the
minimum of keys (NodeSplit has where they are); its new nodes join the parent's children, which
the parent's loop runs over, and its page is freed. `spill` reaches its end without a return:
`SpillReturns` has the caller take it for OK and go on with its next child, or take it for an error
that every caller gives back, or the program crash, which it may also do because the vector of the
loop has grown. The transaction goes on after a spill that came back. `child_at` also ends without a
return but has done its work; its effect on the tree is the action. `MaxCalls` bounds the calls of put,
remove and the root's spill.

Definitions called "Faulty variant of X" are plausible bugs of X. No specification uses them;
for every property that a passing run checks there is one that breaks it, listed under
`mutants`.

## 3. Runs

Passing runs. States are distinct states found.

| run | instance | shows |
|---|---|---|
| `freelist` | pages 0..5, 3 transaction ids, overflow to 2, blocks to 3, SpecialCount 5; 14 600 states | types, TrackedOnce, CacheCovers, ImageSound, refinement of PageLedger, from every sequence of operations; RoundTrip and FitsByteSize of every list below the special count |
| `freelist_txns` | pages 0..5, 4 transaction ids, 2 readers; 490 000 states | PagesAccounted, CacheIsExact, CrashRecovers, ReadersKeepPages, refinement of SnapshotPages |
| `allocate_scan` | every sorted vector of up to 5 ids from 0..7, n in 0..4; 20 000 states | ScanCorrect: the first block if there is one, erased from list and cache alike; ScanIsAllocate: every call ends as FreeList's step |
| `db_open` | 2 writers, 1 reader, 2 faults of any kind; 3 200 states | WriterAlone, CleanOpen, NothingLost, HoldersFinish |
| `byte_slice` | 3 slices, 3 buffers, 2 counters, 2 bytes, capacity 3; symmetric | CountsReferences, BuffersOwned, SharedTogether, NothingStale, AppendIsLocal |
| `node_split` | up to 8 inodes of 3 sizes, 4 thresholds; 750 000 states | InodesKept, EnoughKeys, NodesFit, CutsAreLate, SplitEnds |
| `node_page` | up to 4 inodes, 3 keys, 3 values; 500 000 states | KeysSurvive, StaysInPage |
| `meta_page` | 3 metas, 2 page sizes, real widths and polynomial; 17 400 states | MetaRoundTrip, DamageRejected, TableIsDivision |
| `node_tree` | a tree of three levels with an empty leaf, or the empty leaf of a new database; 3 keys of 2 sizes, 4 nodes, 4 calls; 193 000 states | TreeLinked, SiblingsAdjacent, KeysAscend, refinement of KeyMap |

Runs that find a violation; each is a finding in `PROJECT.json` with the line it contradicts.

| run | property | what TLC shows |
|---|---|---|
| `freelist_page_wide` | RoundTrip | from the special count on, ids are written seven words behind where they are read; of three ids none is read back |
| `db_open_shared` | OneInitialises | two read-only opens of a new file are in `DB::init` together |
| `db_open_timeout` | WaitsEnd | the wait for the lock is not ended by the timeout |

**Why the bounds are enough.** Pages 0 and 1 are reserved, so 0..5 leaves four usable pages:
room for a block of three with a page beside it, for a free with overflow that meets a cached
page at its second or third turn, and for a reader, a writer and a free page at once. Three
transaction ids have one below, at and above a release. Two readers can start from different
commits. Two faults allow a failed initialisation followed by a failed repair. Three slices
are an alias, the one it shares with, and one outside. Eight inodes are split into three nodes;
the sizes are tiny, middling and larger than a page. Page sizes and kSpecialCount are scaled
down; no formula depends on their values. Meta pages keep the widths and the polynomial of the
code; a write stops after every byte, and damage begins at every bit. The tree of
`node_tree` has a branch over an empty leaf, a leaf and another branch with an only child: four nodes
are one path of it, or a path and a sibling, or a leaf with the parent and the parts a split makes, and
leave room for a split below a loop that goes on. Two keys of one size and one of another are all the
ways two keys compare. Four calls allow a put or removal on both sides of a split, and a spill after one
that gave back an error.

**Symmetry** is used in `byte_slice` only, over slices, buffers and counters, none of which a
property names and none of which is ordered; the run has no liveness property.

**Deadlock** is checked where the system goes on for ever. It is switched off for the functions
that return (`allocate_scan`, `node_split`, `node_page`, `meta_page`) and for `byte_slice`, whose
program may reach undefined behaviour and stop there. `node_tree` checks it: a transaction may end
between two calls and does when the program crashes (`Ends`), but a spill that runs never has nowhere
to go.

**Fairness.** `SplitSpec` has weak fairness of its next step: a sequential function that runs
keeps running. `DbSpec` has weak fairness of each process's own steps inside `open_db`
(`OpenStep`), the operating system's scheduling; it has none of opening, closing, or of any
fault. A blocked flock is disabled, so it need not ever be granted: that is what
`db_open_timeout` shows, and `HoldersFinish` is about processes that have the lock. The other
specifications state no fairness and no liveness.

## 4. Proofs

Each proof module EXTENDS the module it is about. The assumptions are the named ASSUMEs of the
modules (bounds are naturals, sets finite where counted), and in the theorems that name one of
them the hypotheses `NarrowPage`, `OneReader` and `WideMixesTellApart`.

- **FreeListProofs**, three parts.
  *The class.* `Inv` is types, TrackedOnce, CacheCovers and ImageSound. TrackedOnce is not
  inductive by itself: a free keeps it only because the cache covers the lists, a restart only
  because the saved page lists nothing twice. One lemma per operation preserves `Inv`; the
  refinement maps each to its PageLedger action. Theorems TypeCorrect, NeverListedTwice,
  CacheKnowsTracked, ImageIsSound, Refinement.
  *Under transactions*, with the same lemmas. `TxnsInv` adds that pages are accounted
  for, the freelist page against the committed tree, the exact cache, `PendingIsDead` (what committed
  transactions freed is not in the committed tree, and only the running writer has newer pending
  pages) and `SnapshotsCovered` (a page a reader sees is still in the committed tree, or pending for
  a transaction that committed after the reader started). The last one is what makes
  ReadersKeepPages inductive: a release up to the oldest reader cannot reach those pages. Theorems
  TxnsTypeCorrect, NoPageLost, CacheStaysExact, CrashIsSafe, ReadersAreSafe, TxnsRefinement.
  *The page.* It gives back every list and byte_size is its size (PageRoundTrip, PageFits), under
  `NarrowPage`: fewer pages in the file than the special count, and a page with room for them.
- **AllocateScanProofs**: the loop invariant says the window ends at the last element looked at, is
  maximal to the left, and no earlier window has n elements. Theorems ScanFirstFit, ScanComplete,
  ScanErasesTogether, for vectors of every length; ScanAgrees says that a call ends as one step of
  FreeList's AllocateContiguous, or throws where that step is refused. For that the vector has to be
  read as a bag: the n elements of the window are the ids of the block, once each, and what is left
  has one of each less. Of the throw `EndInv` knows that the first element of the vector is its least.
- **ByteSliceProofs**: types, exact counts, owned buffers and shared-together are inductive together.
  Every operation takes one slice out (`CountWithout`, `SizeWithout`) and puts it back in one of a
  few ways; a lemma says what is left is consistent, one lemma per way restores the invariant.
  Theorems SliceTypeCorrect, CountsAreExact, NoLeakNoDangling, UniqueIsSole. `BytesInv` adds that a
  slice shows bytes of its own buffer that somebody wrote; it needs those invariants, since a
  freed or grown buffer is given away while others may point into it. Theorems OnlyWrittenBytes, and
  AppendsAreLocal, an action property: an append leaves what every other slice shows as it was.
- **NodeSplitProofs**: while inodes are counted both sides of the cut can still get their keys
  (SplitKeepsKeys). `SizesInv` says that the running size of the loop is the sum of the inodes
  counted and below the threshold while there are enough keys: the nodes made fit a page or have the
  minimum of keys (SplitNodesFit), and no cut comes before the threshold (SplitCutsLate). `InodesInv`
  says that the nodes made so far and the one being split, one after the other, are the
  node that came in (SplitKeepsInodes).
- **NodePageProofs**: `PageInv` says of every inode written that its element leads to its key, that
  the keys written so far end before the place of the next, and that elements and keys written so far
  leave the rest of byte_size free. The last part is what makes it inductive: the position the
  next key goes to is the page's start plus all before it. Theorems PageKeepsKeys and
  PageStaysInPage, for all keys and values and whatever the memory held.
- **DbOpenProofs**: `LockInv` says that a process holds the lock from flock to the end, in the mode
  it asked for, and that two holders share it. WriterAlone follows, for any number of writers,
  under `OneReader` (at most one process opens read-only), without which it is false
  (`db_open_shared`). `FileInv` says what file and disk hold at each point of an init that was not
  cut short, and needs WriterAlone to be inductive. Theorems DbTypeCorrect, InitIsAlone,
  OpenIsClean, DiskNeverLoses; the last without `OneReader`, from `DiskInFile`.
- **FormatProofs**: meta pages, for bytes of at least eight bits, any polynomial with a constant
  term, and all metas whose fields fit their types. Bytes cut out of an integer and shifted back are
  that integer, in both orders (IntegersInvert). What is read is what was written, and validates
  (MetasAreReadBack), from `MetaInv`: a whole write leaves the bytes of the fields and their checksum,
  and each field is read from where it was put. `crc64_be` with its table of single bytes is the long
  division by the polynomial (ChecksumDivides): a step of the table is one of the division for each
  bit of a byte, because multiplying by x is linear. For the same reason a page with its checksum at
  the end divides without remainder, and a flipped one only if the flipped bits do; those of a
  burst within the width of the checksum leave one, as multiplying by x loses nothing. So a meta whose
  page was hit by one burst is refused (BurstsAreFound). When a write of a meta over another stops
  inside the checksum, the bytes of all fields are new, so the checksum that validates is the new one
  to its last byte. When it stops before, the checksum is the old one. If the mix differs from the old
  meta within the width of the checksum, that is a burst again; if it differs more, the
  checksums are assumed to differ too: `WideMixesTellApart`. Some assumption is needed, as 64 bits
  cannot tell all values of the fields apart; the run shows that the metas of the run meet this one,
  since a mix that did not would validate there. Theorem DamageIsRejected.
- **NodeTreeProofs**: no hypothesis beyond the module's assumption: empty pages and keys of one size are
  among what is proved about. `TreeInv` is types, TreeLinked, `PagesKnown` (branch elements and first keys
  are those of the pages they name), `LinksInside` (links lead to nodes that exist, the others are
  empty, and a page is freed only after it was read) and `Pending` (a child of a node whose spill runs has
  lost its page, or its own spill is to come or runs). TreeLinked needs them: a new node is its parent's
  only child for its page because a page is named by one branch element, and spill may clear a list of
  children because none of them still has a page. Theorem NodesAreLinked. `NodesAscend` says that sizes
  do not descend and that no key is its neighbour's; put keeps it, although it may store a key that is
  there already behind another of its size, because that other lies between. KeysAscend and
  SiblingsAdjacent follow, and lower_bound finds a key that is alone with its size. The refinement shows
  that the parts of a split cover the node, and that a key in two of them was not alone. Theorems
  NodeKeysAscend, SiblingsAreAdjacent, NodesImplementKeyMap.

**Sums, concatenations and checksums** are functions over lengths, not operators, so that proofs can
unfold them: `f[n]` in terms of `f[n - 1]`, from a solution given explicitly. The library's
induction theorems take a predicate as parameter, which the provers cannot instantiate; where an
induction is needed the proof takes the least number for which the statement fails (the natural
numbers are well-founded) and shows that it holds there.

**Only model-checked:** liveness, SplitEnds and HoldersFinish (it is outside the prover's reach,
with ENABLED and fairness), and what a theorem leaves to its assumption: RoundTrip from the special
count on is false (`freelist_page_wide`), WriterAlone and CleanOpen with two readers too
(`db_open_shared`).

## 5. Findings without a run

Disagreements met while reading the code, listed in `PROJECT.json`: the values of a leaf that
Node::write never copies (ValuesSurvive of NodePage states what it breaks), the FreeList constructor from
a vector, reindex, the size check as the only test of an initialised file, the offset and byte
order of the meta page in open_db (PageSizeFound of MetaPage states the promise it breaks),
`operator<` of slices (KeyOnce of NodeTree states the promise of put that it breaks), child_index among
separators of one size and for children of empty pages (ChildFound), the copy of a moved-from
counter, the loop of spill, the unlock in close(), the fill percent of a bucket, put's high water
mark, and the first key that nodes made by a split never get.

## 6. Not modelled

- Cursors: `first` returns nothing and `move_to_leaf` ends in the middle of an expression.
- `Bucket::page_node` uses names that are not declared and does not compile.
- Integer ranges (`util/irange.hpp`): an iterator without shared state, used by tests only.
- close() called twice: nothing in the library calls it but the destructor.
- The body of Txn, `DB::allocate`, remapping and the commit protocol are not written in the
  repository; FreeListTxns has them as its documentation describes them, marked external.
- Options, status, exceptions and timers are plain values; hexdump and other output; the scratch
  files of the root directory, which no target builds.

## 7. Plan

Done: free list (class, scan, page, transactions), opening, meta pages with integer encodings and
checksum, slices, node split, nodes on pages, the tree of nodes with puts, removals and spill.

Next, as the code grows:

1. Cursors and `page_node` over NodeTree, once they compile; rebalance after remove.
2. The commit, when Txn has one: NodeTree's spill with NodeSplit's cuts, FreeListTxns' pages and
   MetaPage's two meta pages in one module, with a crash between any two writes.
3. FileHandles: handles over a table of descriptors, with close, the destructor and reuse of
   numbers; DbOpen composed with it.
4. Proofs: every invariant and action property that a passing run checks is a theorem. What is left
   is a bound on the steps of Node::split, of which SplitEnds is the consequence, and the proofs for
   the modules above.
