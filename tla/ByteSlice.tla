------------------------------ MODULE ByteSlice ------------------------------
(***************************************************************************)
(* class ByteSlice (util/slice.hpp, slice.cpp) with its RefCount           *)
(* (util/ref_count.hpp, ref_count.cpp) and the MemoryPool its buffers come *)
(* from (alloc/memory_pool.hpp, memory_resource_tracker.hpp): slice        *)
(* objects are constructed, copied, moved, appended to and destroyed in    *)
(* any order, within one thread, as the class asks for.                    *)
(*                                                                         *)
(* A buffer is a block of the pool, a counter a cell of the heap; both are *)
(* reused once freed, like addresses.  head_, tail_ and cap_ are offsets   *)
(* from base_.                                                             *)
(***************************************************************************)
EXTENDS Naturals, Sequences, FiniteSets

CONSTANTS Slice,     \* slice objects
          Block,     \* addresses of buffers
          Cell,      \* addresses of counters
          Byte,      \* byte values
          Null,      \* the null pointer
          Stale,     \* what fresh memory holds
          MaxCap     \* bound on the capacity of a slice

ASSUME ByteSliceAssumption ==
  /\ IsFiniteSet(Slice)
  /\ Null \notin Block \cup Cell
  /\ Stale \notin Byte
  /\ MaxCap \in Nat

VARIABLES alive,    \* the objects that exist
          base,     \* base_
          head,     \* head_ - base_
          tail,     \* tail_ - base_
          cap,      \* cap_ - base_
          cell,     \* ref_count_.count_
          count,    \* count[c]: the int at c; 0 = not allocated
          size,     \* size[b]: the bytes the pool's tracker has for b; 0 = none
          mem,      \* mem[b]: the bytes of b
          fault     \* a null counter was dereferenced: the program has crashed

sliceVars == <<alive, base, head, tail, cap, cell, count, size, mem, fault>>

Offset == 0 .. MaxCap
Index == {i \in Offset : i < MaxCap}
Fresh == [i \in Index |-> Stale]

\* The bytes a slice shows: [head_, tail_).
Content(s) == [i \in 1 .. tail[s] - head[s] |-> mem[base[s]][head[s] + i - 1]]

\* k is what round_up_to_power_of_two returns for n > 0.
RoundsUp(n, k) == n <= k /\ k < 2 * n /\ \E e \in 0 .. n : k = 2 ^ e

\* A block that starts with the given bytes.
Holding(bytes) == [i \in Index |-> IF i < Len(bytes) THEN bytes[i + 1] ELSE Stale]

\* RefCount::unique()
Unique(s) == cell[s] # Null /\ count[cell[s]] = 1

\* try_deallocate() frees the block if this is its last observer.
FreesBlock(s) == base[s] # Null /\ Unique(s)
SizeWithout(s) == IF FreesBlock(s) THEN [size EXCEPT ![base[s]] = 0] ELSE size
MemWithout(s) == IF FreesBlock(s) THEN [mem EXCEPT ![base[s]] = Fresh] ELSE mem

\* Faulty variant of CountWithout: a counter that is shared keeps its value.
CountWithoutLast(s) ==
  IF Unique(s) THEN [count EXCEPT ![cell[s]] = 0] ELSE count

\* decrease_and_try_release()
CountWithout(s) ==
  IF cell[s] = Null THEN count ELSE [count EXCEPT ![cell[s]] = @ - 1]

\* s gets these members.
Becomes(s, b, h, t, k, c) ==
  /\ base' = [base EXCEPT ![s] = b]
  /\ head' = [head EXCEPT ![s] = h]
  /\ tail' = [tail EXCEPT ![s] = t]
  /\ cap' = [cap EXCEPT ![s] = k]
  /\ cell' = [cell EXCEPT ![s] = c]

-----------------------------------------------------------------------------
DefaultConstruct(s) ==
  /\ s \notin alive
  /\ alive' = alive \cup {s}
  /\ \E c \in Cell :
       /\ count[c] = 0
       /\ count' = [count EXCEPT ![c] = 1]
       /\ Becomes(s, Null, 0, 0, 0, c)
  /\ UNCHANGED <<size, mem, fault>>

\* ByteSlice(first, last): one byte more is allocated for a final \0.
Construct(s, bytes) ==
  /\ s \notin alive
  /\ alive' = alive \cup {s}
  /\ \E k \in Offset, b \in Block, c \in Cell :
       /\ RoundsUp(Len(bytes) + 1, k)
       /\ size[b] = 0 /\ count[c] = 0
       /\ size' = [size EXCEPT ![b] = k]
       /\ mem' = [mem EXCEPT ![b] = Holding(bytes)]
       /\ count' = [count EXCEPT ![c] = 1]
       /\ Becomes(s, b, 0, Len(bytes), k, c)
  /\ UNCHANGED fault

CopyConstruct(s, o) ==
  /\ s \notin alive /\ o \in alive
  /\ cell[o] # Null
  /\ alive' = alive \cup {s}
  /\ count' = [count EXCEPT ![cell[o]] = @ + 1]
  /\ Becomes(s, base[o], head[o], tail[o], cap[o], cell[o])
  /\ UNCHANGED <<size, mem, fault>>

\* Faulty variant of CopyAssign: the old block is forgotten, not deallocated.
CopyAssignLeaks(s, o) ==
  /\ {s, o} \subseteq alive /\ s # o
  /\ cell[o] # Null
  /\ count' = [CountWithout(s) EXCEPT ![cell[o]] = @ + 1]
  /\ Becomes(s, base[o], head[o], tail[o], cap[o], cell[o])
  /\ UNCHANGED <<alive, size, mem, fault>>

\* The order counts when both share a counter: it goes down, then up.
CopyAssign(s, o) ==
  /\ {s, o} \subseteq alive /\ s # o
  /\ cell[o] # Null
  /\ size' = SizeWithout(s)
  /\ mem' = MemWithout(s)
  /\ count' = [CountWithout(s) EXCEPT ![cell[o]] = @ + 1]
  /\ Becomes(s, base[o], head[o], tail[o], cap[o], cell[o])
  /\ UNCHANGED <<alive, fault>>

\* RefCount::copy_from writes through the null counter of a moved-from object.
CopyOfMovedFrom ==
  /\ \E o \in alive : cell[o] = Null
  /\ fault' = TRUE
  /\ UNCHANGED <<alive, base, head, tail, cap, cell, count, size, mem>>

\* move_from leaves o with null pointers and no counter.
Moves(s, o) ==
  /\ base' = [base EXCEPT ![s] = base[o], ![o] = Null]
  /\ head' = [head EXCEPT ![s] = head[o], ![o] = 0]
  /\ tail' = [tail EXCEPT ![s] = tail[o], ![o] = 0]
  /\ cap' = [cap EXCEPT ![s] = cap[o], ![o] = 0]
  /\ cell' = [cell EXCEPT ![s] = cell[o], ![o] = Null]

MoveConstruct(s, o) ==
  /\ s \notin alive /\ o \in alive
  /\ alive' = alive \cup {s}
  /\ Moves(s, o)
  /\ UNCHANGED <<count, size, mem, fault>>

\* There is no check for s = o: a self-move empties the slice.
MoveAssign(s, o) ==
  /\ {s, o} \subseteq alive
  /\ size' = SizeWithout(s)
  /\ mem' = MemWithout(s)
  /\ count' = CountWithout(s)
  /\ Moves(s, o)
  /\ UNCHANGED <<alive, fault>>

\* Faulty variant of Grow: the old counter is kept, as without ref_count_.reset().
GrowKeepsCounter(s, k, bytes) ==
  \E b \in Block :
    /\ size[b] = 0 /\ cell[s] # Null
    /\ size' = [SizeWithout(s) EXCEPT ![b] = k]
    /\ mem' = [MemWithout(s) EXCEPT ![b] = Holding(bytes)]
    /\ Becomes(s, b, 0, Len(bytes), k, cell[s])
    /\ UNCHANGED count

\* grow(k), after which s shows the given bytes: the new block is allocated
\* before the old one is let go, and the counter is replaced.
Grow(s, k, bytes) ==
  \E b \in Block, c \in Cell :
    /\ size[b] = 0
    /\ CountWithout(s)[c] = 0
    /\ size' = [SizeWithout(s) EXCEPT ![b] = k]
    /\ mem' = [MemWithout(s) EXCEPT ![b] = Holding(bytes)]
    /\ count' = [CountWithout(s) EXCEPT ![c] = 1]
    /\ Becomes(s, b, 0, Len(bytes), k, c)

\* append(v) when the buffer is full.
AppendGrows(s, v) ==
  LET k == IF cap[s] = 0 THEN 1 ELSE cap[s] * 2
  IN  /\ s \in alive
      /\ tail[s] = cap[s]
      /\ k <= MaxCap
      /\ Grow(s, k, Append(Content(s), v))
      /\ UNCHANGED <<alive, fault>>

\* Faulty variant of AppendInPlace: the removed prefix is not counted.
AppendInPlaceFromHead(s, v) ==
  /\ s \in alive
  /\ tail[s] < cap[s]
  /\ mem' = [mem EXCEPT ![base[s]][tail[s] - head[s]] = v]
  /\ tail' = [tail EXCEPT ![s] = @ + 1]
  /\ UNCHANGED <<alive, base, head, cap, cell, count, size, fault>>

\* append(v) writes to the buffer even if other slices share it.
AppendInPlace(s, v) ==
  /\ s \in alive
  /\ tail[s] < cap[s]
  /\ mem' = [mem EXCEPT ![base[s]][tail[s]] = v]
  /\ tail' = [tail EXCEPT ![s] = @ + 1]
  /\ UNCHANGED <<alive, base, head, cap, cell, count, size, fault>>

AppendByte(s, v) == AppendGrows(s, v) \/ AppendInPlace(s, v)

Reserve(s, k) ==
  /\ s \in alive
  /\ cap[s] < k
  /\ Grow(s, k, Content(s))
  /\ UNCHANGED <<alive, fault>>

\* Faulty variant of RemovePrefix: its assertion compiled out and not respected.
RemovePrefixUnchecked(s, n) ==
  /\ s \in alive
  /\ head' = [head EXCEPT ![s] = @ + n]
  /\ UNCHANGED <<alive, base, tail, cap, cell, count, size, mem, fault>>

\* remove_prefix(n), for the n its assertion allows.
RemovePrefix(s, n) ==
  /\ s \in alive
  /\ n <= tail[s] - head[s]
  /\ head' = [head EXCEPT ![s] = @ + n]
  /\ UNCHANGED <<alive, base, tail, cap, cell, count, size, mem, fault>>

\* operator[] of a slice that is not const, assigned to.
SetByte(s, i, v) ==
  /\ s \in alive
  /\ i < tail[s] - head[s]
  /\ mem' = [mem EXCEPT ![base[s]][head[s] + i] = v]
  /\ UNCHANGED <<alive, base, head, tail, cap, cell, count, size, fault>>

Destroy(s) ==
  /\ s \in alive
  /\ alive' = alive \ {s}
  /\ size' = SizeWithout(s)
  /\ mem' = MemWithout(s)
  /\ count' = CountWithout(s)
  /\ Becomes(s, Null, 0, 0, 0, Null)
  /\ UNCHANGED fault

-----------------------------------------------------------------------------
SliceInit ==
  /\ alive = {}
  /\ base = [s \in Slice |-> Null]
  /\ head = [s \in Slice |-> 0]
  /\ tail = [s \in Slice |-> 0]
  /\ cap = [s \in Slice |-> 0]
  /\ cell = [s \in Slice |-> Null]
  /\ count = [c \in Cell |-> 0]
  /\ size = [b \in Block |-> 0]
  /\ mem = [b \in Block |-> Fresh]
  /\ fault = FALSE

\* The contents a slice is constructed with.
Contents == UNION {[1 .. n -> Byte] : n \in Offset}

SliceNext ==
  /\ ~fault
  /\ \/ \E s \in Slice : DefaultConstruct(s) \/ Destroy(s)
     \/ \E s \in Slice, bytes \in Contents : Construct(s, bytes)
     \/ \E s, o \in Slice : CopyConstruct(s, o) \/ CopyAssign(s, o)
     \/ \E s, o \in Slice : MoveConstruct(s, o) \/ MoveAssign(s, o)
     \/ CopyOfMovedFrom
     \/ \E s \in Slice, v \in Byte : AppendGrows(s, v) \/ AppendInPlace(s, v)
     \/ \E s \in Slice, k \in Offset : Reserve(s, k)
     \/ \E s \in Slice, n \in Offset \ {0} : RemovePrefix(s, n)
     \/ \E s \in Slice, i \in Index, v \in Byte : SetByte(s, i, v)

SliceSpec == SliceInit /\ [][SliceNext]_sliceVars

-----------------------------------------------------------------------------
SliceTypeOK ==
  /\ alive \in SUBSET Slice
  /\ base \in [Slice -> Block \cup {Null}]
  /\ head \in [Slice -> Offset]
  /\ tail \in [Slice -> Offset]
  /\ cap \in [Slice -> Offset]
  /\ cell \in [Slice -> Cell \cup {Null}]
  /\ count \in [Cell -> Nat]
  /\ size \in [Block -> Offset]
  /\ mem \in [Block -> [Index -> Byte \cup {Stale}]]
  /\ fault \in BOOLEAN

Refs(c) == {s \in alive : cell[s] = c}

\* A counter is the number of slices that point to it, so it is deleted with the
\* last of them and ref_count() tells the truth (slice_test.cpp 49-84), through
\* copies, moves, self-moves, assignments between aliases and growth.
CountsReferences == \A c \in Cell : count[c] = Cardinality(Refs(c))

\* The pool holds exactly the buffers of live slices, each with the size it was
\* allocated with: no buffer leaks, none is used or freed after it was freed,
\* and deallocate never throws on a mismatch (memory_pool.hpp 44-47).
BuffersOwned ==
  /\ \A s \in alive : base[s] # Null => size[base[s]] = cap[s] /\ cap[s] > 0
  /\ \A b \in Block : size[b] > 0 => \E s \in alive : base[s] = b

\* Slices share a buffer exactly if they share its counter; unique() therefore
\* means that nobody else sees the buffer try_deallocate frees.
SharedTogether ==
  \A s, o \in alive :
    /\ base[s] = base[o] /\ base[s] # Null => cell[s] = cell[o] /\ cell[s] # Null
    /\ cell[s] = cell[o] /\ cell[s] # Null => base[s] = base[o]

\* No slice shows memory that was never written: growth keeps the bytes between
\* head_ and tail_ and drops the removed prefix (slice.cpp 139-154).
NothingStale ==
  \A s \in alive : \A i \in 1 .. tail[s] - head[s] : Content(s)[i] \in Byte

\* append adds one byte at the end of its slice, and another slice sees a change
\* only if it shares the buffer and reaches further (slice.cpp 54-63): those
\* aliases lose a byte, every other slice keeps its content.
AppendIsLocal ==
  [][\A s \in Slice, v \in Byte :
       AppendByte(s, v) =>
         /\ Content(s)' = Append(Content(s), v)
         /\ \A o \in alive \ {s} :
              base[o] # base[s] \/ tail[o] <= tail[s] => Content(o)' = Content(o)]_sliceVars
=============================================================================
