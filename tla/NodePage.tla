------------------------------ MODULE NodePage ------------------------------
(***************************************************************************)
(* A node on a page: Node::write and Node::read (src/page/node.cpp         *)
(* 153-180, 187-251) with the page elements they fill and follow           *)
(* (src/page/page.cpp 54-70, 125-141).  The loops of write take one step   *)
(* per inode; read takes one step.                                         *)
(*                                                                         *)
(* Offsets count the bytes after the page header.  The elements lie at the *)
(* front, element k (from 0) at k * ElementSize; mem holds the rest.       *)
(***************************************************************************)
EXTENDS Integers, Sequences, SequencesExt

CONSTANTS Byte,          \* the values a byte has
          Keys, Values,  \* keys and values: sequences of bytes
          Flags, Pgids,
          MaxInodes,     \* bound on the inodes of a node
          SpecialCount,  \* kSpecialCount
          ElementSize,   \* sizeof(LeafPageElement) = sizeof(BranchPageElement)
          Stale,         \* what the page's memory may hold before the write
          PageBytes      \* the bytes the page's memory has

ASSUME NodePageAssumption ==
  /\ Keys \subseteq Seq(Byte) \ {<<>>} /\ Values \subseteq Seq(Byte) /\ Stale \subseteq Byte
  /\ MaxInodes \in Nat /\ SpecialCount \in Nat
  /\ ElementSize \in Nat \ {0}
  /\ PageBytes \in Nat

VARIABLES isLeaf,    \* is_leaf_ of the node that is written
          inodes,    \* its inodes_
          flag,      \* the page's flag: "invalid", "leaf" or "branch"
          count,     \* the page's count
          elements,  \* the page elements written so far
          mem,       \* the page's bytes
          base,      \* the local `base` of write
          read,      \* what a new node reads from the page: is_leaf_ and inodes_
          pc         \* "write", "items", "read", "done" or "refused"

nodePageVars == <<isLeaf, inodes, flag, count, elements, mem, base, read, pc>>

Inode(leaf) == [flags : IF leaf THEN Flags ELSE {0},
                pgid  : IF leaf THEN {0} ELSE Pgids,
                key   : Keys,
                value : IF leaf THEN Values ELSE {<<>>}]

\* byte_size() of the node, less the page header, as it adds up the inodes.
SizeUpTo[n \in 0 .. Len(inodes)] ==
  IF n = 0 THEN 0
  ELSE SizeUpTo[n - 1] + ElementSize + Len(inodes[n].key) + Len(inodes[n].value)
ByteSize == SizeUpTo[Len(inodes)]

\* The caller provides a page of at least byte_size bytes.
NodePageInit ==
  /\ isLeaf \in BOOLEAN
  /\ inodes \in BoundedSeq(Inode(isLeaf), MaxInodes)
  /\ Len(inodes) < SpecialCount => ByteSize <= PageBytes
  /\ flag = "invalid"
  /\ count = 0
  /\ elements = <<>>
  /\ \E b \in Stale : mem = [o \in 0 .. PageBytes - 1 |-> b]
  /\ base = 0
  /\ read = [leaf |-> FALSE, inodes |-> <<>>]
  /\ pc = "write"

\* Too many inodes for the count: write throws, and the page has its flag.
WriteOverflow ==
  /\ pc = "write"
  /\ Len(inodes) >= SpecialCount
  /\ flag' = IF isLeaf THEN "leaf" ELSE "branch"
  /\ pc' = "refused"
  /\ UNCHANGED <<isLeaf, inodes, count, elements, mem, base, read>>

\* Faulty variant of WriteHeader: the first key goes over the last element.
WriteHeaderShort ==
  /\ pc = "write"
  /\ Len(inodes) < SpecialCount
  /\ flag' = IF isLeaf THEN "leaf" ELSE "branch"
  /\ count' = Len(inodes)
  /\ base' = (Len(inodes) - 1) * ElementSize
  /\ pc' = IF inodes = <<>> THEN "read" ELSE "items"
  /\ UNCHANGED <<isLeaf, inodes, elements, mem, read>>

\* The page's flag and count, and base after the elements; without inodes that is
\* all.
WriteHeader ==
  /\ pc = "write"
  /\ Len(inodes) < SpecialCount
  /\ flag' = IF isLeaf THEN "leaf" ELSE "branch"
  /\ count' = Len(inodes)
  /\ base' = Len(inodes) * ElementSize
  /\ pc' = IF inodes = <<>> THEN "read" ELSE "items"
  /\ UNCHANGED <<isLeaf, inodes, elements, mem, read>>

\* The element that stands for the inode when its data begins at offset b: a leaf's
\* has no pgid, a branch's no flags and no value.
Element(inode, k, b) ==
  [pos |-> b - k * ElementSize, flags |-> inode.flags, pgid |-> inode.pgid,
   keySize |-> Len(inode.key), valueSize |-> Len(inode.value)]

\* mem with the bytes s copied to offset b.
Copied(s, b) ==
  [o \in DOMAIN mem |-> IF o - b + 1 \in DOMAIN s THEN s[o - b + 1] ELSE mem[o]]

\* Faulty variant of WriteItem: base stays where the first key went.
WriteItemInPlace ==
  /\ pc = "items"
  /\ LET inode == inodes[Len(elements) + 1]
     IN  /\ elements' = Append(elements, Element(inode, Len(elements), base))
         /\ mem' = Copied(inode.key, base)
  /\ pc' = IF Len(elements') = Len(inodes) THEN "read" ELSE "items"
  /\ UNCHANGED <<isLeaf, inodes, flag, count, base, read>>

\* The next element and its key.  Nothing copies the value, and base moves past the
\* key only.
WriteItem ==
  /\ pc = "items"
  /\ LET inode == inodes[Len(elements) + 1]
     IN  /\ elements' = Append(elements, Element(inode, Len(elements), base))
         /\ mem' = Copied(inode.key, base)
         /\ base' = base + Len(inode.key)
  /\ pc' = IF Len(elements') = Len(inodes) THEN "read" ELSE "items"
  /\ UNCHANGED <<isLeaf, inodes, flag, count, read>>

\* n bytes of the page from offset o: key() and value() of an element.
BytesAt(o, n) == [b \in 1 .. n |-> mem[o + b - 1]]

\* The inode that read makes of element k.
Loaded(k, leaf) ==
  LET e == elements[k + 1]
      key == k * ElementSize + e.pos
  IN  [flags |-> IF leaf THEN e.flags ELSE 0,
       pgid  |-> IF leaf THEN 0 ELSE e.pgid,
       key   |-> BytesAt(key, e.keySize),
       value |-> IF leaf THEN BytesAt(key + e.keySize, e.valueSize) ELSE <<>>]

\* A node that has no inodes yet reads the page.
Read ==
  /\ pc = "read"
  /\ LET leaf == flag = "leaf"
     IN  read' = [leaf |-> leaf, inodes |-> [k \in 1 .. count |-> Loaded(k - 1, leaf)]]
  /\ pc' = "done"
  /\ UNCHANGED <<isLeaf, inodes, flag, count, elements, mem, base>>

NodePageNext == WriteOverflow \/ WriteHeader \/ WriteItem \/ Read
NodePageSpec == NodePageInit /\ [][NodePageNext]_nodePageVars

-----------------------------------------------------------------------------
\* A page read back has the node's kind and, in order, the key, pgid and flags of
\* every inode, whatever bytes the page's memory held: each element leads over the
\* other elements and all earlier keys to its own key (node.hpp 101-105).
KeysSurvive ==
  pc = "done" =>
    /\ read.leaf = isLeaf
    /\ Len(read.inodes) = Len(inodes)
    /\ \A k \in DOMAIN inodes :
         /\ read.inodes[k].key = inodes[k].key
         /\ read.inodes[k].flags = inodes[k].flags
         /\ read.inodes[k].pgid = inodes[k].pgid

\* Keys go behind the last element, and neither they nor the values that the
\* elements announce reach beyond the size byte_size gives the caller to allocate
\* (node.cpp 15-17, node.hpp 61-62).
StaysInPage ==
  \A k \in 1 .. Len(elements) :
    LET e == elements[k]
        key == (k - 1) * ElementSize + e.pos
    IN  /\ key >= Len(inodes) * ElementSize
        /\ key + e.keySize + e.valueSize <= ByteSize

\* A leaf page read back has the values of the node as well (node.hpp 101-105).
ValuesSurvive ==
  pc = "done" => \A k \in DOMAIN inodes : read.inodes[k].value = inodes[k].value
=============================================================================
