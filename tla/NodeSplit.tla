------------------------------ MODULE NodeSplit ------------------------------
(***************************************************************************)
(* Node::split with split_two, split_index and is_size_less_than           *)
(* (src/page/node.cpp 29-40, 259-345): a node too large for a page is cut  *)
(* from the left, piece by piece.  The loop of split_index takes one step  *)
(* per inode.                                                              *)
(*                                                                         *)
(* An inode is its position in the node that is split; Size gives the      *)
(* bytes of its page element, key and value.                               *)
(***************************************************************************)
EXTENDS Integers, Sequences, SequencesExt

CONSTANTS MaxInodes,    \* bound on the inodes of the node
          Sizes,        \* sizes of an inode on the page
          HeaderSize,   \* kPageHeaderSize
          PageSize,
          Thresholds    \* values static_cast<int>(page_size * fill_percent) takes

kMinKeysPerPage == 2

ASSUME NodeSplitAssumption ==
  /\ MaxInodes \in Nat
  /\ Sizes \subseteq Nat
  /\ HeaderSize \in Nat
  /\ PageSize \in Nat
  /\ Thresholds \subseteq Int

VARIABLES inodes,      \* the inodes_ of the node at the call
          size,        \* size[e]: the bytes inode e takes
          threshold,   \* fixed by the fill percent of the bucket
          hasParent,   \* parent_ is not null
          children,    \* the nodes this split added to parent_->children_
          nodes,       \* the nodes split returns: their inodes_
          node,        \* inodes_ of split_node
          i, sz,       \* the locals of split_index
          splits,      \* TxnStats::split
          pc           \* "two", "index" or "done"

splitVars == <<inodes, size, threshold, hasParent, children, nodes, node, i, sz,
               splits, pc>>

\* HeaderSize plus the sizes of the inodes s[1 .. n].
SizeUpTo(s, n) ==
  LET upTo[m \in 0 .. n] ==
        IF m = 0 THEN HeaderSize ELSE upTo[m - 1] + size[s[m]]
  IN  upTo[n]
ByteSize(s) == SizeUpTo(s, Len(s))

\* is_size_less_than(v) stops at the first inode that reaches v.
IsSizeLessThan(s, v) == \A n \in 1 .. Len(s) : SizeUpTo(s, n) < v

SplitInit ==
  /\ \E n \in 0 .. MaxInodes : inodes = [k \in 1 .. n |-> k]
  /\ size \in [DOMAIN inodes -> Sizes]
  /\ threshold \in Thresholds
  /\ hasParent \in BOOLEAN
  /\ children = <<>>
  /\ nodes = <<>>
  /\ node = inodes
  /\ i = 0
  /\ sz = 0
  /\ splits = 0
  /\ pc = "two"

\* split_two returns no right node, and the loop of split ends.
Keep ==
  /\ pc = "two"
  /\ Len(node) <= 2 * kMinKeysPerPage \/ IsSizeLessThan(node, PageSize)
  /\ nodes' = Append(nodes, node)
  /\ pc' = "done"
  /\ UNCHANGED <<inodes, size, threshold, hasParent, children, node, i, sz, splits>>

BeginIndex ==
  /\ pc = "two"
  /\ Len(node) > 2 * kMinKeysPerPage
  /\ ~IsSizeLessThan(node, PageSize)
  /\ i' = 0
  /\ sz' = HeaderSize
  /\ pc' = "index"
  /\ UNCHANGED <<inodes, size, threshold, hasParent, children, nodes, node, splits>>

\* Faulty variant of OverThreshold: a page filled to the threshold is over it.
AtThreshold == i >= kMinKeysPerPage /\ sz + size[node[i + 1]] >= threshold

\* Faulty variant of OverThreshold: the cut is not kept behind the minimum of keys, and
\* comes before a first inode that is over the threshold alone.
OverThresholdAtOnce == sz + size[node[i + 1]] > threshold

\* Enough keys, and one more inode would put the page over the threshold.
OverThreshold ==
  /\ i >= kMinKeysPerPage
  /\ sz + size[node[i + 1]] > threshold

\* Faulty variant of AtLastKeys: the second page may be left with one key.
AtLastKey == i >= Len(node) - 1

\* Only the minimum number of keys is left for the second page.
AtLastKeys == i >= Len(node) - kMinKeysPerPage

\* Faulty variant of CountInode: the size of the inode is not added.
CountInodeNoSize ==
  /\ pc = "index"
  /\ ~AtLastKeys
  /\ ~OverThreshold
  /\ i' = i + 1
  /\ UNCHANGED <<inodes, size, threshold, hasParent, children, nodes, node, sz, splits,
                 pc>>

CountInode ==
  /\ pc = "index"
  /\ ~AtLastKeys
  /\ ~OverThreshold
  /\ sz' = sz + size[node[i + 1]]
  /\ i' = i + 1
  /\ UNCHANGED <<inodes, size, threshold, hasParent, children, nodes, node, splits, pc>>

\* Faulty variant of Cut: the first inode of the right node stays behind as well.
CutOneTooMany ==
  /\ pc = "index"
  /\ AtLastKeys \/ OverThreshold
  /\ nodes' = Append(nodes, SubSeq(node, 1, i + 1))
  /\ node' = SubSeq(node, i + 1, Len(node))
  /\ children' = children \o (IF hasParent THEN <<i>> ELSE <<1, i>>)
  /\ hasParent' = TRUE
  /\ splits' = splits + 1
  /\ pc' = "two"
  /\ UNCHANGED <<inodes, size, threshold, i, sz>>

\* The node is cut at i: a parent is made if there is none, with this node as its
\* first child, and the right node becomes its last; children_ gets nodes,
\* numbered here as split returns them.  A cut takes inodes away, so there are fewer
\* than MaxInodes of them; the bound keeps a loop finite whose cuts take none.
Cut ==
  LET this == Len(nodes) + 1
  IN  /\ pc = "index"
      /\ AtLastKeys \/ OverThreshold
      /\ splits < MaxInodes
      /\ nodes' = Append(nodes, SubSeq(node, 1, i))
      /\ node' = SubSeq(node, i + 1, Len(node))
      /\ children' = children \o (IF hasParent THEN <<this + 1>> ELSE <<this, this + 1>>)
      /\ hasParent' = TRUE
      /\ splits' = splits + 1
      /\ pc' = "two"
      /\ UNCHANGED <<inodes, size, threshold, i, sz>>

SplitNext == Keep \/ BeginIndex \/ CountInode \/ Cut

\* A sequential function that is running keeps running.
SplitSpec == SplitInit /\ [][SplitNext]_splitVars /\ WF_splitVars(SplitNext)

-----------------------------------------------------------------------------
\* The node still to be split, if there is one.
Rest == IF pc = "done" THEN <<>> ELSE node

\* The returned nodes, read in order, hold the inodes of the node in order: none
\* is lost, doubled or moved across a cut (node.cpp 310-316).
InodesKept == FlattenSeq(nodes) \o Rest = inodes

\* A node that was cut off, and the rest it was cut from, have the minimum number
\* of keys of a page (page.hpp kMinKeysPerPage).
EnoughKeys ==
  Len(nodes) > 0 =>
    /\ \A k \in 1 .. Len(nodes) : splits > 0 => Len(nodes[k]) >= kMinKeysPerPage
    /\ pc # "done" => Len(node) >= kMinKeysPerPage

\* Every node but the last fits the threshold, or has the minimum number of keys
\* and cannot be smaller; and the last fits a page or is too short to split.
NodesFit ==
  /\ \A k \in 1 .. Len(nodes) :
       k <= splits => \/ ByteSize(nodes[k]) <= threshold
                      \/ Len(nodes[k]) = kMinKeysPerPage
  /\ pc = "done" => \/ ByteSize(nodes[Len(nodes)]) < PageSize
                    \/ Len(nodes[Len(nodes)]) <= 2 * kMinKeysPerPage

\* No node is cut too early: its right neighbour's first inode would have put it
\* over the threshold, or the neighbour had only its minimum of keys left.
CutsAreLate ==
  \A k \in 1 .. Len(nodes) :
    LET right == IF k < Len(nodes) THEN nodes[k + 1] ELSE node
    IN  k <= splits =>
          \/ ByteSize(nodes[k]) + size[right[1]] > threshold
          \/ k = splits /\ Len(right) = kMinKeysPerPage

\* The loop of split ends, whatever an inode's size and the threshold: a cut never
\* comes before the first inode, so each leaves less to split (node.cpp 264-271, 335).
SplitEnds == <>(pc = "done")
=============================================================================
