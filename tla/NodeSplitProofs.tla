--------------------------- MODULE NodeSplitProofs ---------------------------
(***************************************************************************)
(* Node::split, for every node, page size and threshold, whatever the      *)
(* inodes' sizes: no cut leaves a node with fewer keys than a page needs,  *)
(* the pieces fit their pages, none is cut too early, and read in order    *)
(* they hold the inodes of the node.                                       *)
(***************************************************************************)
EXTENDS NodeSplit, SequenceTheorems, WellFoundedInduction, TLAPS

SplitShape ==
  /\ node \in Seq(Nat)
  /\ nodes \in Seq(Seq(Nat))
  /\ i \in Nat
  /\ splits \in Nat
  /\ pc \in {"two", "index", "done"}

\* While inodes are counted, both sides of a cut can still get their keys.
RoomToCut ==
  pc = "index" => /\ Len(node) > 2 * kMinKeysPerPage
                  /\ i <= Len(node) - kMinKeysPerPage

\* Before the last node is returned there is one node for every cut.
OneNodePerCut == pc # "done" => Len(nodes) = splits

KeysSoFar ==
  splits > 0 => /\ \A k \in 1 .. Len(nodes) : Len(nodes[k]) >= kMinKeysPerPage
                /\ pc # "done" => Len(node) >= kMinKeysPerPage

SplitInv == SplitShape /\ RoomToCut /\ OneNodePerCut /\ KeysSoFar

LEMMA SplitStart == SplitInit => SplitInv
<1> SUFFICES ASSUME SplitInit
             PROVE  SplitInv
  OBVIOUS
<1>1. PICK n \in 0 .. MaxInodes : inodes = [k \in 1 .. n |-> k]
  BY DEF SplitInit
<1>2. n \in Nat
  BY NodeSplitAssumption
<1>3. inodes \in Seq(Nat)
  BY <1>1, <1>2
<1> QED
  BY <1>3 DEF SplitInit, SplitInv, SplitShape, RoomToCut, OneNodePerCut, KeysSoFar

LEMMA KeepStep == SplitInv /\ Keep => SplitInv'
<1> SUFFICES ASSUME SplitInv, Keep
             PROVE  SplitInv'
  OBVIOUS
<1>1. /\ nodes' = Append(nodes, node) /\ pc = "two" /\ pc' = "done"
      /\ UNCHANGED <<node, i, splits>>
  BY DEF Keep
<1>2. SplitShape' /\ RoomToCut' /\ OneNodePerCut'
  BY <1>1 DEF SplitInv, SplitShape, RoomToCut, OneNodePerCut
<1>3. ASSUME splits > 0, NEW k \in 1 .. Len(nodes')
      PROVE  Len(nodes'[k]) >= kMinKeysPerPage
  <2>1. CASE k \in 1 .. Len(nodes)
    <3>1. nodes'[k] = nodes[k]
      BY <1>1, <2>1 DEF SplitInv, SplitShape
    <3> QED
      BY <1>3, <2>1, <3>1 DEF SplitInv, KeysSoFar
  <2>2. CASE k = Len(nodes) + 1
    <3>1. nodes'[k] = node
      BY <1>1, <2>2 DEF SplitInv, SplitShape
    <3> QED
      BY <1>1, <1>3, <3>1 DEF SplitInv, KeysSoFar
  <2>3. Len(nodes') = Len(nodes) + 1 /\ Len(nodes) \in Nat
    BY <1>1 DEF SplitInv, SplitShape
  <2> QED
    BY <1>3, <2>1, <2>2, <2>3
<1>4. KeysSoFar'
  BY <1>1, <1>3 DEF KeysSoFar
<1> QED
  BY <1>2, <1>4 DEF SplitInv

LEMMA CutStep == SplitInv /\ Cut => SplitInv'
<1> SUFFICES ASSUME SplitInv, Cut
             PROVE  SplitInv'
  OBVIOUS
<1>1. /\ pc = "index" /\ pc' = "two"
      /\ AtLastKeys \/ OverThreshold
      /\ nodes' = Append(nodes, SubSeq(node, 1, i))
      /\ node' = SubSeq(node, i + 1, Len(node))
      /\ splits' = splits + 1
      /\ i' = i
  BY DEF Cut
<1>2. /\ i \in Nat /\ Len(node) \in Nat /\ Len(node) > 4 /\ i <= Len(node) - 2
      /\ Len(nodes) \in Nat /\ Len(nodes) = splits /\ splits \in Nat
  BY SMTT(40), <1>1 DEF SplitInv, SplitShape, RoomToCut, OneNodePerCut, kMinKeysPerPage
<1>3. i >= 2
  BY <1>1, <1>2 DEF AtLastKeys, OverThreshold, kMinKeysPerPage
<1>4. /\ SubSeq(node, 1, i) \in Seq(Nat) /\ Len(SubSeq(node, 1, i)) = i
      /\ node' \in Seq(Nat) /\ Len(node') = Len(node) - i
  <2>1. node \in Seq(Nat) /\ 1 \in 1 .. Len(node) + 1 /\ i \in 1 - 1 .. Len(node)
    BY <1>2 DEF SplitInv, SplitShape
  <2>2. i + 1 \in 1 .. Len(node) + 1 /\ Len(node) \in (i + 1) - 1 .. Len(node)
    BY <1>2
  <2>3. SubSeq(node, 1, i) \in Seq(Nat) /\ Len(SubSeq(node, 1, i)) = i
    BY SMTT(40), <1>2, <2>1, SubSeqProperties
  <2>4. SubSeq(node, i + 1, Len(node)) \in Seq(Nat)
    BY <2>1, <2>2, SubSeqProperties
  <2>5. Len(SubSeq(node, i + 1, Len(node))) = Len(node) - i
    BY <1>2, <2>1, <2>2, SubSeqProperties
  <2> QED
    BY <1>1, <2>3, <2>4, <2>5
<1>5. SplitShape' /\ RoomToCut' /\ OneNodePerCut'
  BY SMTT(40), <1>1, <1>2, <1>4 DEF SplitInv, SplitShape, RoomToCut, OneNodePerCut
<1>6. ASSUME NEW k \in 1 .. Len(nodes')
      PROVE  Len(nodes'[k]) >= kMinKeysPerPage
  <2>1. CASE k \in 1 .. Len(nodes)
    <3>1. nodes'[k] = nodes[k]
      BY <1>1, <1>4, <2>1 DEF SplitInv, SplitShape
    <3>2. splits > 0
      BY <1>2, <2>1
    <3> QED
      BY <2>1, <3>1, <3>2 DEF SplitInv, KeysSoFar
  <2>2. CASE k = Len(nodes) + 1
    <3>1. nodes'[k] = SubSeq(node, 1, i)
      BY SMTT(40), <1>1, <1>4, <2>2 DEF SplitInv, SplitShape
    <3> QED
      BY <1>3, <1>4, <3>1 DEF kMinKeysPerPage
  <2>3. Len(nodes') = Len(nodes) + 1
    BY <1>1, <1>4 DEF SplitInv, SplitShape
  <2> QED
    BY <1>2, <2>1, <2>2, <2>3
<1>7. KeysSoFar'
  BY <1>2, <1>4, <1>6 DEF KeysSoFar, kMinKeysPerPage
<1> QED
  BY <1>5, <1>7 DEF SplitInv

LEMMA SplitStep == SplitInv /\ [SplitNext]_splitVars => SplitInv'
<1> SUFFICES ASSUME SplitInv, [SplitNext]_splitVars
             PROVE  SplitInv'
  OBVIOUS
<1>1. CASE Keep
  BY <1>1, KeepStep
<1>2. CASE BeginIndex
  <2>1. /\ pc = "two" /\ pc' = "index" /\ i' = 0 /\ Len(node) > 2 * kMinKeysPerPage
        /\ UNCHANGED <<node, nodes, splits>>
    BY <1>2 DEF BeginIndex
  <2>2. Len(node) \in Nat
    BY DEF SplitInv, SplitShape
  <2> QED
    BY <2>1, <2>2 DEF SplitInv, SplitShape, RoomToCut, OneNodePerCut, KeysSoFar,
                      kMinKeysPerPage
<1>3. CASE CountInode
  <2>1. /\ pc = "index" /\ i' = i + 1 /\ ~AtLastKeys
        /\ UNCHANGED <<node, nodes, splits, pc>>
    BY <1>3 DEF CountInode
  <2>2. Len(node) \in Nat /\ i \in Nat
    BY DEF SplitInv, SplitShape
  <2>3. i + 1 <= Len(node) - kMinKeysPerPage
    BY <2>1, <2>2 DEF AtLastKeys, kMinKeysPerPage
  <2> QED
    BY <2>1, <2>2, <2>3 DEF SplitInv, SplitShape, RoomToCut, OneNodePerCut, KeysSoFar
<1>4. CASE Cut
  BY <1>4, CutStep
<1>5. CASE UNCHANGED splitVars
  BY <1>5 DEF SplitInv, SplitShape, RoomToCut, OneNodePerCut, KeysSoFar, splitVars
<1> QED
  BY <1>1, <1>2, <1>3, <1>4, <1>5 DEF SplitNext

\* Every node a split makes has the minimum number of keys, and so has what is
\* left to split (EnoughKeys).
THEOREM SplitKeepsKeys == SplitSpec => []EnoughKeys
<1>1. SplitInv => EnoughKeys
  <2> SUFFICES ASSUME SplitInv, Len(nodes) > 0
               PROVE  /\ \A k \in 1 .. Len(nodes) :
                           splits > 0 => Len(nodes[k]) >= kMinKeysPerPage
                      /\ pc # "done" => Len(node) >= kMinKeysPerPage
    BY DEF EnoughKeys
  <2> QED
    BY DEF SplitInv, OneNodePerCut, KeysSoFar
<1> QED
  BY <1>1, SplitStart, SplitStep, PTL DEF SplitSpec

-----------------------------------------------------------------------------
(* The recursive functions of the model.  The library's theorem on recursive  *)
(* definitions takes the definition as an operator; these lemmas unfold the   *)
(* two functions at hand, by the least place where they would not be defined. *)

LEMMA LeastNat ==
  ASSUME NEW T, T \subseteq Nat, T # {}
  PROVE  \E m \in T : \A j \in T : ~(j < m)
<1>1. PICK m \in T : \A j \in T : ~(<<j, m>> \in OpToRel(<, Nat))
  BY NatLessThanWellFounded, WFMin, Zenon
<1> QED
  BY <1>1 DEF OpToRel

\* SizeUpTo, with the sizes as a parameter.
Summed(w, s, n) ==
  LET upTo[m \in 0 .. n] ==
        IF m = 0 THEN HeaderSize ELSE upTo[m - 1] + w[s[m]]
  IN  upTo[n]

IsSum(f, w, s, n) ==
  f = [m \in 0 .. n |-> IF m = 0 THEN HeaderSize ELSE f[m - 1] + w[s[m]]]

LEMMA SizeIsSummed ==
  /\ \A s, n : SizeUpTo(s, n) = Summed(size, s, n)
  /\ \A s, n : SizeUpTo(s, n)' = Summed(size', s, n)
BY DEF SizeUpTo, Summed

LEMMA SumExists ==
  ASSUME NEW w, NEW s, NEW n \in Nat
  PROVE  \E f : IsSum(f, w, s, n)
<1> DEFINE T == {m \in Nat : ~ \E f : IsSum(f, w, s, m)}
<1>1. CASE T = {}
  BY <1>1
<1>2. CASE T # {}
  <2> T \subseteq Nat
    OBVIOUS
  <2> HIDE DEF T
  <2>1. PICK m \in T : \A j \in T : ~(j < m)
    BY <1>2, LeastNat
  <2>2. m \in Nat /\ ~ \E f : IsSum(f, w, s, m)
    BY <2>1 DEF T
  <2>3. CASE m = 0
    <3>1. IsSum([k \in 0 .. 0 |-> HeaderSize], w, s, 0)
      BY DEF IsSum
    <3> QED
      BY <2>2, <2>3, <3>1
  <2>4. CASE m # 0
    <3>1. m - 1 \in Nat /\ m - 1 \notin T
      BY <2>1, <2>2, <2>4
    <3>2. PICK f : IsSum(f, w, s, m - 1)
      BY <3>1 DEF T
    <3> DEFINE g == [k \in 0 .. m |-> IF k = m THEN f[m - 1] + w[s[m]] ELSE f[k]]
    <3>3. IsSum(g, w, s, m)
      <4>1. ASSUME NEW k \in 0 .. m
            PROVE  g[k] = IF k = 0 THEN HeaderSize ELSE g[k - 1] + w[s[k]]
        <5>1. CASE k = m
          <6>1. m - 1 \in 0 .. m /\ m - 1 # m
            BY <2>2, <2>4
          <6>2. g[m - 1] = f[m - 1]
            BY <6>1
          <6> QED
            BY <2>4, <5>1, <6>2
        <5>2. CASE k # m
          <6>1. k \in 0 .. m - 1 /\ (k # 0 => k - 1 \in 0 .. m /\ k - 1 # m)
            BY <2>2, <4>1, <5>2
          <6>2. f[k] = IF k = 0 THEN HeaderSize ELSE f[k - 1] + w[s[k]]
            BY <3>2, <6>1 DEF IsSum
          <6> QED
            BY <5>2, <6>1, <6>2
        <5> QED
          BY <5>1, <5>2
      <4> QED
        BY <4>1 DEF IsSum
    <3> QED
      BY <2>2, <3>3
  <2> QED
    BY <2>3, <2>4
<1> QED
  BY <1>1, <1>2

\* Two sums of the same sizes agree as far as both go.
LEMMA SumsAgree ==
  ASSUME NEW w, NEW s, NEW n \in Nat, NEW k \in Nat, NEW f, NEW g,
         IsSum(f, w, s, n), IsSum(g, w, s, k),
         NEW j \in Nat, j <= n, j <= k
  PROVE  f[j] = g[j]
<1> DEFINE T == {m \in Nat : m <= n /\ m <= k /\ f[m] # g[m]}
<1>1. CASE T = {}
  BY <1>1
<1>2. CASE T # {}
  <2> T \subseteq Nat
    OBVIOUS
  <2> HIDE DEF T
  <2>1. PICK m \in T : \A i0 \in T : ~(i0 < m)
    BY <1>2, LeastNat
  <2>2. m \in 0 .. n /\ m \in 0 .. k /\ f[m] # g[m]
    BY <2>1 DEF T
  <2>3. f[m] = IF m = 0 THEN HeaderSize ELSE f[m - 1] + w[s[m]]
    BY <2>2 DEF IsSum
  <2>4. g[m] = IF m = 0 THEN HeaderSize ELSE g[m - 1] + w[s[m]]
    BY <2>2 DEF IsSum
  <2>5. m # 0
    BY <2>2, <2>3, <2>4
  <2>6. m - 1 \in Nat /\ m - 1 <= n /\ m - 1 <= k /\ m - 1 < m
    BY <2>2, <2>5
  <2>7. f[m - 1] = g[m - 1]
    BY <2>1, <2>6 DEF T
  <2> QED
    BY <2>2, <2>3, <2>4, <2>5, <2>7
<1> QED
  BY <1>1, <1>2

LEMMA SummedIs ==
  ASSUME NEW w, NEW s, NEW n \in Nat
  PROVE  \E f : IsSum(f, w, s, n) /\ Summed(w, s, n) = f[n]
<1> DEFINE u == CHOOSE f : f = [m \in 0 .. n |-> IF m = 0 THEN HeaderSize
                                                ELSE f[m - 1] + w[s[m]]]
<1>1. \E f : f = [m \in 0 .. n |-> IF m = 0 THEN HeaderSize ELSE f[m - 1] + w[s[m]]]
  <2>1. PICK f : IsSum(f, w, s, n)
    BY SumExists
  <2> QED
    BY <2>1 DEF IsSum
<1>2. u = [m \in 0 .. n |-> IF m = 0 THEN HeaderSize ELSE u[m - 1] + w[s[m]]]
  BY <1>1
<1>3. Summed(w, s, n) = u[n]
  BY DEF Summed
<1> HIDE DEF u
<1> QED
  BY <1>2, <1>3 DEF IsSum

\* The sum grows inode by inode.
LEMMA SummedStep ==
  ASSUME NEW w, NEW s
  PROVE  /\ Summed(w, s, 0) = HeaderSize
         /\ \A n \in Nat : Summed(w, s, n + 1) = Summed(w, s, n) + w[s[n + 1]]
<1>1. Summed(w, s, 0) = HeaderSize
  <2>1. PICK f : IsSum(f, w, s, 0) /\ Summed(w, s, 0) = f[0]
    BY SummedIs
  <2> QED
    BY <2>1 DEF IsSum
<1>2. ASSUME NEW n \in Nat
      PROVE  Summed(w, s, n + 1) = Summed(w, s, n) + w[s[n + 1]]
  <2>1. PICK f : IsSum(f, w, s, n + 1) /\ Summed(w, s, n + 1) = f[n + 1]
    BY SummedIs
  <2>2. PICK g : IsSum(g, w, s, n) /\ Summed(w, s, n) = g[n]
    BY SummedIs
  <2>3. f[n] = g[n]
    BY <2>1, <2>2, SumsAgree
  <2>4. n + 1 \in 0 .. n + 1 /\ n + 1 # 0 /\ n + 1 - 1 = n
    OBVIOUS
  <2>5. f[n + 1] = f[n] + w[s[n + 1]]
    BY <2>1, <2>4 DEF IsSum
  <2> QED
    BY <2>1, <2>2, <2>3, <2>5
<1> QED
  BY <1>1, <1>2

\* It depends on the inodes it counts, not on what follows them.
LEMMA SummedPrefix ==
  ASSUME NEW w, NEW s, NEW t, NEW n \in Nat, \A k \in 1 .. n : s[k] = t[k]
  PROVE  Summed(w, s, n) = Summed(w, t, n)
<1>1. PICK f : IsSum(f, w, s, n) /\ Summed(w, s, n) = f[n]
  BY SummedIs
<1>2. PICK g : IsSum(g, w, t, n) /\ Summed(w, t, n) = g[n]
  BY SummedIs
<1>3. \A m \in 0 .. n : m # 0 => s[m] = t[m]
  OBVIOUS
<1>4. IsSum(f, w, t, n)
  BY <1>1, <1>3 DEF IsSum
<1> QED
  BY <1>1, <1>2, <1>4, SumsAgree

LEMMA SummedNat ==
  ASSUME NEW w, NEW s, NEW n \in Nat, \A k \in 1 .. n : w[s[k]] \in Nat
  PROVE  Summed(w, s, n) \in Nat
<1> DEFINE T == {m \in Nat : m <= n /\ Summed(w, s, m) \notin Nat}
<1>1. CASE T = {}
  BY <1>1
<1>2. CASE T # {}
  <2> T \subseteq Nat
    OBVIOUS
  <2> HIDE DEF T
  <2>1. PICK m \in T : \A j \in T : ~(j < m)
    BY <1>2, LeastNat
  <2>2. m \in Nat /\ m <= n /\ Summed(w, s, m) \notin Nat
    BY <2>1 DEF T
  <2>3. m # 0
    BY <2>2, SummedStep, NodeSplitAssumption
  <2>4. m - 1 \in Nat /\ m - 1 <= n /\ m - 1 < m /\ m - 1 + 1 = m /\ m \in 1 .. n
    BY <2>2, <2>3
  <2>5. Summed(w, s, m - 1) \in Nat
    BY <2>1, <2>4 DEF T
  <2>6. Summed(w, s, m) = Summed(w, s, m - 1) + w[s[m]]
    BY <2>4, SummedStep
  <2> QED
    BY <2>2, <2>4, <2>5, <2>6
<1> QED
  BY <1>1, <1>2

-----------------------------------------------------------------------------
(* The sizes of the pieces.                                                *)

SizeShape ==
  /\ inodes \in Seq(Nat)
  /\ node \in Seq(DOMAIN inodes)
  /\ size \in [DOMAIN inodes -> Nat]
  /\ sz \in Nat
  /\ threshold \in Int

\* split_index has counted i inodes, and none that it counted beyond the minimum
\* put the page over the threshold.
Counted ==
  pc = "index" => /\ sz = SizeUpTo(node, i)
                  /\ i > kMinKeysPerPage => sz <= threshold

\* The node on the right of the k-th.
RightOf(k) == IF k < Len(nodes) THEN nodes[k + 1] ELSE node

SizesInv ==
  /\ SplitInv
  /\ SizeShape
  /\ Counted
  /\ NodesFit
  /\ CutsAreLate
  /\ pc = "done" => Len(nodes) = splits + 1

LEMMA SizesStart == SplitInit => SizesInv
<1> SUFFICES ASSUME SplitInit
             PROVE  SizesInv
  OBVIOUS
<1>1. PICK n \in 0 .. MaxInodes : inodes = [k \in 1 .. n |-> k]
  BY DEF SplitInit
<1>2. n \in Nat
  BY NodeSplitAssumption
<1>3. inodes \in Seq(Nat) /\ DOMAIN inodes = 1 .. n
  BY <1>1, <1>2
<1>4. inodes \in Seq(DOMAIN inodes)
  BY <1>1, <1>2, <1>3
<1>5. size \in [DOMAIN inodes -> Nat]
  BY NodeSplitAssumption DEF SplitInit
<1>6. SizeShape
  BY <1>3, <1>4, <1>5, NodeSplitAssumption DEF SplitInit, SizeShape
<1>7. Counted /\ NodesFit /\ CutsAreLate /\ pc # "done"
  BY DEF SplitInit, Counted, NodesFit, CutsAreLate
<1> QED
  BY <1>6, <1>7, SplitStart DEF SizesInv

\* Sizes of inodes of the node, as far as split_index looks.
LEMMA SizeFacts ==
  ASSUME SizeShape
  PROVE  /\ Len(node) \in Nat
         /\ \A k \in 1 .. Len(node) : node[k] \in DOMAIN inodes /\ size[node[k]] \in Nat
         /\ \A n \in 0 .. Len(node) : SizeUpTo(node, n) \in Nat
         /\ SizeUpTo(node, 0) = HeaderSize
         /\ \A n \in Nat : SizeUpTo(node, n + 1) = SizeUpTo(node, n) + size[node[n + 1]]
<1>1. Len(node) \in Nat
  BY DEF SizeShape
<1>2. \A k \in 1 .. Len(node) : node[k] \in DOMAIN inodes /\ size[node[k]] \in Nat
  BY DEF SizeShape
<1>3. ASSUME NEW n \in 0 .. Len(node)
      PROVE  SizeUpTo(node, n) \in Nat
  <2>1. n \in Nat /\ \A k \in 1 .. n : size[node[k]] \in Nat
    BY <1>1, <1>2
  <2>2. Summed(size, node, n) \in Nat
    BY <2>1, SummedNat
  <2> QED
    BY <2>2, SizeIsSummed
<1> QED
  BY <1>1, <1>2, <1>3, SizeIsSummed, SummedStep

Bytes(w, s) == Summed(w, s, Len(s))

LEMMA ByteSizeIs ==
  /\ \A s : ByteSize(s) = Bytes(size, s)
  /\ \A s : ByteSize(s)' = Bytes(size', s)
BY SizeIsSummed DEF ByteSize, Bytes

\* The node goes to its place behind the others as it is.
LEMMA KeepSizes == ASSUME SizesInv, Keep PROVE SizesInv'
<1>1. /\ pc = "two" /\ pc' = "done"
      /\ nodes' = Append(nodes, node)
      /\ Len(node) <= 2 * kMinKeysPerPage \/ IsSizeLessThan(node, PageSize)
      /\ UNCHANGED <<inodes, size, threshold, node, i, sz, splits>>
  BY DEF Keep
<1>2. SplitInv'
  BY KeepStep DEF SizesInv
<1>3. /\ nodes \in Seq(Seq(Nat)) /\ node \in Seq(Nat)
      /\ Len(nodes) = splits /\ Len(nodes) \in Nat
  BY <1>1 DEF SizesInv, SplitInv, SplitShape, OneNodePerCut
<1>4. /\ Len(nodes') = Len(nodes) + 1
      /\ \A k \in 1 .. Len(nodes) : nodes'[k] = nodes[k]
      /\ nodes'[Len(nodes) + 1] = node
  BY <1>1, <1>3
<1>5. SizeShape' /\ Counted' /\ (pc' = "done" => Len(nodes') = splits' + 1)
  BY <1>1, <1>3, <1>4 DEF SizesInv, SizeShape, Counted
<1>6. \A s : ByteSize(s)' = ByteSize(s)
  BY <1>1, ByteSizeIs
<1>7. NodesFit'
  <2>1. ASSUME NEW k \in 1 .. Len(nodes'), k <= splits
        PROVE  ByteSize(nodes[k])' <= threshold \/ Len(nodes'[k]) = kMinKeysPerPage
    <3>1. k \in 1 .. Len(nodes) /\ nodes'[k] = nodes[k]
      BY <1>3, <1>4, <2>1
    <3>2. ByteSize(nodes[k])' = Bytes(size, nodes[k]) /\ ByteSize(nodes[k]) = Bytes(size, nodes[k])
      BY <1>1, <3>1, ByteSizeIs
    <3> QED
      BY <2>1, <3>1, <3>2 DEF SizesInv, NodesFit
  <2>2. ByteSize(nodes[Len(nodes)])' < PageSize \/ Len(nodes'[Len(nodes')]) <= 2 * kMinKeysPerPage
    <3>1. nodes'[Len(nodes')] = node
      BY <1>3, <1>4
    <3>2. CASE Len(node) <= 2 * kMinKeysPerPage
      BY <3>1, <3>2
    <3>3. CASE ~(Len(node) <= 2 * kMinKeysPerPage)
      <4>1. IsSizeLessThan(node, PageSize) /\ Len(node) \in 1 .. Len(node)
        BY <1>1, <1>3, <3>3 DEF kMinKeysPerPage
      <4>2. ByteSize(node) < PageSize
        BY <4>1 DEF IsSizeLessThan, ByteSize
      <4>3. ByteSize(nodes[Len(nodes)])' = Bytes(size, node) /\ ByteSize(node) = Bytes(size, node)
        BY <1>1, <3>1, ByteSizeIs
      <4> QED
        BY <4>2, <4>3
    <3> QED
      BY <3>2, <3>3
  <2> QED
    BY <1>1, <2>1, <2>2 DEF NodesFit
<1>8. CutsAreLate'
  <2> SUFFICES ASSUME NEW k \in 1 .. Len(nodes'), k <= splits
               PROVE  LET right == IF k < Len(nodes') THEN nodes'[k + 1] ELSE node'
                      IN  \/ ByteSize(nodes[k])' + size[right[1]] > threshold
                          \/ k = splits /\ Len(right) = kMinKeysPerPage
    BY <1>1 DEF CutsAreLate
  <2>0. k \in Int /\ 1 <= k /\ k <= splits
    BY <1>3, <1>4
  <2>1. k \in 1 .. Len(nodes) /\ nodes'[k] = nodes[k] /\ k < Len(nodes')
    BY <1>3, <1>4, <2>0
  <2>2. nodes'[k + 1] = RightOf(k)
    <3>1. CASE k < Len(nodes)
      BY <1>3, <1>4, <2>1, <3>1 DEF RightOf
    <3>2. CASE k = Len(nodes)
      BY <1>3, <1>4, <2>1, <3>2 DEF RightOf
    <3> QED
      BY <1>3, <2>1, <3>1, <3>2
  <2>3. ByteSize(nodes[k])' = Bytes(size, nodes[k]) /\ ByteSize(nodes[k]) = Bytes(size, nodes[k])
    BY <1>1, <2>1, ByteSizeIs
  <2>4. \/ ByteSize(nodes[k]) + size[RightOf(k)[1]] > threshold
        \/ k = splits /\ Len(RightOf(k)) = kMinKeysPerPage
    BY <2>1 DEF SizesInv, CutsAreLate, RightOf
  <2> QED
    BY <2>1, <2>2, <2>3, <2>4
<1> QED
  BY <1>2, <1>5, <1>7, <1>8 DEF SizesInv

LEMMA Appended ==
  ASSUME NEW S, NEW q \in Seq(S), NEW x \in S
  PROVE  /\ Append(q, x) \in Seq(S)
         /\ Len(Append(q, x)) = Len(q) + 1
         /\ \A k \in 1 .. Len(q) : Append(q, x)[k] = q[k]
         /\ Append(q, x)[Len(q) + 1] = x
OBVIOUS

\* The inodes on both sides of a cut.
LEMMA CutParts ==
  ASSUME NEW S, NEW s \in Seq(S), NEW j \in 1 .. Len(s)
  PROVE  /\ SubSeq(s, 1, j) \in Seq(S) /\ Len(SubSeq(s, 1, j)) = j
         /\ \A k \in 1 .. j : SubSeq(s, 1, j)[k] = s[k]
         /\ SubSeq(s, j + 1, Len(s)) \in Seq(S) /\ Len(SubSeq(s, j + 1, Len(s))) = Len(s) - j
         /\ \A k \in 1 .. Len(s) - j : SubSeq(s, j + 1, Len(s))[k] = s[j + k]
<1>1. Len(s) \in Nat /\ 1 \in 1 .. Len(s) + 1 /\ j \in 1 - 1 .. Len(s)
  OBVIOUS
<1>2. j + 1 \in 1 .. Len(s) + 1 /\ Len(s) \in (j + 1) - 1 .. Len(s)
  BY <1>1
<1>3. SubSeq(s, 1, j) \in Seq(S) /\ Len(SubSeq(s, 1, j)) = j
  BY <1>1, SubSeqProperties
<1>4. \A k \in 1 .. j : SubSeq(s, 1, j)[k] = s[k]
  BY <1>1
<1>5. SubSeq(s, j + 1, Len(s)) \in Seq(S) /\ Len(SubSeq(s, j + 1, Len(s))) = Len(s) - j
  BY <1>1, <1>2, SubSeqProperties
<1>6. \A k \in 1 .. Len(s) - j : SubSeq(s, j + 1, Len(s))[k] = s[j + k]
  BY <1>1, <1>2
<1> QED
  BY <1>3, <1>4, <1>5, <1>6

\* The cut-off node is as large as what split_index counted; the next one starts
\* with the inode that made it stop.
LEMMA CutSizes == ASSUME SizesInv, Cut PROVE SizesInv'
<1> DEFINE cut == SubSeq(node, 1, i)
<1>1. /\ pc = "index" /\ pc' = "two"
      /\ AtLastKeys \/ OverThreshold
      /\ nodes' = Append(nodes, cut)
      /\ node' = SubSeq(node, i + 1, Len(node))
      /\ splits' = splits + 1
      /\ UNCHANGED <<inodes, size, threshold, i, sz>>
  BY DEF Cut
<1>2. SplitInv'
  BY CutStep DEF SizesInv
<1>2a. nodes \in Seq(Seq(Nat)) /\ node \in Seq(Nat)
  BY DEF SizesInv, SplitInv, SplitShape
<1>3. /\ i \in Nat /\ Len(node) \in Nat /\ Len(node) > 4 /\ i <= Len(node) - 2
      /\ Len(nodes) = splits /\ Len(nodes) \in Nat
  BY SMTT(40), <1>1 DEF SizesInv, SplitInv, SplitShape, RoomToCut, OneNodePerCut, kMinKeysPerPage
<1>4. i >= 2 /\ i \in 1 .. Len(node)
  <2>1. i >= Len(node) - 2 \/ i >= 2
    BY <1>1 DEF AtLastKeys, OverThreshold, kMinKeysPerPage
  <2> QED
    BY <1>3, <2>1
<1>5. /\ cut \in Seq(Nat) /\ Len(cut) = i /\ \A k \in 1 .. i : cut[k] = node[k]
      /\ Len(node') = Len(node) - i /\ node' \in Seq(DOMAIN inodes) /\ node'[1] = node[i + 1]
  <2>1. /\ cut \in Seq(Nat) /\ Len(cut) = i /\ \A k \in 1 .. i : cut[k] = node[k]
    BY <1>2a, <1>4, CutParts
  <2>2. node \in Seq(DOMAIN inodes)
    BY DEF SizesInv, SizeShape
  <2>3. /\ node' \in Seq(DOMAIN inodes) /\ Len(node') = Len(node) - i
        /\ \A k \in 1 .. Len(node) - i : node'[k] = node[i + k]
    BY SMTT(40), <1>1, <1>4, <2>2, CutParts
  <2>4. 1 \in 1 .. Len(node) - i
    BY <1>3
  <2> QED
    BY <2>1, <2>3, <2>4
<1> HIDE DEF cut
<1>6. /\ Len(nodes') = Len(nodes) + 1
      /\ \A k \in 1 .. Len(nodes) : nodes'[k] = nodes[k]
      /\ nodes'[Len(nodes) + 1] = cut
  <2>1. nodes' = Append(nodes, cut)
    BY <1>1
  <2>2. nodes \in Seq(Seq(Nat)) /\ cut \in Seq(Nat)
    BY <1>2a, <1>5
  <2> QED
    BY <2>1, <2>2, Appended
<1>7. SizeShape' /\ Counted'
  BY <1>1, <1>5 DEF SizesInv, SizeShape, Counted
<1>8. Bytes(size, cut) = sz /\ sz \in Nat /\ threshold \in Int
  <2>1. Bytes(size, cut) = Summed(size, node, i)
    BY <1>3, <1>5, SummedPrefix DEF Bytes
  <2> QED
    BY <1>1, <2>1, SizeIsSummed DEF SizesInv, Counted, SizeShape
<1>9. NodesFit'
  <2> SUFFICES ASSUME NEW k \in 1 .. Len(nodes'), k <= splits + 1
               PROVE  ByteSize(nodes[k])' <= threshold \/ Len(nodes'[k]) = kMinKeysPerPage
    BY <1>1 DEF NodesFit
  <2>0. k \in Int /\ 1 <= k /\ k <= splits + 1
    BY <1>3, <1>6
  <2>1. CASE k = Len(nodes) + 1
    <3>1. ByteSize(nodes[k])' = sz /\ Len(nodes'[k]) = i
      BY <1>1, <1>5, <1>6, <1>8, <2>1, ByteSizeIs
    <3>2. i > kMinKeysPerPage => sz <= threshold
      BY <1>1 DEF SizesInv, Counted
    <3> QED
      BY <1>3, <1>4, <1>8, <3>1, <3>2 DEF kMinKeysPerPage
  <2>2. CASE k \in 1 .. Len(nodes)
    <3>1. ByteSize(nodes[k])' = ByteSize(nodes[k]) /\ nodes'[k] = nodes[k]
      BY <1>1, <1>6, <2>2, ByteSizeIs
    <3> QED
      BY <1>3, <2>2, <3>1 DEF SizesInv, NodesFit
  <2> QED
    BY <1>3, <2>0, <2>1, <2>2
<1>9a. Len(node) # kMinKeysPerPage
  <2>1. \A l \in Nat : l > 4 => l # 2
    OBVIOUS
  <2> QED
    BY <1>3, <2>1 DEF kMinKeysPerPage
<1>10. CutsAreLate'
  <2> SUFFICES ASSUME NEW k \in 1 .. Len(nodes'), k <= splits + 1
               PROVE  LET right == IF k < Len(nodes') THEN nodes'[k + 1] ELSE node'
                      IN  \/ ByteSize(nodes[k])' + size[right[1]] > threshold
                          \/ k = splits + 1 /\ Len(right) = kMinKeysPerPage
    BY <1>1 DEF CutsAreLate
  <2>0. k \in Int /\ 1 <= k /\ k <= splits + 1
    BY <1>3, <1>6
  <2>1. CASE k = Len(nodes) + 1
    <3>1. ByteSize(nodes[k])' = sz
      BY <1>1, <1>6, <1>8, <2>1, ByteSizeIs
    <3>2. ~(k < Len(nodes')) /\ k = splits + 1
      BY <1>3, <1>6, <2>1
    <3>3. CASE AtLastKeys
      <4>1. Len(node') = kMinKeysPerPage
        BY <1>3, <1>5, <3>3 DEF AtLastKeys, kMinKeysPerPage
      <4> QED
        BY <3>2, <4>1
    <3>4. CASE OverThreshold
      <4>1. sz + size[node'[1]] > threshold
        BY <1>5, <3>4 DEF OverThreshold
      <4> QED
        BY <3>1, <3>2, <4>1
    <3> QED
      BY <1>1, <3>3, <3>4
  <2>2. CASE k \in 1 .. Len(nodes)
    <3>1. ByteSize(nodes[k])' = ByteSize(nodes[k]) /\ nodes'[k] = nodes[k]
      BY <1>1, <1>6, <2>2, ByteSizeIs
    <3>2. k < Len(nodes') /\ k <= splits
      BY <1>3, <1>6, <2>2
    <3>3. \/ ByteSize(nodes[k]) + size[RightOf(k)[1]] > threshold
          \/ k = splits /\ Len(RightOf(k)) = kMinKeysPerPage
      BY <2>2, <3>2 DEF SizesInv, CutsAreLate, RightOf
    <3>4. CASE k < Len(nodes)
      <4>1. nodes'[k + 1] = RightOf(k) /\ k # splits
        BY <1>3, <1>6, <2>2, <3>4 DEF RightOf
      <4> QED
        BY <3>1, <3>2, <3>3, <4>1
    <3>5. CASE k = Len(nodes)
      <4>1. nodes'[k + 1] = cut /\ RightOf(k) = node
        BY <1>3, <1>6, <3>5 DEF RightOf
      <4>2. 1 \in 1 .. i
        BY <1>4
      <4>3. cut[1] = node[1]
        BY <1>5, <4>2
      <4> QED
        BY <1>9a, <3>1, <3>2, <3>3, <4>1, <4>3
    <3> QED
      BY <1>3, <2>2, <3>4, <3>5
  <2> QED
    BY <1>3, <2>0, <2>1, <2>2
<1> QED
  BY <1>1, <1>2, <1>7, <1>9, <1>10 DEF SizesInv

LEMMA SizesStep == SizesInv /\ [SplitNext]_splitVars => SizesInv'
<1> SUFFICES ASSUME SizesInv, [SplitNext]_splitVars
             PROVE  SizesInv'
  OBVIOUS
<1>1. SplitInv'
  BY SplitStep DEF SizesInv
<1>2. ASSUME UNCHANGED <<size, threshold, nodes, node, splits>>, pc' # "done" \/ pc' = pc
      PROVE  NodesFit' /\ CutsAreLate'
  <2>1. \A k : ByteSize(nodes[k])' = ByteSize(nodes[k])
    BY <1>2, ByteSizeIs
  <2>2. ByteSize(nodes[Len(nodes)])' = ByteSize(nodes[Len(nodes)])
    BY <1>2, ByteSizeIs
  <2>3. NodesFit'
    BY <1>2, <2>1, <2>2 DEF SizesInv, NodesFit
  <2>4. CutsAreLate'
    BY <1>2, <2>1 DEF SizesInv, CutsAreLate
  <2> QED
    BY <2>3, <2>4
<1>3. CASE Keep
  BY <1>3, KeepSizes
<1>4. CASE BeginIndex
  <2>1. /\ pc' = "index" /\ i' = 0 /\ sz' = HeaderSize
        /\ UNCHANGED <<inodes, size, threshold, node, nodes, splits>>
    BY <1>4 DEF BeginIndex
  <2>2. SizeShape' /\ HeaderSize = SizeUpTo(node, 0)
    BY <2>1, SizeFacts, NodeSplitAssumption DEF SizesInv, SizeShape
  <2>3. SizeUpTo(node, i)' = SizeUpTo(node, 0)
    BY <2>1, SizeIsSummed
  <2>4. Counted'
    BY <2>1, <2>2, <2>3 DEF Counted, kMinKeysPerPage
  <2> QED
    BY <1>1, <1>2, <2>1, <2>2, <2>4 DEF SizesInv
<1>5. CASE CountInode
  <2>1. /\ pc = "index" /\ pc' = "index" /\ i' = i + 1 /\ sz' = sz + size[node[i + 1]]
        /\ ~AtLastKeys /\ ~OverThreshold
        /\ UNCHANGED <<inodes, size, threshold, node, nodes, splits>>
    BY <1>5 DEF CountInode
  <2>2. i \in Nat /\ i + 1 \in 1 .. Len(node)
    BY <2>1 DEF SizesInv, SplitInv, SplitShape, AtLastKeys, kMinKeysPerPage
  <2>3. size[node[i + 1]] \in Nat /\ sz \in Nat /\ threshold \in Int
    BY <2>2, SizeFacts DEF SizesInv, SizeShape
  <2>4. SizeShape'
    BY SMTT(40), <2>1, <2>3 DEF SizesInv, SizeShape
  <2>5. sz' = SizeUpTo(node, i + 1)
    BY <2>1, <2>2, SizeFacts DEF SizesInv, Counted
  <2>6. SizeUpTo(node, i)' = SizeUpTo(node, i + 1)
    BY <2>1, SizeIsSummed
  <2>7. i' > kMinKeysPerPage => sz' <= threshold
    BY <2>1, <2>2, <2>3 DEF OverThreshold, kMinKeysPerPage
  <2>8. Counted'
    BY <2>1, <2>5, <2>6, <2>7 DEF Counted
  <2> QED
    BY <1>1, <1>2, <2>1, <2>4, <2>8 DEF SizesInv
<1>6. CASE Cut
  BY <1>6, CutSizes
<1>7. CASE UNCHANGED splitVars
  <2>1. UNCHANGED <<inodes, size, threshold, node, nodes, splits, i, sz, pc>>
    BY <1>7 DEF splitVars
  <2>2. SizeUpTo(node, i)' = SizeUpTo(node, i)
    BY <2>1, SizeIsSummed
  <2>3. SizeShape' /\ Counted'
    BY <2>1, <2>2 DEF SizesInv, SizeShape, Counted
  <2> QED
    BY <1>1, <1>2, <2>1, <2>3 DEF SizesInv
<1> QED
  BY <1>3, <1>4, <1>5, <1>6, <1>7 DEF SplitNext

\* Every node but the last fits the threshold of the fill percent or has only the
\* minimum of keys, and the last fits the page or is too short to split (NodesFit).
THEOREM SplitNodesFit == SplitSpec => []NodesFit
<1>1. SizesInv => NodesFit
  BY DEF SizesInv
<1> QED
  BY <1>1, SizesStart, SizesStep, PTL DEF SplitSpec

\* No node is cut earlier than the fill percent and the minimum of keys ask for
\* (CutsAreLate).
THEOREM SplitCutsLate == SplitSpec => []CutsAreLate
<1>1. SizesInv => CutsAreLate
  BY DEF SizesInv
<1> QED
  BY <1>1, SizesStart, SizesStep, PTL DEF SplitSpec

-----------------------------------------------------------------------------
(* The inodes of the pieces, read in order.                                *)

\* f[m] is the concatenation of the first m sequences of q.
IsFlat(f, q, n) == f = [m \in 1 .. n |-> IF m = 1 THEN q[m] ELSE f[m - 1] \o q[m]]

LEMMA FlatExists ==
  ASSUME NEW q, NEW n \in Nat
  PROVE  \E f : IsFlat(f, q, n)
<1> DEFINE T == {m \in Nat : ~ \E f : IsFlat(f, q, m)}
<1>1. CASE T = {}
  BY <1>1
<1>2. CASE T # {}
  <2> T \subseteq Nat
    OBVIOUS
  <2> HIDE DEF T
  <2>1. PICK m \in T : \A j \in T : ~(j < m)
    BY <1>2, LeastNat
  <2>2. m \in Nat /\ ~ \E f : IsFlat(f, q, m)
    BY <2>1 DEF T
  <2>3. CASE m = 0
    <3> DEFINE e == [k \in 1 .. 0 |-> q[k]]
    <3>1. e = [k \in 1 .. 0 |-> IF k = 1 THEN q[k] ELSE e[k - 1] \o q[k]]
      OBVIOUS
    <3>2. IsFlat(e, q, 0)
      BY <3>1 DEF IsFlat
    <3> QED
      BY <2>2, <2>3, <3>2
  <2>4. CASE m # 0
    <3>1. m - 1 \in Nat /\ m - 1 \notin T
      BY <2>1, <2>2, <2>4
    <3>2. PICK f : IsFlat(f, q, m - 1)
      BY <3>1 DEF T
    <3> DEFINE last == IF m = 1 THEN q[m] ELSE f[m - 1] \o q[m]
               g == [k \in 1 .. m |-> IF k = m THEN last ELSE f[k]]
    <3>3. IsFlat(g, q, m)
      <4>1. ASSUME NEW k \in 1 .. m
            PROVE  g[k] = IF k = 1 THEN q[k] ELSE g[k - 1] \o q[k]
        <5>1. CASE k = m
          <6>1. m # 1 => m - 1 \in 1 .. m /\ m - 1 # m
            BY <2>2, <2>4
          <6>2. m # 1 => g[m - 1] = f[m - 1]
            BY <6>1
          <6>3. g[m] = last
            BY <4>1, <5>1
          <6> QED
            BY <5>1, <6>2, <6>3
        <5>2. CASE k # m
          <6>1. k \in 1 .. m - 1 /\ (k # 1 => k - 1 \in 1 .. m /\ k - 1 # m)
            BY <2>2, <4>1, <5>2
          <6>2. f[k] = IF k = 1 THEN q[k] ELSE f[k - 1] \o q[k]
            BY <3>2, <6>1 DEF IsFlat
          <6>3. g[k] = f[k] /\ (k # 1 => g[k - 1] = f[k - 1])
            BY <4>1, <5>2, <6>1
          <6> QED
            BY <6>2, <6>3
        <5> QED
          BY <5>1, <5>2
      <4> QED
        BY <4>1 DEF IsFlat
    <3> QED
      BY <2>2, <3>3
  <2> QED
    BY <2>3, <2>4
<1> QED
  BY <1>1, <1>2

\* Two of them agree where the sequences they concatenate do.
LEMMA FlatsAgree ==
  ASSUME NEW q, NEW r, NEW n \in Nat, NEW k \in Nat, n <= k, NEW f, NEW g,
         IsFlat(f, q, n), IsFlat(g, r, k), \A m \in 1 .. n : q[m] = r[m]
  PROVE  \A j \in 1 .. n : f[j] = g[j]
<1> DEFINE T == {m \in Nat : m \in 1 .. n /\ f[m] # g[m]}
<1>1. CASE T = {}
  BY <1>1
<1>2. CASE T # {}
  <2> T \subseteq Nat
    OBVIOUS
  <2> HIDE DEF T
  <2>1. PICK m \in T : \A i0 \in T : ~(i0 < m)
    BY <1>2, LeastNat
  <2>2. m \in 1 .. n /\ m \in 1 .. k /\ f[m] # g[m] /\ q[m] = r[m]
    BY <2>1 DEF T
  <2>3. f[m] = IF m = 1 THEN q[m] ELSE f[m - 1] \o q[m]
    BY <2>2 DEF IsFlat
  <2>4. g[m] = IF m = 1 THEN r[m] ELSE g[m - 1] \o r[m]
    BY <2>2 DEF IsFlat
  <2>5. m # 1
    BY <2>2, <2>3, <2>4
  <2>6. m - 1 \in 1 .. n /\ m - 1 \in Nat /\ m - 1 < m
    BY <2>2, <2>5
  <2>7. f[m - 1] = g[m - 1]
    BY <2>1, <2>6 DEF T
  <2> QED
    BY <2>2, <2>3, <2>4, <2>5, <2>7
<1> QED
  BY <1>1, <1>2

LEMMA FlattenIs ==
  ASSUME NEW q, Len(q) \in Nat, Len(q) # 0
  PROVE  \E f : IsFlat(f, q, Len(q)) /\ FlattenSeq(q) = f[Len(q)]
<1> DEFINE u == CHOOSE f : f = [m \in 1 .. Len(q) |-> IF m = 1 THEN q[m]
                                                     ELSE f[m - 1] \o q[m]]
<1>1. \E f : f = [m \in 1 .. Len(q) |-> IF m = 1 THEN q[m] ELSE f[m - 1] \o q[m]]
  <2>1. PICK f : IsFlat(f, q, Len(q))
    BY FlatExists, Zenon
  <2> QED
    BY <2>1 DEF IsFlat
<1>2. u = [m \in 1 .. Len(q) |-> IF m = 1 THEN q[m] ELSE u[m - 1] \o q[m]]
  BY <1>1
<1>3. FlattenSeq(q) = u[Len(q)]
  BY DEF FlattenSeq
<1> HIDE DEF u
<1> QED
  BY <1>2, <1>3 DEF IsFlat

\* One more sequence is concatenated to what the others make.
LEMMA FlattenLonger ==
  ASSUME NEW q, NEW r, NEW n \in Nat, NEW k \in Nat, n # 0, k = n + 1,
         Len(q) = n, Len(r) = k, \A m \in 1 .. n : q[m] = r[m]
  PROVE  FlattenSeq(r) = FlattenSeq(q) \o r[k]
<1>1. PICK f : IsFlat(f, q, n) /\ FlattenSeq(q) = f[n]
  BY FlattenIs
<1>2. PICK g : IsFlat(g, r, k) /\ FlattenSeq(r) = g[k]
  BY FlattenIs
<1>3. n <= k /\ n \in 1 .. n /\ k \in 1 .. k /\ k # 1 /\ k - 1 = n
  OBVIOUS
<1>4. \A j \in 1 .. n : f[j] = g[j]
  <2>1. ASSUME NEW m \in Nat, NEW l \in Nat, m <= l, IsFlat(f, q, m), IsFlat(g, r, l),
               \A j \in 1 .. m : q[j] = r[j]
        PROVE  \A j \in 1 .. m : f[j] = g[j]
    BY <2>1, FlatsAgree, SMTT(60)
  <2> QED
    BY <1>1, <1>2, <1>3, <2>1
<1>5. g[k] = g[n] \o r[k]
  BY <1>2, <1>3 DEF IsFlat
<1> QED
  BY <1>1, <1>2, <1>3, <1>4, <1>5

\* A sequence that is appended to the others is appended to their concatenation.
LEMMA FlattenAppend ==
  ASSUME NEW S, NEW q \in Seq(Seq(S)), NEW x \in Seq(S), FlattenSeq(q) \in Seq(S)
  PROVE  /\ FlattenSeq(Append(q, x)) = FlattenSeq(q) \o x
         /\ FlattenSeq(Append(q, x)) \in Seq(S)
<1>1. PICK r : r = Append(q, x)
  OBVIOUS
<1>2. PICK n \in Nat : n = Len(q)
  OBVIOUS
<1>3. PICK k \in Nat : k = n + 1
  OBVIOUS
<1>4. Len(q) = n /\ Len(r) = k /\ r[k] = x /\ \A m \in 1 .. n : q[m] = r[m]
  BY <1>1, <1>2, <1>3, Appended
<1>5. FlattenSeq(r) = FlattenSeq(q) \o x
  <2>1. CASE n = 0
    <3>1. FlattenSeq(r) = r[1]
      <4>1. Len(r) = 1
        BY <1>3, <1>4, <2>1
      <4>2. PICK g : IsFlat(g, r, Len(r)) /\ FlattenSeq(r) = g[Len(r)]
        <5>1. Len(r) \in Nat /\ Len(r) # 0
          BY <4>1
        <5> QED
          BY <5>1, FlattenIs, Zenon
      <4> QED
        BY <4>1, <4>2 DEF IsFlat
    <3>2. FlattenSeq(q) = <<>>
      BY <1>4, <2>1 DEF FlattenSeq
    <3>3. <<>> \o x = x
      BY ConcatEmptySeq
    <3> QED
      BY <1>3, <1>4, <2>1, <3>1, <3>2, <3>3
  <2>2. CASE n # 0
    <3>1. FlattenSeq(r) = FlattenSeq(q) \o r[k]
      BY <1>3, <1>4, <2>2, FlattenLonger
    <3> QED
      BY <1>4, <3>1
  <2> QED
    BY <2>1, <2>2
<1>6. FlattenSeq(q) \o x \in Seq(S)
  BY ConcatProperties
<1> QED
  BY <1>1, <1>5, <1>6

InodesInv ==
  /\ SplitInv
  /\ node \in Seq(Nat)
  /\ inodes \in Seq(Nat)
  /\ FlattenSeq(nodes) \in Seq(Nat)
  /\ InodesKept

LEMMA InodesStart == SplitInit => InodesInv
<1> SUFFICES ASSUME SplitInit
             PROVE  InodesInv
  OBVIOUS
<1>1. PICK n \in 0 .. MaxInodes : inodes = [k \in 1 .. n |-> k]
  BY DEF SplitInit
<1>2. n \in Nat
  BY NodeSplitAssumption
<1>3. inodes \in Seq(Nat)
  BY <1>1, <1>2
<1>4. nodes = <<>> /\ node = inodes /\ pc # "done"
  BY DEF SplitInit
<1>5. FlattenSeq(nodes) = <<>>
  <2>1. Len(nodes) = 0
    BY <1>4
  <2> QED
    BY <1>4, <2>1 DEF FlattenSeq
<1>6. <<>> \o inodes = inodes /\ <<>> \in Seq(Nat)
  BY <1>3, ConcatEmptySeq, EmptySeq
<1>7. InodesKept
  BY <1>4, <1>5, <1>6 DEF InodesKept, Rest
<1> QED
  BY <1>3, <1>4, <1>5, <1>6, <1>7, SplitStart DEF InodesInv

\* The last node closes the concatenation.
LEMMA KeepInodes == ASSUME InodesInv, Keep PROVE InodesInv'
<1>1. SplitInv'
  BY KeepStep DEF InodesInv
<1>2. /\ nodes \in Seq(Seq(Nat)) /\ node \in Seq(Nat) /\ inodes \in Seq(Nat)
      /\ FlattenSeq(nodes) \in Seq(Nat)
  BY DEF InodesInv, SplitInv, SplitShape
<1>3. /\ nodes' = Append(nodes, node) /\ pc # "done" /\ pc' = "done"
      /\ node' = node /\ inodes' = inodes
  BY DEF Keep
<1>4. /\ FlattenSeq(Append(nodes, node)) = FlattenSeq(nodes) \o node
      /\ FlattenSeq(Append(nodes, node)) \in Seq(Nat)
  BY <1>2, FlattenAppend
<1>5. FlattenSeq(nodes') = FlattenSeq(nodes) \o node /\ FlattenSeq(nodes') \in Seq(Nat)
  BY <1>3, <1>4
<1>6. FlattenSeq(nodes) \o node = inodes
  BY <1>3 DEF InodesInv, InodesKept, Rest
<1>7. FlattenSeq(nodes') \o <<>> = FlattenSeq(nodes')
  BY <1>5, ConcatEmptySeq
<1>8. InodesKept'
  BY <1>3, <1>5, <1>6, <1>7 DEF InodesKept, Rest
<1> QED
  BY <1>1, <1>2, <1>3, <1>5, <1>8 DEF InodesInv

\* The two sides of a cut make up the node that is cut.
LEMMA CutInodes == ASSUME InodesInv, Cut PROVE InodesInv'
<1> DEFINE left == SubSeq(node, 1, i)
           right == SubSeq(node, i + 1, Len(node))
<1>1. SplitInv'
  BY CutStep DEF InodesInv
<1>2. /\ nodes \in Seq(Seq(Nat)) /\ node \in Seq(Nat) /\ inodes \in Seq(Nat)
      /\ FlattenSeq(nodes) \in Seq(Nat)
  BY DEF InodesInv, SplitInv, SplitShape
<1>3. /\ nodes' = Append(nodes, left) /\ node' = right /\ inodes' = inodes
      /\ pc # "done" /\ pc' # "done"
  BY DEF Cut
<1>4. i \in 0 .. Len(node) /\ Len(node) \in Nat
  <2>1. i \in Nat /\ i <= Len(node) - kMinKeysPerPage
    BY DEF Cut, InodesInv, SplitInv, SplitShape, RoomToCut
  <2> QED
    BY <1>2, <2>1 DEF kMinKeysPerPage
<1>5. left \in Seq(Nat) /\ right \in Seq(Nat)
  <2>1. (\A k \in 1 .. i : node[k] \in Nat) /\ \A k \in i + 1 .. Len(node) : node[k] \in Nat
    BY SMTT(40), <1>2, <1>4
  <2> QED
    BY <1>4, <2>1, SubSeqProperties
<1>6. left \o right = node
  <2>1. 1 \in 1 .. Len(node) + 1 /\ i \in 1 - 1 .. Len(node) /\ Len(node) \in i .. Len(node)
    BY <1>4
  <2>2. left \o right = SubSeq(node, 1, Len(node))
    BY <1>2, <2>1, ConcatAdjacentSubSeq
  <2>3. SubSeq(node, 1, Len(node)) = node
    BY <1>2, SubSeqFull
  <2> QED
    BY <2>2, <2>3
<1> HIDE DEF left, right
<1>7. /\ FlattenSeq(Append(nodes, left)) = FlattenSeq(nodes) \o left
      /\ FlattenSeq(Append(nodes, left)) \in Seq(Nat)
  BY <1>2, <1>5, FlattenAppend
<1>8. FlattenSeq(nodes') = FlattenSeq(nodes) \o left /\ FlattenSeq(nodes') \in Seq(Nat)
  BY <1>3, <1>7
<1>9. (FlattenSeq(nodes) \o left) \o right = FlattenSeq(nodes) \o (left \o right)
  <2>1. PICK s \in Seq(Nat) : s = FlattenSeq(nodes)
    BY <1>2
  <2>2. (s \o left) \o right = s \o (left \o right)
    BY <1>5, <2>1, ConcatAssociative
  <2> QED
    BY <2>1, <2>2
<1>10. FlattenSeq(nodes) \o node = inodes
  BY <1>3 DEF InodesInv, InodesKept, Rest
<1>11. InodesKept'
  BY <1>3, <1>6, <1>8, <1>9, <1>10 DEF InodesKept, Rest
<1> QED
  BY <1>1, <1>2, <1>3, <1>5, <1>8, <1>11 DEF InodesInv

LEMMA InodesStep == InodesInv /\ [SplitNext]_splitVars => InodesInv'
<1> SUFFICES ASSUME InodesInv, [SplitNext]_splitVars
             PROVE  InodesInv'
  OBVIOUS
<1>1. SplitInv'
  BY SplitStep DEF InodesInv
<1>2. CASE Keep
  BY <1>2, KeepInodes
<1>3. CASE BeginIndex \/ CountInode \/ UNCHANGED splitVars
  <2>1. /\ nodes' = nodes /\ node' = node /\ inodes' = inodes
        /\ (pc' = "done" <=> pc = "done")
    BY <1>3 DEF BeginIndex, CountInode, splitVars
  <2> QED
    BY <1>1, <2>1 DEF InodesInv, InodesKept, Rest
<1>4. CASE Cut
  BY <1>4, CutInodes
<1> QED
  BY <1>2, <1>3, <1>4 DEF SplitNext

\* InodesKept holds in every reachable state: the nodes split returns and the rest,
\* read in order, are the inodes of the node, whatever its cuts.
THEOREM SplitKeepsInodes == SplitSpec => []InodesKept
<1>1. InodesInv => InodesKept
  BY DEF InodesInv
<1> QED
  BY <1>1, InodesStart, InodesStep, PTL DEF SplitSpec
=============================================================================
