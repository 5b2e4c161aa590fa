--------------------------- MODULE NodeTreeProofs ---------------------------
(***************************************************************************)
(* The nodes of a bucket of any shape and size, empty pages and keys of    *)
(* one size among them: they form one tree, a child's own element is       *)
(* missed only for one with a key of the same size, keys ascend and nodes  *)
(* implement the collections of entries that KeyMap describes.             *)
(***************************************************************************)
EXTENDS NodeTree, SequenceTheorems, WellFoundedInduction, TLAPS

NodeRecord ==
  [leaf : BOOLEAN, pgid : PageId \cup {0}, parent : 0 .. MaxNodes,
   first : Key \cup {NoKey}, children : Seq(NodeId)]

Frame == [node : NodeId, rest : Seq(NodeId)]

TreeTypeOK ==
  /\ made \in 0 .. MaxNodes
  /\ node \in [NodeId -> NodeRecord]
  /\ inodes \in [NodeId -> Seq(Inode)]
  /\ nodeCache \in [PageId -> 0 .. MaxNodes]
  /\ root \in RootPages
  /\ rootNode \in 0 .. made
  /\ freed \in SUBSET PageId
  /\ calls \in Nat
  /\ stack \in Seq(Frame)
  /\ fault \in BOOLEAN

\* An inode of a branch names a page, and has its first key if it has one.
NamesPage(x) == x.pgid \in PageId /\ FirstKey(x.pgid) \in {NoKey, x.key}

\* What branches and nodes know of pages is true of the pages.
PagesKnown ==
  /\ \A n \in Nodes : \A i \in DOMAIN inodes[n] :
       IF node[n].leaf THEN inodes[n][i].pgid = 0 ELSE NamesPage(inodes[n][i])
  /\ \A n \in Nodes : node[n].pgid # 0 => node[n].first = FirstKey(node[n].pgid)

\* Nodes are linked to nodes that exist, the others hold nothing, and a page is not
\* freed before it was read.
LinksInside ==
  /\ \A n \in Nodes :
       node[n].parent \in 0 .. made /\ node[n].parent # n /\ Children(n) \subseteq Nodes
  /\ \A n \in NodeId \ Nodes : inodes[n] = <<>>
  /\ \A p \in freed : nodeCache[p] # 0

\* A frame of spill is about nodes that exist.
FrameInside(frame) ==
  frame.node \in Nodes /\ \A i \in DOMAIN frame.rest : frame.rest[i] \in Nodes

\* Call k of the calls in s has child c before it: in its loop, or as the next call.
Awaits(s, k, c) ==
  \/ \E i \in DOMAIN s[k].rest : s[k].rest[i] = c
  \/ k < Len(s) /\ s[k + 1].node = c

\* A child of a node whose spill runs still has a page only if its own spill is to come
\* or runs: why no child with a page is left when the list of children is cleared.
Pending ==
  /\ \A k \in DOMAIN stack : FrameInside(stack[k])
  /\ \A k \in DOMAIN stack : \A c \in Children(stack[k].node) :
       node[c].pgid = 0 \/ Awaits(stack, k, c)

TreeInv == TreeTypeOK /\ PagesKnown /\ LinksInside /\ TreeLinked /\ Pending

-----------------------------------------------------------------------------
LEMMA PageFacts ==
  ASSUME NEW p \in PageId
  PROVE  /\ PageAt[p].leaf \in BOOLEAN
         /\ PageAt[p].inodes \in Seq(Inode)
         /\ FirstKey(p) \in Key \cup {NoKey}
         /\ p # 0
<1>1. PageSound(p) /\ p # 0
  BY NodeTreeAssumption
<1>2. PageAt[p].leaf \in BOOLEAN /\ PageAt[p].inodes \in Seq(Inode)
  BY <1>1 DEF PageSound
<1>3. CASE PageAt[p].inodes = <<>>
  BY <1>1, <1>2, <1>3 DEF FirstKey
<1>4. CASE PageAt[p].inodes # <<>>
  <2>1. PageAt[p].inodes[1] \in Inode
    BY SMTT(40), <1>2, <1>4
  <2> QED  BY <1>1, <1>2, <1>4, <2>1 DEF FirstKey, Inode
<1> QED  BY <1>3, <1>4

LEMMA PageInodes ==
  ASSUME NEW p \in PageId, NEW i \in DOMAIN PageAt[p].inodes
  PROVE  IF PageAt[p].leaf THEN PageAt[p].inodes[i].pgid = 0
         ELSE NamesPage(PageAt[p].inodes[i])
BY NodeTreeAssumption DEF PageSound, NamesPage

LEMMA Appended ==
  ASSUME NEW S, NEW s \in Seq(S), NEW x
  PROVE  /\ DOMAIN s = 1 .. Len(s) /\ Len(s) \in Nat
         /\ DOMAIN Append(s, x) = 1 .. Len(s) + 1
         /\ \A k \in DOMAIN s : k \in DOMAIN Append(s, x) /\ Append(s, x)[k] = s[k]
         /\ Append(s, x)[Len(s) + 1] = x
<1>1. s \in Seq(S \cup {x})
  OBVIOUS
<1> QED  BY <1>1

LEMMA TreeInitInv == TreeInit => TreeInv
<1> SUFFICES ASSUME TreeInit PROVE TreeInv
  OBVIOUS
<1>1. made = 0 /\ Nodes = {}
  BY DEF TreeInit, Nodes
<1>2. NewNode(0, 0, FALSE) \in NodeRecord
  BY NodeTreeAssumption DEF NewNode, NodeRecord
<1>3. TreeTypeOK
  <2>1. node \in [NodeId -> NodeRecord]
    BY <1>2 DEF TreeInit
  <2>2. inodes \in [NodeId -> Seq(Inode)] /\ stack \in Seq(Frame) /\ calls \in Nat
    BY DEF TreeInit
  <2>3. nodeCache \in [PageId -> 0 .. MaxNodes]
    BY NodeTreeAssumption DEF TreeInit
  <2>4. made \in 0 .. MaxNodes /\ rootNode \in 0 .. made
    BY NodeTreeAssumption DEF TreeInit
  <2>5. root \in RootPages /\ freed \in SUBSET PageId /\ fault \in BOOLEAN
    BY DEF TreeInit
  <2> QED  BY <2>1, <2>2, <2>3, <2>4, <2>5 DEF TreeTypeOK
<1>4. PagesKnown /\ TreeLinked /\ LinksInside /\ Pending
  BY <1>1 DEF PagesKnown, TreeLinked, LinksInside, Pending, TreeInit
<1> QED  BY <1>3, <1>4 DEF TreeInv

\* The node that reads a page is linked to its parent alone.
LEMMA MaterializeStep ==
  ASSUME TreeInv, Idle, NEW pg \in PageId, nodeCache[pg] = 0,
         NEW parent \in 0 .. made,
         Materialize(pg, parent,
           IF parent = 0 THEN node
           ELSE [node EXCEPT ![parent].children = Append(@, made + 1)]),
         rootNode' \in 0 .. made + 1
  PROVE  TreeInv'
<1> DEFINE m == made + 1
           rec == [NewNode(pg, parent, PageAt[pg].leaf) EXCEPT !.first = FirstKey(pg)]
           links == IF parent = 0 THEN node
                    ELSE [node EXCEPT ![parent].children = Append(@, m)]
<1> USE DEF TreeInv
<1>1. /\ made \in Nat /\ made' = m /\ m \in NodeId /\ m \notin Nodes
      /\ Nodes' = Nodes \cup {m} /\ Nodes \subseteq NodeId
  BY SMTT(40), NodeTreeAssumption DEF TreeTypeOK, Materialize, Nodes, NodeId
<1>2. /\ node' = [links EXCEPT ![m] = rec]
      /\ inodes' = [inodes EXCEPT ![m] = PageAt[pg].inodes]
      /\ nodeCache' = [nodeCache EXCEPT ![pg] = m]
      /\ UNCHANGED <<root, freed, calls, stack, fault>> /\ stack = <<>>
  BY DEF Materialize, Idle
<1>3. parent # 0 => parent \in Nodes
  BY <1>1 DEF Nodes
<1>4. rec \in NodeRecord
  <2>1. NewNode(pg, parent, PageAt[pg].leaf) \in NodeRecord
    <3>1. PageAt[pg].leaf \in BOOLEAN /\ <<>> \in Seq(NodeId)
      BY PageFacts
    <3>2. parent \in 0 .. MaxNodes
      BY NodeTreeAssumption DEF TreeTypeOK
    <3> QED  BY <3>1, <3>2 DEF NewNode, NodeRecord
  <2> QED  BY <2>1, PageFacts DEF NodeRecord
<1>5. /\ rec.pgid = pg /\ rec.parent = parent /\ rec.children = <<>>
      /\ rec.first = FirstKey(pg) /\ rec.leaf = PageAt[pg].leaf
  BY DEF NewNode
<1>6. links \in [NodeId -> NodeRecord]
  <2>1. CASE parent = 0
    BY <2>1 DEF TreeTypeOK
  <2>2. CASE parent # 0
    <3>1. node[parent] \in NodeRecord
      BY <1>1, <1>3, <2>2 DEF TreeTypeOK
    <3>2. Append(node[parent].children, m) \in Seq(NodeId)
      BY <1>1, <3>1 DEF NodeRecord
    <3>3. [node[parent] EXCEPT !.children = Append(@, m)] \in NodeRecord
      BY <3>1, <3>2 DEF NodeRecord
    <3> QED  BY <2>2, <3>3 DEF TreeTypeOK
  <2> QED  BY <2>1, <2>2
<1>7. node' \in [NodeId -> NodeRecord] /\ node'[m] = rec
  BY <1>1, <1>2, <1>4, <1>6
<1>8. ASSUME NEW n \in Nodes
      PROVE  /\ node'[n].leaf = node[n].leaf /\ node'[n].pgid = node[n].pgid
             /\ node'[n].parent = node[n].parent /\ node'[n].first = node[n].first
             /\ node'[n].children = IF n = parent THEN Append(node[n].children, m)
                                    ELSE node[n].children
             /\ inodes'[n] = inodes[n]
  <2>1. n # m /\ n # 0 /\ node'[n] = links[n] /\ inodes'[n] = inodes[n] /\ n \in NodeId
    <3>1. n # m /\ n # 0 /\ n \in NodeId
      BY <1>1 DEF Nodes
    <3> HIDE DEF m, rec, links
    <3>2. node'[n] = links[n]
      BY <1>2, <1>6, <3>1
    <3>3. inodes'[n] = inodes[n]
      BY <1>2, <3>1 DEF TreeTypeOK
    <3> QED  BY <3>1, <3>2, <3>3
  <2>2. node[n] \in NodeRecord
    BY <2>1 DEF TreeTypeOK
  <2>3. CASE n # parent
    <3>1. links[n] = node[n]
      BY <2>1, <2>3 DEF TreeTypeOK
    <3> QED  BY <2>1, <2>3, <3>1
  <2>4. CASE n = parent
    <3>1. node'[n] = [node[n] EXCEPT !.children = Append(@, m)]
      BY <2>1, <2>4 DEF TreeTypeOK
    <3> QED  BY <2>1, <2>2, <2>4, <3>1 DEF NodeRecord
  <2> QED  BY <2>3, <2>4
<1>9. inodes'[m] = PageAt[pg].inodes
  BY <1>1, <1>2 DEF TreeTypeOK
<1> HIDE DEF rec, links, m
<1>10. \A n \in Nodes : node[n].children \in Seq(Nodes) /\ node[n].parent \in 0 .. made
  <2> SUFFICES ASSUME NEW n \in Nodes PROVE node[n].children \in Seq(Nodes)
    BY DEF LinksInside
  <2>1. node[n].children \in Seq(NodeId)
    BY <1>1 DEF TreeTypeOK, NodeRecord
  <2>2. \A i \in DOMAIN node[n].children : node[n].children[i] \in Nodes
    BY DEF LinksInside, Children
  <2> QED  BY <2>1, <2>2
<1>11. TreeTypeOK'
  <2>1. inodes' \in [NodeId -> Seq(Inode)]
    BY <1>2, PageFacts DEF TreeTypeOK
  <2>2. nodeCache' \in [PageId -> 0 .. MaxNodes]
    BY SMTT(40), <1>1, <1>2 DEF TreeTypeOK, NodeId
  <2>3. stack' \in Seq(Frame) /\ calls' \in Nat
    BY <1>2 DEF TreeTypeOK
  <2>4. made' \in 0 .. MaxNodes /\ rootNode' \in 0 .. made'
    BY SMTT(40), <1>1 DEF NodeId, m
  <2> QED  BY <1>2, <1>7, <2>1, <2>2, <2>3, <2>4 DEF TreeTypeOK
<1>12. PagesKnown'
  <2>1. ASSUME NEW n \in Nodes', NEW i \in DOMAIN inodes'[n]
        PROVE  IF node'[n].leaf THEN inodes'[n][i].pgid = 0 ELSE NamesPage(inodes'[n][i])
    <3>1. CASE n = m
      BY <1>5, <1>7, <1>9, <2>1, <3>1, PageInodes
    <3>2. CASE n \in Nodes
      BY <1>8, <2>1, <3>2 DEF PagesKnown
    <3> QED  BY <1>1, <3>1, <3>2
  <2>2. ASSUME NEW n \in Nodes', node'[n].pgid # 0 PROVE node'[n].first = FirstKey(node'[n].pgid)
    <3>1. CASE n = m
      BY <1>5, <1>7, <3>1
    <3>2. CASE n \in Nodes
      BY <1>8, <2>2, <3>2 DEF PagesKnown
    <3> QED  BY <1>1, <3>1, <3>2
  <2> QED  BY <2>1, <2>2 DEF PagesKnown, FirstKey, NamesPage
<1>13. LinksInside'
  <2>1. ASSUME NEW n \in Nodes'
        PROVE  node'[n].parent \in 0 .. made' /\ node'[n].parent # n /\ Children(n)' \subseteq Nodes'
    <3>1. CASE n = m
      <4>1. node'[n].parent = parent /\ node'[n].children = <<>> /\ parent \in 0 .. made
        BY <1>5, <1>7, <3>1
      <4> QED  BY <1>1, <3>1, <4>1 DEF Children, m
    <3>2. CASE n \in Nodes
      <4>1. node[n].children \in Seq(Nodes) /\ node[n].parent \in 0 .. made
        BY <1>10, <3>2
      <4>2. node'[n].parent \in 0 .. made' /\ node'[n].parent # n
        BY <1>1, <1>8, <3>2, <4>1 DEF TreeTypeOK, LinksInside, m
      <4>3. \A i \in DOMAIN node'[n].children : node'[n].children[i] \in Nodes \cup {m}
        <5>1. CASE n = parent
          <6>1. node'[n].children = Append(node[n].children, m)
            BY <1>8, <3>2, <5>1
          <6> QED  BY <4>1, <6>1
        <5>2. CASE n # parent
          BY <1>8, <3>2, <4>1, <5>2
        <5> QED  BY <5>1, <5>2
      <4> QED  BY <1>1, <4>2, <4>3 DEF Children
    <3> QED  BY <1>1, <3>1, <3>2
  <2>2. ASSUME NEW n \in NodeId \ Nodes' PROVE inodes'[n] = <<>>
    BY <1>1, <1>2 DEF LinksInside, TreeTypeOK
  <2>3. ASSUME NEW p \in freed' PROVE nodeCache'[p] # 0
    <3>1. p \in PageId /\ nodeCache[p] # 0 /\ freed' = freed
      BY <1>2, <2>3 DEF LinksInside, TreeTypeOK
    <3>2. m # 0
      BY <1>1 DEF NodeId
    <3> QED  BY <1>2, <3>1, <3>2 DEF TreeTypeOK
  <2> QED  BY <2>1, <2>2, <2>3 DEF LinksInside
<1>14. TreeLinked'
  <2>1. ASSUME NEW n \in Nodes', NEW i \in DOMAIN node'[n].children, NEW j \in DOMAIN node'[n].children
        PROVE  /\ node'[node'[n].children[i]].parent = n
               /\ node'[n].children[i] = node'[n].children[j] => i = j
    <3>1. CASE n = m
      BY <1>5, <1>7, <2>1, <3>1
    <3>2. CASE n \in Nodes /\ n # parent
      BY SMTT(40), <1>8, <1>10, <2>1, <3>2 DEF TreeLinked
    <3>3. CASE n \in Nodes /\ n = parent
      <4> DEFINE c == node[n].children
      <4>1. c \in Seq(Nodes) /\ node'[n].children = Append(c, m)
        BY <1>8, <1>10, <3>3
      <4>2. \A k, l \in 1 .. Len(c) :
              c[k] \in Nodes /\ node'[c[k]].parent = n /\ (c[k] = c[l] => k = l)
        <5> SUFFICES ASSUME NEW k \in 1 .. Len(c), NEW l \in 1 .. Len(c)
                     PROVE  c[k] \in Nodes /\ node'[c[k]].parent = n /\ (c[k] = c[l] => k = l)
          OBVIOUS
        <5>1. k \in DOMAIN c /\ l \in DOMAIN c /\ c[k] \in Nodes
          BY SMTT(40), <4>1
        <5>2. node[c[k]].parent = n /\ (c[k] = c[l] => k = l)
          BY <3>3, <5>1 DEF TreeLinked
        <5> QED  BY <1>8, <5>1, <5>2
      <4>3. node'[m].parent = n
        BY <1>5, <1>7, <3>3
      <4> HIDE DEF c
      <4>4. \A k \in 1 .. Len(c) + 1 : Append(c, m)[k] = IF k = Len(c) + 1 THEN m ELSE c[k]
        BY <4>1
      <4>5. i \in 1 .. Len(c) + 1 /\ j \in 1 .. Len(c) + 1 /\ Len(c) \in Nat
        BY <2>1, <4>1
      <4> QED  BY <1>1, <4>1, <4>2, <4>3, <4>4, <4>5
    <3> QED  BY <1>1, <3>1, <3>2, <3>3
  <2>2. ASSUME NEW n \in Nodes', node'[n].parent # 0, n \notin Children(node[n].parent)'
        PROVE  node'[n].pgid = 0 /\ node'[node'[n].parent].pgid = 0
    <3>1. n # m
      <4> SUFFICES ASSUME n = m PROVE FALSE
        OBVIOUS
      <4>1. node'[n].parent = parent /\ parent \in Nodes
        BY <1>3, <1>5, <1>7, <2>2
      <4>2. node'[parent].children = Append(node[parent].children, m)
            /\ node[parent].children \in Seq(Nodes)
        BY <1>8, <1>10, <4>1
      <4>3. m = node'[parent].children[Len(node[parent].children) + 1]
            /\ Len(node[parent].children) + 1 \in DOMAIN node'[parent].children
        BY <1>1, <4>2
      <4> QED  BY <2>2, <4>1, <4>3 DEF Children
    <3> DEFINE q == node[n].parent
    <3>2. n \in Nodes /\ q \in Nodes /\ node'[n].parent = q /\ q # 0
      BY <1>1, <1>8, <1>10, <2>2, <3>1 DEF Nodes
    <3>3. n \notin Children(q)
      <4> SUFFICES ASSUME n \in Children(q) PROVE FALSE
        OBVIOUS
      <4>1. PICK i \in DOMAIN node[q].children : n = node[q].children[i]
        BY DEF Children
      <4>2. i \in DOMAIN node'[q].children /\ node'[q].children[i] = n
        <5>1. node[q].children \in Seq(Nodes)
          BY <1>10, <3>2
        <5>2. CASE q = parent
          <6>1. node'[q].children = Append(node[q].children, m)
            BY <1>8, <3>2, <5>2
          <6> HIDE DEF q
          <6> QED  BY <4>1, <5>1, <6>1
        <5>3. CASE q # parent
          BY <1>8, <3>2, <4>1, <5>3
        <5> QED  BY <5>2, <5>3
      <4>3. n \in Children(node[n].parent)'
        BY <3>2, <4>2 DEF Children
      <4> QED  BY <2>2, <4>3
    <3>4. node[n].pgid = 0 /\ node[q].pgid = 0
      BY <3>2, <3>3 DEF TreeLinked
    <3> QED  BY <1>8, <3>2, <3>4
  <2>3. ASSUME NEW n \in Nodes', node'[n].pgid # 0
        PROVE  nodeCache'[node'[n].pgid] = n /\ node'[n].pgid \notin freed'
    <3>1. CASE n = m
      BY <1>2, <1>5, <1>7, <3>1 DEF TreeTypeOK, LinksInside
    <3>2. CASE n \in Nodes
      <4>1. node'[n].pgid = node[n].pgid /\ nodeCache[node[n].pgid] = n /\ n # 0
        BY <1>8, <2>3, <3>2 DEF TreeLinked, Nodes
      <4>2. node[n].pgid # pg
        BY <4>1
      <4>3. node[n].pgid \in PageId /\ node[n].pgid \notin freed
        <5>1. node[n] \in NodeRecord
          BY <1>1, <3>2 DEF TreeTypeOK
        <5> QED  BY <2>3, <3>2, <4>1, <5>1 DEF TreeLinked, NodeRecord
      <4>4. nodeCache'[node[n].pgid] = nodeCache[node[n].pgid]
        BY <1>2, <4>2, <4>3 DEF TreeTypeOK
      <4> QED  BY <1>2, <4>1, <4>3, <4>4
    <3> QED  BY <1>1, <3>1, <3>2
  <2> QED  BY <2>1, <2>2, <2>3 DEF TreeLinked
<1>15. Pending'
  BY <1>2 DEF Pending
<1> QED  BY <1>11, <1>12, <1>13, <1>14, <1>15

LEMMA SeqMonotone ==
  ASSUME NEW S, NEW T, S \subseteq T, NEW s \in Seq(S)
  PROVE  s \in Seq(T) /\ Len(s) \in Nat
<1>1. Len(s) \in Nat /\ s \in [1 .. Len(s) -> T]
  OBVIOUS
<1> QED  BY <1>1, SeqDef

LEMMA LeastNat ==
  ASSUME NEW T, T \subseteq Nat, T # {}
  PROVE  \E i \in T : \A j \in T : ~(j < i)
<1>1. PICK i \in T : \A j \in T : ~(<<j, i>> \in OpToRel(<, Nat))
  BY NatLessThanWellFounded, WFMin, Zenon
<1> QED  BY <1>1 DEF OpToRel

\* std::lower_bound finds the first element that is not less.
LEMMA LowerBoundIs ==
  ASSUME NEW s \in Seq(Inode), NEW key \in Key
  PROVE  /\ LowerBound(s, key) \in 1 .. Len(s) + 1
         /\ \A j \in 1 .. LowerBound(s, key) - 1 : Size(s[j].key) < Size(key)
         /\ LowerBound(s, key) <= Len(s) => Size(s[LowerBound(s, key)].key) >= Size(key)
<1> DEFINE Reaches(i) == i <= Len(s) => Size(s[i].key) >= Size(key)
           T == {i \in 1 .. Len(s) + 1 : Reaches(i)}
<1>1. Len(s) \in Nat /\ \A j \in 1 .. Len(s) : s[j] \in Inode
  OBVIOUS
<1>2. \A k \in Key : Size(k) \in Nat
  BY NodeTreeAssumption DEF Size
<1>3. \A j \in 1 .. Len(s) : Size(s[j].key) \in Nat
  BY <1>1, <1>2 DEF Inode
<1>4. T \subseteq Nat /\ T # {}
  <2>1. Len(s) + 1 \in T
    BY <1>1
  <2> QED  BY <1>1, <2>1
<1> HIDE DEF T
<1>6. PICK i \in T : \A j \in T : ~(j < i)
  BY <1>4, LeastNat
<1>7. i \in 1 .. Len(s) + 1 /\ Reaches(i)
  BY <1>6 DEF T
<1>8. ASSUME NEW j \in 1 .. i - 1 PROVE Size(s[j].key) < Size(key)
  <2>1. j \in 1 .. Len(s) /\ j < i
    BY <1>1, <1>7
  <2>2. j \notin T
    BY <1>6, <2>1
  <2>3. ~(Size(s[j].key) >= Size(key))
    BY <1>1, <2>1, <2>2 DEF T
  <2> QED  BY <1>2, <1>3, <2>1, <2>3
<1>9. \E k \in 1 .. Len(s) + 1 :
        /\ \A j \in 1 .. k - 1 : Size(s[j].key) < Size(key)
        /\ k <= Len(s) => Size(s[k].key) >= Size(key)
  BY <1>7, <1>8
<1> QED  BY <1>9 DEF LowerBound

\* A step that only changes what one node holds.
LEMMA InodesStep ==
  ASSUME TreeInv, Idle, CountCall, NEW n \in Nodes, NEW s \in Seq(Inode),
         \A i \in DOMAIN s : IF node[n].leaf THEN s[i].pgid = 0 ELSE NamesPage(s[i]),
         inodes' = [inodes EXCEPT ![n] = s],
         UNCHANGED <<made, node, nodeCache, root, rootNode, freed, stack, fault>>
  PROVE  TreeInv'
<1> USE DEF TreeInv
<1>1. Nodes' = Nodes /\ n \in NodeId
  BY NodeTreeAssumption DEF TreeTypeOK, Nodes, NodeId
<1>2. inodes' \in [NodeId -> Seq(Inode)]
      /\ \A m \in NodeId : inodes'[m] = IF m = n THEN s ELSE inodes[m]
  BY <1>1 DEF TreeTypeOK
<1>3. TreeTypeOK'
  <2>1. calls' \in Nat
    BY DEF CountCall, TreeTypeOK
  <2> QED  BY SMTT(40), <1>1, <1>2, <2>1 DEF TreeTypeOK
<1>4. PagesKnown'
  <2>1. ASSUME NEW m \in Nodes', NEW i \in DOMAIN inodes'[m]
        PROVE  IF node'[m].leaf THEN inodes'[m][i].pgid = 0 ELSE NamesPage(inodes'[m][i])
    <3>1. m \in NodeId
      BY <1>1, NodeTreeAssumption DEF TreeTypeOK, Nodes, NodeId
    <3>2. CASE m = n
      BY <1>1, <1>2, <2>1, <3>1, <3>2
    <3>3. CASE m # n
      BY <1>1, <1>2, <2>1, <3>1, <3>3 DEF PagesKnown
    <3> QED  BY <3>2, <3>3
  <2>2. ASSUME NEW m \in Nodes', node'[m].pgid # 0 PROVE node'[m].first = FirstKey(node'[m].pgid)
    BY <1>1, <2>2 DEF PagesKnown
  <2> QED  BY <2>1, <2>2 DEF PagesKnown, FirstKey, NamesPage
<1>5. LinksInside'
  <2>1. ASSUME NEW m \in NodeId \ Nodes PROVE inodes'[m] = <<>>
    BY <1>1, <1>2 DEF LinksInside
  <2> QED  BY <1>1, <2>1 DEF LinksInside, Children
<1>6. TreeLinked'
  BY <1>1 DEF TreeLinked, Children
<1>7. Pending'
  BY DEF Pending, Idle
<1> QED  BY <1>3, <1>4, <1>5, <1>6, <1>7

LEMMA PutStep ==
  ASSUME TreeInv, NEW n \in Nodes, NEW old \in Key, NEW new \in Key, NEW value \in Value,
         Put(n, old, new, value)
  PROVE  TreeInv'
<1> DEFINE s == inodes[n]
           i == LowerBound(s, old)
           exist == i <= Len(s) /\ s[i].key = old
           entry == [key |-> new, value |-> value, pgid |-> 0]
           longer == [j \in 1 .. Len(s) + 1 |->
                        IF j < i THEN s[j] ELSE IF j = i THEN entry ELSE s[j - 1]]
           t == IF exist THEN [s EXCEPT ![i] = entry] ELSE longer
<1>1. inodes' = [inodes EXCEPT ![n] = t] /\ node[n].leaf /\ Idle /\ CountCall
      /\ UNCHANGED <<made, node, nodeCache, root, rootNode, freed, stack, fault>>
  BY DEF Put
<1>2. s \in Seq(Inode) /\ entry \in Inode /\ entry.pgid = 0
  <2>1. n \in NodeId
    BY NodeTreeAssumption DEF TreeInv, TreeTypeOK, Nodes, NodeId
  <2>2. s \in Seq(Inode)
    BY <2>1 DEF TreeInv, TreeTypeOK
  <2> QED  BY <2>2 DEF Inode
<1>3. \A j \in DOMAIN s : s[j].pgid = 0
  BY <1>1 DEF TreeInv, PagesKnown
<1>10. i \in 1 .. Len(s) + 1 /\ Len(s) \in Nat
  BY <1>2, LowerBoundIs
<1> HIDE DEF i, s, entry
<1>4. t \in Seq(Inode) /\ \A j \in DOMAIN t : t[j] = entry \/ \E k \in DOMAIN s : t[j] = s[k]
  <2>1. CASE exist
    <3>1. t = [s EXCEPT ![i] = entry]
      BY <2>1
    <3>2. i \in DOMAIN s
      BY <1>2, <1>10, <2>1
    <3> QED  BY <1>2, <3>1, <3>2
  <2>2. CASE ~exist
    <3>1. t = longer
      BY <2>2
    <3>2. ASSUME NEW j \in 1 .. Len(s) + 1
          PROVE  longer[j] = entry \/ \E k \in DOMAIN s : longer[j] = s[k]
      <4>1. CASE j = i
        BY <1>10, <4>1
      <4>2. CASE j < i
        BY <1>2, <1>10, <4>2
      <4>3. CASE j > i
        BY <1>2, <1>10, <4>3
      <4> QED  BY <1>10, <4>1, <4>2, <4>3
    <3>3. \A j \in 1 .. Len(s) + 1 : longer[j] \in Inode
      BY <1>2, <3>2
    <3>4. longer \in [1 .. Len(s) + 1 -> Inode]
      BY <3>3
    <3> HIDE DEF longer
    <3>5. Len(s) + 1 \in Nat
      BY <1>2
    <3>6. longer \in Seq(Inode) /\ DOMAIN longer = 1 .. Len(s) + 1
      BY <3>4, <3>5, SeqDef
    <3> QED  BY <3>1, <3>2, <3>6
  <2> QED  BY <2>1, <2>2
<1> HIDE DEF t
<1>5. \A j \in DOMAIN t : t[j].pgid = 0
  BY <1>2, <1>3, <1>4
<1> QED  BY <1>1, <1>4, <1>5, InodesStep

LEMMA RemoveStep ==
  ASSUME TreeInv, NEW n \in Nodes, NEW key \in Key, Remove(n, key)
  PROVE  TreeInv'
<1> DEFINE s == inodes[n]
           i == LowerBound(s, key)
           t == [j \in 1 .. Len(s) - 1 |-> IF j < i THEN s[j] ELSE s[j + 1]]
<1>1. n \in NodeId /\ s \in Seq(Inode)
  <2>1. n \in NodeId
    BY NodeTreeAssumption DEF TreeInv, TreeTypeOK, Nodes, NodeId
  <2> QED  BY <2>1 DEF TreeInv, TreeTypeOK
<1>2. i \in 1 .. Len(s) /\ Len(s) \in Nat
  BY <1>1, LowerBoundIs DEF Remove
<1>3. inodes' = [inodes EXCEPT ![n] = t] /\ Idle /\ CountCall
      /\ UNCHANGED <<made, node, nodeCache, root, rootNode, freed, stack, fault>>
  BY DEF Remove
<1>4. \A j \in DOMAIN s :
        IF node[n].leaf THEN s[j].pgid = 0 ELSE NamesPage(s[j])
  BY DEF TreeInv, PagesKnown
<1> HIDE DEF s, i
<1>5. t \in Seq(Inode) /\ \A j \in DOMAIN t : \E k \in DOMAIN s : t[j] = s[k]
  <2>1. ASSUME NEW j \in 1 .. Len(s) - 1 PROVE \E k \in DOMAIN s : t[j] = s[k]
    <3>1. CASE j < i
      BY <1>1, <1>2, <3>1
    <3>2. CASE ~(j < i)
      BY <1>1, <1>2, <3>2
    <3> QED  BY <3>1, <3>2
  <2>2. t \in [1 .. Len(s) - 1 -> Inode]
    BY <1>1, <2>1
  <2> HIDE DEF t
  <2>3. Len(s) - 1 \in Nat
    BY <1>2
  <2>4. t \in Seq(Inode) /\ DOMAIN t = 1 .. Len(s) - 1
    BY <2>2, <2>3, SeqDef
  <2> QED  BY <2>1, <2>4
<1> HIDE DEF t
<1>6. \A j \in DOMAIN t : IF node[n].leaf THEN t[j].pgid = 0 ELSE NamesPage(t[j])
  BY <1>4, <1>5
<1> QED  BY <1>3, <1>5, <1>6, InodesStep

LEMMA ChildAtStep ==
  ASSUME TreeInv, NEW p \in Nodes, NEW i, ChildAt(p, i)
  PROVE  TreeInv'
<1>1. Idle /\ ~node[p].leaf /\ i \in DOMAIN inodes[p] /\ nodeCache[inodes[p][i].pgid] = 0
      /\ Materialize(inodes[p][i].pgid, p, [node EXCEPT ![p].children = Append(@, made + 1)])
      /\ rootNode' = rootNode
  BY DEF ChildAt
<1>2. inodes[p][i].pgid \in PageId
  BY <1>1 DEF TreeInv, PagesKnown, NamesPage
<1>3. p \in 0 .. made /\ p # 0 /\ rootNode' \in 0 .. made + 1
  BY <1>1 DEF Nodes, TreeInv, TreeTypeOK
<1> QED  BY <1>1, <1>2, <1>3, MaterializeStep

LEMMA RootStep ==
  ASSUME TreeInv, Root
  PROVE  TreeInv'
<1>1. Idle /\ nodeCache[root] = 0 /\ Materialize(root, 0, node) /\ rootNode' = made + 1
  BY DEF Root
<1>2. root \in PageId /\ made \in Nat /\ 0 \in 0 .. made /\ rootNode' \in 0 .. made + 1
  <2>1. root \in RootPages /\ made \in Nat
    BY NodeTreeAssumption DEF TreeInv, TreeTypeOK
  <2> QED  BY <1>1, <2>1, NodeTreeAssumption
<1>3. Materialize(root, 0,
        IF 0 = 0 THEN node ELSE [node EXCEPT ![0].children = Append(@, made + 1)])
  BY <1>1
<1> QED  BY <1>1, <1>2, <1>3, MaterializeStep

\* A call of spill changes no node but the order of its children.
LEMMA CallStep ==
  ASSUME TreeInv, NEW n \in Nodes, NEW below \in Seq(Frame), Call(n, below),
         \A k \in DOMAIN below : FrameInside(below[k]),
         \A k \in DOMAIN below : \A c \in Children(below[k].node) :
           node[c].pgid = 0 \/ Awaits(below, k, c) \/ (k = Len(below) /\ c = n),
         calls' \in Nat, UNCHANGED <<made, inodes, nodeCache, root, rootNode, freed>>
  PROVE  TreeInv'
<1>1. n \in NodeId /\ Nodes' = Nodes /\ Nodes \subseteq NodeId
  BY NodeTreeAssumption DEF TreeInv, TreeTypeOK, Nodes, NodeId
<1>2. CASE fault' = TRUE /\ UNCHANGED <<node, stack>>
  <2>1. TreeTypeOK' /\ Pending'
    <3>1. UNCHANGED <<node, stack, made>>
      BY <1>2
    <3>2. Pending'
      BY SMTT(40), <3>1, <1>1 DEF TreeInv, Pending, FrameInside, Children
    <3> QED  BY <1>1, <1>2, <3>2 DEF TreeInv, TreeTypeOK
  <2>2. PagesKnown' /\ LinksInside' /\ TreeLinked'
    BY <1>1, <1>2 DEF TreeInv, PagesKnown, LinksInside, TreeLinked, Children, FirstKey, NamesPage
  <2> QED  BY <2>1, <2>2 DEF TreeInv
<1>3. CASE \E order \in [DOMAIN node[n].children -> Children(n)] :
             /\ Sorted(n, order)
             /\ node' = [node EXCEPT ![n].children = order]
             /\ stack' = Append(below, [node |-> n, rest |-> order])
             /\ fault' = fault
  <2> DEFINE c == node[n].children
  <2>1. PICK order \in [DOMAIN c -> Children(n)] :
          /\ {order[i] : i \in DOMAIN order} = Children(n)
          /\ \A i, j \in DOMAIN order : i < j => order[i] # order[j]
          /\ node' = [node EXCEPT ![n].children = order]
          /\ stack' = Append(below, [node |-> n, rest |-> order])
          /\ fault' = fault
    BY <1>3 DEF Sorted
  <2>2. Children(n) \subseteq Nodes /\ c \in Seq(NodeId) /\ node \in [NodeId -> NodeRecord]
    BY <1>1 DEF TreeInv, TreeTypeOK, LinksInside, NodeRecord
  <2>3. order \in Seq(Nodes) /\ order \in Seq(NodeId) /\ DOMAIN order = 1 .. Len(order)
        /\ Len(order) \in Nat /\ \A i \in DOMAIN order : order[i] \in Children(n)
    <3>1. DOMAIN c = 1 .. Len(c) /\ Len(c) \in Nat
      BY <2>2
    <3>2. order \in [1 .. Len(c) -> Nodes] /\ order \in [1 .. Len(c) -> NodeId]
      BY <1>1, <2>1, <2>2, <3>1
    <3>3. order \in Seq(Nodes) /\ order \in Seq(NodeId)
      BY SMTT(40), <3>1, <3>2, SeqDef
    <3> HIDE DEF c
    <3> QED  BY <2>1, <3>3
  <2>4. \A m \in NodeId :
          /\ node'[m].leaf = node[m].leaf /\ node'[m].pgid = node[m].pgid
          /\ node'[m].parent = node[m].parent /\ node'[m].first = node[m].first
          /\ node'[m].children = IF m = n THEN order ELSE node[m].children
    <3>1. \A m \in NodeId : node[m] \in NodeRecord
      BY <2>2
    <3>2. \A m \in NodeId : node'[m] = IF m = n THEN [node[m] EXCEPT !.children = order] ELSE node[m]
      BY <2>1, <2>2
    <3> QED  BY <3>1, <3>2 DEF NodeRecord
  <2>5. \A m \in NodeId : Children(m)' = Children(m)
    <3> SUFFICES ASSUME NEW m \in NodeId
                 PROVE  {node'[m].children[i] : i \in DOMAIN node'[m].children} = Children(m)
      BY DEF Children
    <3>1. CASE m = n
      BY <2>1, <2>4, <3>1
    <3>2. CASE m # n
      BY <2>4, <3>2 DEF Children
    <3> QED  BY <3>1, <3>2
  <2>6. \A m \in Nodes : node[m].parent \in 0 .. made /\ node[m].parent # m /\ Children(m) \subseteq Nodes
    BY DEF TreeInv, LinksInside
  <2> DEFINE frame == [node |-> n, rest |-> order]
  <2>7. frame \in Frame /\ frame.node = n /\ frame.rest = order
    BY <1>1, <2>3 DEF Frame
  <2> HIDE DEF c, frame
  <2>8. /\ DOMAIN stack' = 1 .. Len(below) + 1 /\ Len(stack') = Len(below) + 1
        /\ Len(below) \in Nat /\ DOMAIN below = 1 .. Len(below) /\ stack' \in Seq(Frame)
        /\ \A k \in DOMAIN below : stack'[k] = below[k]
        /\ stack'[Len(below) + 1] = frame
    <3>1. stack' = Append(below, frame)
      BY <2>1 DEF frame
    <3> QED  BY <2>7, <3>1
  <2>9. TreeTypeOK'
    <3>1. node' \in [NodeId -> NodeRecord]
      <4>1. node[n] \in NodeRecord
        BY <1>1, <2>2
      <4>2. [node[n] EXCEPT !.children = order] \in NodeRecord
        BY SMTT(40), <2>3, <4>1 DEF NodeRecord
      <4> QED  BY <2>1, <2>2, <4>2
    <3> QED  BY <2>1, <2>8, <3>1 DEF TreeInv, TreeTypeOK
  <2>10. PagesKnown'
    BY <1>1, <2>4 DEF TreeInv, PagesKnown, FirstKey, NamesPage
  <2>11. LinksInside'
    BY <1>1, <2>4, <2>5 DEF TreeInv, LinksInside
  <2>12. TreeLinked'
    <3>1. ASSUME NEW m \in Nodes, NEW i \in DOMAIN node'[m].children, NEW j \in DOMAIN node'[m].children
          PROVE  /\ node'[node'[m].children[i]].parent = m
                 /\ node'[m].children[i] = node'[m].children[j] => i = j
      <4>1. \A k \in Children(m) : k \in NodeId /\ node[k].parent = m
        BY <1>1 DEF TreeInv, TreeLinked, LinksInside, Children
      <4>2. CASE m = n
        <5>1. order[i] \in Children(n) /\ node'[m].children = order /\ i \in DOMAIN order /\ j \in DOMAIN order
          BY <1>1, <2>3, <2>4, <3>1, <4>2
        <5>2. order[i] = order[j] => i = j
          <6>1. i \in 1 .. Len(order) /\ j \in 1 .. Len(order)
            BY <2>3, <5>1
          <6>2. i < j \/ j < i \/ i = j
            BY <2>3, <6>1
          <6>3. (i < j => order[i] # order[j]) /\ (j < i => order[j] # order[i])
            BY <2>1, <5>1
          <6> QED  BY <6>2, <6>3
        <5> QED  BY <2>4, <4>1, <4>2, <5>1, <5>2
      <4>3. CASE m # n
        <5>1. node'[m].children = node[m].children /\ i \in DOMAIN node[m].children /\ j \in DOMAIN node[m].children
          BY <1>1, <2>4, <3>1, <4>3
        <5>2. node[m].children[i] \in Children(m)
          BY <5>1 DEF Children
        <5>3. node[m].children[i] = node[m].children[j] => i = j
          BY <5>1 DEF TreeInv, TreeLinked
        <5> QED  BY <2>4, <4>1, <5>1, <5>2, <5>3
      <4> QED  BY <4>2, <4>3
    <3>2. ASSUME NEW m \in Nodes, node'[m].parent # 0, m \notin Children(node[m].parent)'
          PROVE  node'[m].pgid = 0 /\ node'[node'[m].parent].pgid = 0
      <4> DEFINE q == node[m].parent
      <4>1. m \in NodeId /\ node'[m].parent = q
        BY <1>1, <2>4
      <4>2. q \in NodeId
        BY <1>1, <2>6, <3>2, <4>1 DEF Nodes
      <4> HIDE DEF q
      <4>3. m \notin {node'[q].children[i] : i \in DOMAIN node'[q].children}
        BY <3>2, <4>1 DEF Children
      <4>4. m \notin Children(q)
        BY <2>5, <4>2, <4>3 DEF Children
      <4>5. node[m].pgid = 0 /\ node[q].pgid = 0
        BY <3>2, <4>1, <4>4 DEF q, TreeInv, TreeLinked
      <4> QED  BY <2>4, <4>1, <4>2, <4>5
    <3>3. ASSUME NEW m \in Nodes, node'[m].pgid # 0
          PROVE  nodeCache'[node'[m].pgid] = m /\ node'[m].pgid \notin freed'
      BY <1>1, <2>4, <3>3 DEF TreeInv, TreeLinked
    <3> QED  BY <1>1, <3>1, <3>2, <3>3 DEF TreeLinked
  <2>13. Pending'
    <3>1. ASSUME NEW k \in DOMAIN stack' PROVE FrameInside(stack'[k])
      <4>1. CASE k \in DOMAIN below
        BY <2>8, <4>1
      <4>2. CASE k \notin DOMAIN below
        <5>1. stack'[k] = frame
          BY <2>8, <4>2
        <5> QED  BY <2>2, <2>3, <2>7, <5>1 DEF FrameInside
      <4> QED  BY <4>1, <4>2
    <3>2. ASSUME NEW k \in DOMAIN stack', 
                 NEW x \in {node'[stack'[k].node].children[i] : i \in DOMAIN node'[stack'[k].node].children}
          PROVE  node'[x].pgid = 0 \/ Awaits(stack', k, x)
      <4>1. stack'[k].node \in Nodes /\ stack'[k].node \in NodeId
        BY <1>1, <3>1 DEF FrameInside
      <4>2. x \in Children(stack'[k].node) /\ x \in NodeId
        <5>1. \A m \in NodeId : {node'[m].children[i] : i \in DOMAIN node'[m].children} = Children(m)
          BY <2>5 DEF Children
        <5>2. x \in Children(stack'[k].node)
          BY <4>1, <5>1
        <5> QED  BY <1>1, <2>6, <4>1, <5>2
      <4>3. node'[x].pgid = node[x].pgid
        BY <2>4, <4>2
      <4>4. CASE k \in DOMAIN below
        <5>1. stack'[k] = below[k] /\ k \in Nat /\ k < Len(stack')
          BY <2>8, <4>4
        <5>2. node[x].pgid = 0 \/ Awaits(below, k, x) \/ (k = Len(below) /\ x = n)
          BY <4>2, <4>4, <5>1
        <5>3. CASE Awaits(below, k, x)
          <6>1. k < Len(below) => stack'[k + 1] = below[k + 1]
            BY <2>8, <4>4
          <6> QED  BY <5>1, <5>3, <6>1 DEF Awaits
        <5>4. CASE k = Len(below) /\ x = n
          BY <2>7, <2>8, <5>1, <5>4 DEF Awaits
        <5> QED  BY <4>3, <5>2, <5>3, <5>4
      <4>5. CASE k \notin DOMAIN below
        <5>1. stack'[k] = frame
          BY <2>8, <4>5
        <5>2. x \in Children(n)
          BY <2>7, <4>2, <5>1
        <5>3. \E i \in DOMAIN order : order[i] = x
          BY <2>1, <5>2
        <5> QED  BY <2>7, <5>1, <5>3 DEF Awaits
      <4> QED  BY <4>4, <4>5
    <3> QED  BY <1>1, <3>1, <3>2 DEF Pending, FrameInside, Children
  <2> QED  BY <2>9, <2>10, <2>11, <2>12, <2>13 DEF TreeInv
<1> QED  BY <1>2, <1>3 DEF Call

LEMMA SpillRootStep ==
  ASSUME TreeInv, SpillRoot
  PROVE  TreeInv'
<1>1. /\ Call(rootNode, <<>>) /\ rootNode # 0 /\ calls' = calls + 1
      /\ UNCHANGED <<made, inodes, nodeCache, root, rootNode, freed>>
  BY DEF SpillRoot, CountCall
<1>2. rootNode \in Nodes /\ calls' \in Nat
  BY <1>1 DEF TreeInv, TreeTypeOK, Nodes
<1>3. <<>> \in Seq(Frame) /\ DOMAIN <<>> = {}
  OBVIOUS
<1> QED  BY <1>1, <1>2, <1>3, CallStep

\* The next child leaves the rest of the loop, and its call comes next on the stack.
LEMMA SpillChildStep ==
  ASSUME TreeInv, SpillChild
  PROVE  TreeInv'
<1> DEFINE last == Len(stack)
           rest == stack[last].rest
           below == [stack EXCEPT ![last].rest = Tail(@)]
<1>1. /\ stack # <<>> /\ rest # <<>> /\ Call(Head(rest), below)
      /\ UNCHANGED <<made, inodes, nodeCache, root, rootNode, freed, calls>>
  BY DEF SpillChild, Top
<1>2. /\ stack \in Seq(Frame) /\ last \in Nat /\ last \in DOMAIN stack /\ DOMAIN stack = 1 .. last
      /\ calls' \in Nat /\ stack[last] \in Frame
  BY <1>1 DEF TreeInv, TreeTypeOK
<1>3. rest \in Seq(NodeId) /\ 1 \in DOMAIN rest /\ Head(rest) = rest[1]
  <2>1. rest \in Seq(NodeId)
    BY <1>2 DEF Frame
  <2> HIDE DEF rest
  <2> QED  BY <1>1, <2>1, EmptySeq
<1>4. \A k \in DOMAIN stack : FrameInside(stack[k])
  BY DEF TreeInv, Pending
<1>5. Head(rest) \in Nodes
  BY <1>2, <1>3, <1>4 DEF FrameInside
<1>6. /\ Tail(rest) \in Seq(NodeId)
      /\ \A i \in DOMAIN Tail(rest) : i + 1 \in DOMAIN rest /\ Tail(rest)[i] = rest[i + 1]
      /\ \A i \in DOMAIN rest : i # 1 => i - 1 \in DOMAIN Tail(rest) /\ Tail(rest)[i - 1] = rest[i]
  <2> HIDE DEF rest
  <2> QED  BY <1>1, <1>3
<1>7. /\ below \in Seq(Frame) /\ DOMAIN below = DOMAIN stack /\ Len(below) = last
      /\ \A k \in DOMAIN stack : /\ below[k].node = stack[k].node
                                 /\ below[k].rest = IF k = last THEN Tail(rest) ELSE stack[k].rest
  <2> DEFINE frame == [stack[last] EXCEPT !.rest = Tail(rest)]
  <2>1. frame \in Frame /\ frame.node = stack[last].node /\ frame.rest = Tail(rest)
    BY <1>2, <1>6 DEF Frame
  <2>2. below = [stack EXCEPT ![last] = frame]
    OBVIOUS
  <2> HIDE DEF frame, below
  <2>3. below \in Seq(Frame) /\ DOMAIN below = DOMAIN stack /\ Len(below) = last
        /\ \A k \in DOMAIN stack : below[k] = IF k = last THEN frame ELSE stack[k]
    BY <1>2, <2>1, <2>2
  <2> QED  BY <2>1, <2>3
<1> HIDE DEF below
<1>8. ASSUME NEW k \in DOMAIN below PROVE FrameInside(below[k])
  BY ZenonT(60), <1>2, <1>4, <1>6, <1>7 DEF FrameInside
<1>9. ASSUME NEW k \in DOMAIN below, NEW c \in Children(below[k].node)
      PROVE  node[c].pgid = 0 \/ Awaits(below, k, c) \/ (k = Len(below) /\ c = Head(rest))
  <2>1. node[c].pgid = 0 \/ Awaits(stack, k, c)
    BY <1>7 DEF TreeInv, Pending
  <2>2. CASE Awaits(stack, k, c) /\ k # last
    <3>1. k \in 1 .. last /\ (k < last => k + 1 \in DOMAIN stack)
      BY <1>2, <1>7
    <3> QED  BY <1>7, <2>2, <3>1 DEF Awaits
  <2>3. CASE Awaits(stack, k, c) /\ k = last
    <3>1. PICK i \in DOMAIN rest : rest[i] = c
      BY <1>2, <2>3 DEF Awaits
    <3>2. CASE i = 1
      BY <1>3, <1>7, <2>3, <3>1, <3>2
    <3>3. CASE i # 1
      <4>1. i - 1 \in DOMAIN below[k].rest /\ below[k].rest[i - 1] = c
        BY <1>6, <1>7, <2>3, <3>1, <3>3
      <4> QED  BY <4>1 DEF Awaits
    <3> QED  BY <3>2, <3>3
  <2> QED  BY <2>1, <2>2, <2>3
<1> HIDE DEF rest, last
<1> QED  BY <1>1, <1>2, <1>5, <1>7, <1>8, <1>9, CallStep

\* The last inode before part k.
Before(ends, k) == IF k = 1 THEN 0 ELSE ends[k - 1]

\* The inodes of part k are those up to its cut.
LEMMA PartFacts ==
  ASSUME NEW n, inodes[n] \in Seq(Inode), NEW ends \in Seq(Nat), IsSplit(n, ends),
         NEW k \in 1 .. Len(ends)
  PROVE  /\ Before(ends, k) \in Nat /\ Before(ends, k) <= ends[k] /\ ends[k] <= Len(inodes[n])
         /\ Part(inodes[n], ends, k) \in Seq(Inode)
         /\ Len(Part(inodes[n], ends, k)) = ends[k] - Before(ends, k)
         /\ \A j \in DOMAIN Part(inodes[n], ends, k) :
              /\ Part(inodes[n], ends, k)[j] = inodes[n][Before(ends, k) + j]
              /\ Before(ends, k) + j \in DOMAIN inodes[n]
<1> DEFINE s == inodes[n]
           last == Len(ends)
           begin == Before(ends, k)
<1>10. begin = IF k = 1 THEN 0 ELSE ends[k - 1]
  BY DEF Before
<1> HIDE DEF begin
<1>1. last \in Nat /\ Len(s) \in Nat /\ MinKeys \in Nat
      /\ \A l \in 1 .. last : ends[l] \in Nat
  BY NodeTreeAssumption
<1>2. /\ ends[last] = Len(s)
      /\ \A l \in 1 .. last - 1 :
           /\ (IF l = 1 THEN 0 ELSE ends[l - 1]) + MinKeys <= ends[l]
           /\ ends[l] + MinKeys <= Len(s)
  BY DEF IsSplit
<1>3. begin \in Nat /\ ends[k] \in Nat /\ begin <= ends[k] /\ ends[k] <= Len(s)
  <2>1. CASE k = last /\ k = 1
    BY <1>10, <1>1, <1>2, <2>1
  <2>2. CASE k = last /\ k # 1
    <3>1. k - 1 \in 1 .. last - 1 /\ begin = ends[k - 1]
      BY <1>10, <1>1, <2>2
    <3> QED  BY SMTT(40), <1>1, <1>2, <2>2, <3>1
  <2>3. CASE k < last
    <3>1. k \in 1 .. last - 1
      BY <1>1, <2>3
    <3>2. begin \in Nat
      BY <1>10, <1>1, <3>1
    <3>3. begin + MinKeys <= ends[k] /\ ends[k] + MinKeys <= Len(s)
      BY <1>2, <1>10, <3>1
    <3>4. ends[k] \in Nat
      BY <1>1, <3>1
    <3> HIDE DEF s
    <3> QED  BY <1>1, <3>2, <3>3, <3>4
  <2> QED  BY <1>1, <2>1, <2>2, <2>3
<1>4. Part(s, ends, k) = SubSeq(s, begin + 1, ends[k])
  <2>1. begin + 1 = IF k = 1 THEN 1 ELSE ends[k - 1] + 1
    BY <1>10
  <2> QED  BY <2>1 DEF Part
<1>5. s \in Seq(Inode) /\ Len(s) \in Nat
  OBVIOUS
<1> HIDE DEF s
<1> DEFINE e == ends[k]
           first == begin + 1
           t == SubSeq(s, first, e)
<1>9. first = begin + 1 /\ begin \in Nat /\ e \in Nat /\ begin <= e /\ e <= Len(s)
  BY <1>3 DEF s
<1> HIDE DEF e, first
<1>6. t \in Seq(Inode) /\ Len(t) = e - begin
      /\ \A j \in DOMAIN t : t[j] = s[begin + j] /\ begin + j \in DOMAIN s
  <2>1. first \in Int /\ e \in Int /\ \A j \in first .. e : s[j] \in Inode
    BY <1>5, <1>9
  <2>2. e - first + 1 = e - begin /\ (IF first <= e THEN e - first + 1 ELSE 0) = e - begin
    BY <1>9
  <2>3. \A j \in 1 .. e - begin : first + j - 1 = begin + j /\ begin + j \in 1 .. Len(s)
    BY <1>5, <1>9
  <2>4. /\ t \in Seq(Inode)
        /\ Len(t) = IF first <= e THEN e - first + 1 ELSE 0
        /\ \A j \in 1 .. e - first + 1 : t[j] = s[first + j - 1]
    BY <2>1, SubSeqProperties
  <2> HIDE DEF t
  <2>5. t \in Seq(Inode) /\ Len(t) = e - begin
    BY <2>2, <2>4
  <2>6. \A j \in 1 .. e - begin : t[j] = s[begin + j]
    BY SMTT(40), <2>2, <2>3, <2>4
  <2>7. DOMAIN t = 1 .. e - begin
    BY <2>5
  <2> QED  BY <1>5, <2>3, <2>5, <2>6, <2>7
<1> DEFINE part == Part(s, ends, k)
<1>7. part = t
  BY <1>4 DEF e, first
<1> HIDE DEF t, part
<1>8. part \in Seq(Inode) /\ Len(part) = ends[k] - begin
      /\ \A j \in DOMAIN part : part[j] = s[begin + j] /\ begin + j \in DOMAIN s
  BY <1>6, <1>7 DEF e
<1> QED  BY <1>3, <1>8 DEF s, part, begin

\* What a split makes of node n: a parent if `above` is 1, the nodes after `lo` for
\* the parts after the first, and their entries in the parent.
Above(n, ends) == IF node[n].parent = 0 /\ Len(ends) > 1 THEN 1 ELSE 0
SplitParent(n, ends) == IF Above(n, ends) = 1 THEN made + 1 ELSE node[n].parent
Lo(n, ends) == made + Above(n, ends)
News(n, ends) == [k \in 1 .. Len(ends) - 1 |-> Lo(n, ends) + k]
Elders(n, ends) == IF Above(n, ends) = 1 THEN <<n>> ELSE node[node[n].parent].children

\* The fields of node m after the split.
SplitField(n, ends, m) ==
  /\ node'[m].leaf = IF m \in Nodes THEN node[m].leaf
                     ELSE IF m > Lo(n, ends) THEN node[n].leaf ELSE FALSE
  /\ node'[m].pgid = IF m \in Nodes /\ m # n THEN node[m].pgid ELSE 0
  /\ node'[m].parent = IF m = n \/ m > Lo(n, ends) THEN SplitParent(n, ends)
                       ELSE IF m \in Nodes THEN node[m].parent ELSE 0
  /\ m \in Nodes => node'[m].first = node[m].first
  /\ node'[m].children = IF m = SplitParent(n, ends) /\ Len(ends) > 1
                         THEN Elders(n, ends) \o News(n, ends)
                         ELSE IF m \in Nodes /\ m # n THEN node[m].children ELSE <<>>
  /\ inodes'[m] = IF m = n THEN Part(inodes[n], ends, 1)
                  ELSE IF m > Lo(n, ends) THEN Part(inodes[n], ends, m - Lo(n, ends) + 1)
                  ELSE inodes[m]

LEMMA SplitNumbers ==
  ASSUME TreeInv, NEW ends \in Seq(Nat), SpillSplit(ends)
  PROVE  /\ Top.node \in Nodes /\ Top.node \in NodeId /\ Nodes \subseteq NodeId /\ made \in Nat
         /\ Len(ends) \in Nat /\ Len(ends) > 0
         /\ Above(Top.node, ends) \in {0, 1} /\ Lo(Top.node, ends) \in Nat
         /\ Lo(Top.node, ends) = made + Above(Top.node, ends)
         /\ made' = Lo(Top.node, ends) + Len(ends) - 1 /\ made' \in Nat /\ made' <= MaxNodes
         /\ Nodes' = 1 .. made' /\ Nodes' \subseteq NodeId /\ Nodes \subseteq Nodes'
         /\ \A c \in Children(Top.node) : node[c].pgid = 0
         /\ node[Top.node].parent \in 0 .. made /\ node[Top.node].parent # Top.node
         /\ Above(Top.node, ends) = 1 => Len(ends) > 1 /\ SplitParent(Top.node, ends) = made + 1
         /\ Above(Top.node, ends) = 0 =>
              /\ SplitParent(Top.node, ends) = node[Top.node].parent
              /\ Len(ends) > 1 => node[Top.node].parent # 0
<1> DEFINE n == Top.node
<1>1. stack # <<>> /\ Top.rest = <<>> /\ IsSplit(n, ends)
  BY DEF SpillSplit
<1>12. /\ Len(stack) \in DOMAIN stack /\ Len(stack) \in Nat
       /\ stack[Len(stack)].node = n /\ stack[Len(stack)].rest = <<>>
  <2>1. stack \in Seq(Frame)
    BY DEF TreeInv, TreeTypeOK
  <2> QED  BY <1>1, <2>1 DEF Top
<1>13. \A c \in Children(n) : node[c].pgid = 0
  <2>1. ASSUME NEW c \in Children(n) PROVE ~Awaits(stack, Len(stack), c)
    BY <1>12 DEF Awaits
  <2> QED  BY <1>12, <2>1 DEF TreeInv, Pending
<1>2. n \in Nodes /\ Nodes \subseteq NodeId /\ made \in Nat
  <2>1. n \in Nodes
    BY <1>12 DEF TreeInv, Pending, FrameInside
  <2> QED  BY <2>1, NodeTreeAssumption DEF TreeInv, TreeTypeOK, Nodes, NodeId
<1>3. node[n].parent \in 0 .. made
  BY <1>2 DEF TreeInv, LinksInside
<1>4. Len(ends) \in Nat /\ Len(ends) > 0
  BY <1>1 DEF IsSplit
<1>5. node[n].parent # n
  BY <1>2 DEF TreeInv, LinksInside
<1> DEFINE p == IF node[n].parent = 0 /\ Len(ends) > 1 THEN made + 1 ELSE node[n].parent
           a == IF p = made + 1 THEN 1 ELSE 0
<1>6. a = Above(n, ends) /\ p = SplitParent(n, ends)
  BY SMTT(40), <1>2, <1>3 DEF Above, SplitParent
<1>7. made' = made + a + Len(ends) - 1 /\ made + a + Len(ends) - 1 <= MaxNodes
  BY DEF SpillSplit
<1> HIDE DEF n, a, p
<1>8. Above(n, ends) \in {0, 1} /\ Lo(n, ends) = made + Above(n, ends) /\ Lo(n, ends) \in Nat
  BY <1>2 DEF Above, Lo
<1>9. made' = Lo(n, ends) + Len(ends) - 1 /\ made' \in Nat /\ made' <= MaxNodes /\ made <= made'
  BY <1>2, <1>4, <1>6, <1>7, <1>8
<1>10. Nodes' = 1 .. made' /\ Nodes' \subseteq NodeId /\ Nodes \subseteq Nodes'
  BY <1>2, <1>9, NodeTreeAssumption DEF Nodes, NodeId
<1>11. /\ Above(n, ends) = 1 => Len(ends) > 1 /\ SplitParent(n, ends) = made + 1
       /\ Above(n, ends) = 0 => SplitParent(n, ends) = node[n].parent
                                /\ (Len(ends) > 1 => node[n].parent # 0)
  BY SMTT(40) DEF Above, SplitParent
<1> QED  BY ONLY <1>2, <1>3, <1>4, <1>5, <1>8, <1>9, <1>10, <1>11, <1>13, Zenon DEF n

\* node after the split, in the terms above.
LEMMA SplitNodes ==
  ASSUME TreeInv, NEW ends \in Seq(Nat), SpillSplit(ends)
  PROVE  /\ node' = [m \in NodeId |->
              IF m = SplitParent(Top.node, ends) /\ Len(ends) > 1
              THEN [(IF Above(Top.node, ends) = 1 THEN NewNode(0, 0, FALSE)
                     ELSE [node EXCEPT ![Top.node].pgid = 0, ![Top.node].parent = SplitParent(Top.node, ends),
                                 ![Top.node].children = <<>>][m])
                     EXCEPT !.children = Elders(Top.node, ends) \o News(Top.node, ends)]
              ELSE IF m \in Lo(Top.node, ends) + 1 .. made'
              THEN NewNode(0, SplitParent(Top.node, ends), node[Top.node].leaf)
              ELSE [node EXCEPT ![Top.node].pgid = 0, ![Top.node].parent = SplitParent(Top.node, ends),
                                 ![Top.node].children = <<>>][m]]
         /\ inodes' = [m \in NodeId |->
              IF m = Top.node THEN Part(inodes[Top.node], ends, 1)
              ELSE IF m \in Lo(Top.node, ends) + 1 .. made'
              THEN Part(inodes[Top.node], ends, m - Lo(Top.node, ends) + 1)
              ELSE inodes[m]]
         /\ freed' = freed \cup ({node[Top.node].pgid} \ {0})
         /\ SpillReturns
         /\ UNCHANGED <<nodeCache, root, rootNode, calls>>
<1> DEFINE n == Top.node
           parts == Len(ends)
           p == IF node[n].parent = 0 /\ parts > 1 THEN made + 1 ELSE node[n].parent
           a == IF p = made + 1 THEN 1 ELSE 0
           elders == IF a = 1 THEN <<n>> ELSE node[p].children
           news == [k \in 1 .. parts - 1 |-> made + a + (k + 1) - 1]
           After(above, parent, lo, last, children) ==
             [m \in NodeId |->
                IF m = parent /\ parts > 1
                THEN [(IF above = 1 THEN NewNode(0, 0, FALSE)
                       ELSE [node EXCEPT ![n].pgid = 0, ![n].parent = parent, ![n].children = <<>>][m])
                       EXCEPT !.children = children]
                ELSE IF m \in lo + 1 .. last
                THEN NewNode(0, parent, node[n].leaf)
                ELSE [node EXCEPT ![n].pgid = 0, ![n].parent = parent, ![n].children = <<>>][m]]
<1>1. /\ node' = After(a, p, made + a, made + a + parts - 1, elders \o news)
      /\ inodes' = [m \in NodeId |->
              IF m = n THEN Part(inodes[n], ends, 1)
              ELSE IF m \in made + a + 1 .. made + a + parts - 1
              THEN Part(inodes[n], ends, m - made - a + 1)
              ELSE inodes[m]]
      /\ freed' = freed \cup ({node[n].pgid} \ {0})
      /\ SpillReturns
      /\ UNCHANGED <<nodeCache, root, rootNode, calls>>
  BY DEF SpillSplit
<1>2. made \in Nat /\ node[n].parent \in 0 .. made /\ parts \in Nat
  BY SplitNumbers
<1>3. a = Above(n, ends) /\ p = SplitParent(n, ends) /\ made + a = Lo(n, ends)
  BY <1>2 DEF Above, SplitParent, Lo
<1>4. elders = Elders(n, ends)
  BY <1>2, <1>3 DEF Elders, Above, SplitParent
<1>5. made' = made + a + parts - 1 /\ a \in {0, 1}
  BY <1>3, SplitNumbers
<1> HIDE DEF p, a
<1>6. news = News(n, ends)
  BY <1>2, <1>3, <1>5 DEF News
<1>7. \A m \in NodeId : m - made - a = m - Lo(n, ends)
  BY <1>2, <1>3, <1>5, NodeTreeAssumption DEF NodeId
<1> HIDE DEF n, elders, news, After
<1>8. inodes' = [m \in NodeId |->
              IF m = n THEN Part(inodes[n], ends, 1)
              ELSE IF m \in Lo(n, ends) + 1 .. made'
              THEN Part(inodes[n], ends, m - Lo(n, ends) + 1)
              ELSE inodes[m]]
  BY <1>1, <1>3, <1>5, <1>7
<1>9. node' = After(Above(n, ends), SplitParent(n, ends), Lo(n, ends), made',
                    Elders(n, ends) \o News(n, ends))
  BY <1>1, <1>3, <1>4, <1>5, <1>6
<1> QED  BY <1>1, <1>8, <1>9 DEF n, After

\* The children a split gives to the parent are its old ones and the new nodes.
LEMMA SplitChildren ==
  ASSUME TreeInv, NEW ends \in Seq(Nat), SpillSplit(ends), Len(ends) > 1
  PROVE  /\ SplitParent(Top.node, ends) \in Nodes'
         /\ Elders(Top.node, ends) \in Seq(Nodes) /\ Len(Elders(Top.node, ends)) \in Nat
         /\ Elders(Top.node, ends) \o News(Top.node, ends) \in Seq(Nodes')
         /\ Len(Elders(Top.node, ends) \o News(Top.node, ends)) = Len(Elders(Top.node, ends)) + Len(ends) - 1
         /\ \A i \in 1 .. Len(Elders(Top.node, ends)) + Len(ends) - 1 :
              (Elders(Top.node, ends) \o News(Top.node, ends))[i] =
                IF i <= Len(Elders(Top.node, ends)) THEN Elders(Top.node, ends)[i]
                ELSE Lo(Top.node, ends) + (i - Len(Elders(Top.node, ends)))
         /\ \A i, j \in DOMAIN Elders(Top.node, ends) :
              Elders(Top.node, ends)[i] = Elders(Top.node, ends)[j] => i = j
         /\ \/ Top.node \in {Elders(Top.node, ends)[i] : i \in DOMAIN Elders(Top.node, ends)}
            \/ Above(Top.node, ends) = 0 /\ Top.node \notin Children(node[Top.node].parent)
         /\ \A i \in DOMAIN Elders(Top.node, ends) :
              \/ Elders(Top.node, ends)[i] = Top.node
              \/ Above(Top.node, ends) = 0 /\ node[Elders(Top.node, ends)[i]].parent = node[Top.node].parent
<1> DEFINE n == Top.node
           e == Elders(n, ends)
           p == SplitParent(n, ends)
           lo == Lo(n, ends)
           parts == Len(ends)
           news == News(n, ends)
<1>1. /\ n \in Nodes /\ Nodes \subseteq Nodes' /\ Nodes' = 1 .. made'
      /\ lo \in Nat /\ parts \in Nat /\ made' = lo + parts - 1 /\ made \in Nat /\ made <= lo
      /\ Above(n, ends) \in {0, 1}
  BY SplitNumbers
<1>4. /\ e \in Seq(Nodes) /\ p \in Nodes'
      /\ \A i, j \in DOMAIN e : e[i] = e[j] => i = j
      /\ \/ n \in {e[i] : i \in DOMAIN e}
         \/ Above(n, ends) = 0 /\ n \notin Children(node[n].parent)
      /\ \A i \in DOMAIN e : e[i] = n \/ (Above(n, ends) = 0 /\ node[e[i]].parent = node[n].parent)
  <2>1. CASE Above(n, ends) = 1
    <3>1. e = <<n>> /\ p = made + 1 /\ lo = made + 1
      BY <2>1, SplitNumbers DEF Elders
    <3>2. e \in Seq(Nodes) /\ p \in Nodes' /\ Len(e) = 1 /\ DOMAIN e = {1} /\ e[1] = n
      BY <1>1, <3>1
    <3>3. /\ \A i, j \in DOMAIN e : e[i] = e[j] => i = j
          /\ n \in {e[i] : i \in DOMAIN e}
          /\ \A i \in DOMAIN e : e[i] = n \/ (Above(n, ends) = 0 /\ node[e[i]].parent = node[n].parent)
      BY <3>2
    <3> QED  BY <3>2, <3>3
  <2>2. CASE Above(n, ends) = 0
    <3> DEFINE q == node[n].parent
    <3>1. e = node[q].children /\ p = q /\ q # 0 /\ q \in 0 .. made
      BY <2>2, SplitNumbers DEF Elders
    <3>2. q \in Nodes /\ p \in Nodes'
      BY SMTT(40), <1>1, <3>1 DEF Nodes
    <3>3. q \in NodeId
      BY <3>2, SplitNumbers
    <3>4. e \in Seq(NodeId)
      BY <3>1, <3>3 DEF TreeInv, TreeTypeOK, NodeRecord
    <3>5. \A i \in DOMAIN e : e[i] \in Nodes /\ node[e[i]].parent = q
      BY <3>1, <3>2 DEF TreeInv, LinksInside, TreeLinked, Children
    <3>6. e \in Seq(Nodes)
      BY <3>4, <3>5
    <3>7. \A i, j \in DOMAIN e : e[i] = e[j] => i = j
      BY <3>1, <3>2 DEF TreeInv, TreeLinked
    <3>9. n \in {e[i] : i \in DOMAIN e} \/ n \notin Children(q)
      BY <3>1 DEF Children
    <3> QED  BY <2>2, <3>2, <3>5, <3>6, <3>7, <3>9
  <2> QED  BY <1>1, <2>1, <2>2
<1>5. news = [k \in 1 .. parts - 1 |-> lo + k]
  BY DEF News
<1> HIDE DEF n, e, p, lo, parts, news
<1>6. parts > 1 /\ parts - 1 \in Nat
  BY <1>1 DEF parts
<1>7. news \in [1 .. parts - 1 -> Nodes']
  BY <1>1, <1>5, <1>6
<1>8. news \in Seq(Nodes') /\ Len(news) = parts - 1
  BY SMTT(40), <1>6, <1>7, SeqDef
<1>9. e \in Seq(Nodes') /\ Len(e) \in Nat
  BY <1>1, <1>4, SeqMonotone
<1>10. /\ e \o news \in Seq(Nodes')
       /\ Len(e \o news) = Len(e) + Len(news)
       /\ \A i \in 1 .. Len(e) + Len(news) :
            (e \o news)[i] = IF i <= Len(e) THEN e[i] ELSE news[i - Len(e)]
  BY <1>8, <1>9, ConcatProperties
<1>11. Len(e) + Len(news) = Len(e) + parts - 1
  BY <1>6, <1>8, <1>9
<1>12. ASSUME NEW i \in 1 .. Len(e) + parts - 1
       PROVE  (e \o news)[i] = IF i <= Len(e) THEN e[i] ELSE lo + (i - Len(e))
  <2>1. ~(i <= Len(e)) => i - Len(e) \in 1 .. parts - 1
    BY <1>6, <1>9
  <2> QED  BY <1>5, <1>10, <1>11, <2>1
<1> QED  BY <1>4, <1>9, <1>10, <1>11, <1>12 DEF n, e, p, lo, parts, news

LEMMA SplitFields ==
  ASSUME TreeInv, NEW ends \in Seq(Nat), SpillSplit(ends)
  PROVE  /\ \A m \in Nodes' : SplitField(Top.node, ends, m)
         /\ \A m \in NodeId \ Nodes' : inodes'[m] = <<>>
         /\ node' \in [NodeId -> NodeRecord]
<1> DEFINE n == Top.node
           p == SplitParent(n, ends)
           lo == Lo(n, ends)
           a == Above(n, ends)
           ch == Elders(n, ends) \o News(n, ends)
           old == [node EXCEPT ![n].pgid = 0, ![n].parent = p, ![n].children = <<>>]
           many == Len(ends) > 1
           empty == NewNode(0, 0, FALSE)
           fresh == NewNode(0, p, node[n].leaf)
<1>1. /\ n \in Nodes /\ n \in NodeId /\ Nodes \subseteq NodeId /\ Nodes = 1 .. made /\ made \in Nat
      /\ a \in {0, 1} /\ lo \in Nat /\ lo = made + a /\ Nodes' = 1 .. made' /\ made' \in Nat
      /\ Nodes' \subseteq NodeId /\ node[n].parent # n /\ node[n].parent \in 0 .. made
      /\ Nodes \subseteq Nodes' /\ made' = lo + Len(ends) - 1 /\ Len(ends) \in Nat
      /\ (a = 1 => many /\ p = made + 1)
      /\ (a = 0 => p = node[n].parent)
      /\ (a = 0 /\ many => p # 0)
  BY SplitNumbers DEF Nodes
<1>2. /\ node' = [m \in NodeId |->
             IF m = p /\ many THEN [(IF a = 1 THEN empty ELSE old[m]) EXCEPT !.children = ch]
             ELSE IF m \in lo + 1 .. made' THEN fresh ELSE old[m]]
      /\ inodes' = [m \in NodeId |->
             IF m = n THEN Part(inodes[n], ends, 1)
             ELSE IF m \in lo + 1 .. made' THEN Part(inodes[n], ends, m - lo + 1)
             ELSE inodes[m]]
  BY SplitNodes
<1>3. /\ empty.leaf = FALSE /\ empty.pgid = 0 /\ empty.parent = 0 /\ empty.children = <<>>
      /\ fresh.leaf = node[n].leaf /\ fresh.pgid = 0 /\ fresh.parent = p /\ fresh.children = <<>>
  BY DEF NewNode
<1>4. node \in [NodeId -> NodeRecord] /\ \A m \in NodeId : node[m] \in NodeRecord
  BY DEF TreeInv, TreeTypeOK
<1>5. p \in 0 .. MaxNodes
  BY <1>1, SplitNumbers, NodeTreeAssumption DEF NodeId
<1>6. empty \in NodeRecord /\ fresh \in NodeRecord
  <2>1. node[n].leaf \in BOOLEAN
    BY <1>1, <1>4 DEF NodeRecord
  <2>2. <<>> \in Seq(NodeId) /\ 0 \in 0 .. MaxNodes
    BY NodeTreeAssumption
  <2> QED  BY <1>5, <2>1, <2>2 DEF NewNode, NodeRecord
<1>7. many => ch \in Seq(NodeId)
  <2> SUFFICES ASSUME many PROVE ch \in Seq(NodeId)
    OBVIOUS
  <2>1. ch \in Seq(Nodes')
    BY SplitChildren
  <2> HIDE DEF ch
  <2> QED  BY <1>1, <2>1, SeqMonotone
<1> HIDE DEF n, p, lo, a, ch, many, empty, fresh
<1>8. ASSUME NEW m \in NodeId
      PROVE  /\ old[m] \in NodeRecord
             /\ old[m].leaf = node[m].leaf /\ old[m].first = node[m].first
             /\ old[m].children = IF m = n THEN <<>> ELSE node[m].children
             /\ old[m].pgid = IF m = n THEN 0 ELSE node[m].pgid
             /\ old[m].parent = IF m = n THEN p ELSE node[m].parent
  <2>1. CASE m = n
    <3>1. old[m] = [node[n] EXCEPT !.pgid = 0, !.parent = p, !.children = <<>>] /\ node[n] \in NodeRecord
      BY <1>1, <1>4, <2>1
    <3> DEFINE rec == node[n]
               new == [rec EXCEPT !.pgid = 0, !.parent = p, !.children = <<>>]
    <3>2. rec \in NodeRecord /\ old[m] = new
      BY <3>1
    <3> HIDE DEF old, rec
    <3>3. /\ new.leaf = rec.leaf /\ new.first = rec.first
          /\ new.children = <<>> /\ new.pgid = 0 /\ new.parent = p
      BY <3>2 DEF NodeRecord
    <3>4. new \in NodeRecord
      <4>1. <<>> \in Seq(NodeId)
        OBVIOUS
      <4> QED  BY <1>5, <3>2, <4>1 DEF NodeRecord
    <3> HIDE DEF new
    <3> QED  BY <2>1, <3>2, <3>3, <3>4 DEF rec
  <2>2. CASE m # n
    <3>1. old[m] = node[m]
      BY <1>4, <2>2
    <3> HIDE DEF old
    <3> QED  BY <1>4, <2>2, <3>1
  <2> QED  BY <2>1, <2>2
<1> HIDE DEF old
<1>9. ASSUME NEW rec \in NodeRecord, many
      PROVE  LET new == [rec EXCEPT !.children = ch]
             IN  /\ new \in NodeRecord /\ new.leaf = rec.leaf /\ new.pgid = rec.pgid
                 /\ new.parent = rec.parent /\ new.first = rec.first /\ new.children = ch
  BY <1>7, <1>9 DEF NodeRecord
<1>10. ASSUME NEW m \in NodeId, m = p, many
       PROVE  /\ node'[m] \in NodeRecord
              /\ m \in Nodes => /\ node'[m].leaf = node[m].leaf /\ node'[m].pgid = node[m].pgid
                                /\ node'[m].parent = node[m].parent /\ node'[m].first = node[m].first
              /\ m \notin Nodes => node'[m].leaf = FALSE /\ node'[m].pgid = 0 /\ node'[m].parent = 0
              /\ node'[m].children = ch
              /\ m # n /\ (m \in Nodes' => ~(m > lo))
  <2>1. m # n /\ (m \in Nodes' => ~(m > lo)) /\ (a = 1 <=> m \notin Nodes)
    BY <1>1, <1>10
  <2>2. CASE a = 1
    <3>1. node'[m] = [empty EXCEPT !.children = ch]
      BY <1>2, <1>10, <2>2
    <3> QED  BY <1>3, <1>6, <1>9, <1>10, <2>1, <2>2, <3>1
  <2>3. CASE a = 0
    <3>1. node'[m] = [old[m] EXCEPT !.children = ch]
      BY <1>2, <1>10, <2>3
    <3> QED  BY <1>8, <1>9, <1>10, <2>1, <2>3, <3>1
  <2> QED  BY <1>1, <2>2, <2>3
<1>11. ASSUME NEW m \in NodeId, ~(m = p /\ many), m \in lo + 1 .. made'
       PROVE  node'[m] = fresh /\ m \notin Nodes /\ m # n /\ m > lo
  BY SMTT(40), <1>1, <1>2, <1>11
<1>12. ASSUME NEW m \in NodeId, ~(m = p /\ many), m \notin lo + 1 .. made'
       PROVE  node'[m] = old[m] /\ (m \in Nodes' => m \in Nodes /\ ~(m > lo))
  BY <1>1, <1>2, <1>12 DEF NodeId
<1>13. node' \in [NodeId -> NodeRecord]
  <2>1. \A m \in NodeId : node'[m] \in NodeRecord
    BY <1>6, <1>8, <1>10, <1>11, <1>12
  <2> QED  BY <1>2, <2>1
<1>14. ASSUME NEW m \in Nodes'
       PROVE  inodes'[m] = IF m = n THEN Part(inodes[n], ends, 1)
                           ELSE IF m > lo THEN Part(inodes[n], ends, m - lo + 1)
                           ELSE inodes[m]
  BY <1>1, <1>2
<1>15. ASSUME NEW m \in Nodes' PROVE SplitField(n, ends, m)
  <2> DEFINE F == /\ node'[m].leaf = IF m \in Nodes THEN node[m].leaf
                                     ELSE IF m > lo THEN node[n].leaf ELSE FALSE
                  /\ node'[m].pgid = IF m \in Nodes /\ m # n THEN node[m].pgid ELSE 0
                  /\ node'[m].parent = IF m = n \/ m > lo THEN p
                                       ELSE IF m \in Nodes THEN node[m].parent ELSE 0
                  /\ m \in Nodes => node'[m].first = node[m].first
                  /\ node'[m].children = IF m = p /\ many THEN ch
                                         ELSE IF m \in Nodes /\ m # n THEN node[m].children ELSE <<>>
  <2>1. m \in NodeId /\ (m \in Nodes => ~(m > lo))
    <3>1. m \in NodeId
      BY <1>1
    <3>2. made \in Nat /\ lo \in Nat /\ made <= lo /\ Nodes = 1 .. made
      BY <1>1
    <3> QED  BY <3>1, <3>2
  <2>5. F
    <3>1. CASE m = p /\ many
      BY <1>10, <2>1, <3>1
    <3>2. CASE ~(m = p /\ many) /\ m \in lo + 1 .. made'
      <4>1. node'[m] = fresh /\ m \notin Nodes /\ m # n /\ m > lo
        BY <1>11, <2>1, <3>2
      <4> QED  BY <1>3, <3>2, <4>1
    <3>3. CASE ~(m = p /\ many) /\ m \notin lo + 1 .. made'
      <4>1. node'[m] = old[m] /\ m \in Nodes /\ ~(m > lo)
        BY <1>12, <2>1, <3>3
      <4> QED  BY <1>8, <2>1, <3>3, <4>1
    <3> QED  BY <3>1, <3>2, <3>3
  <2> QED  BY <1>14, <2>5 DEF SplitField, p, lo, ch, many
<1>16. ASSUME NEW m \in NodeId \ Nodes' PROVE inodes'[m] = <<>>
  <2>1. inodes'[m] = inodes[m] /\ m \notin Nodes
    BY <1>1, <1>2
  <2> QED  BY <2>1 DEF TreeInv, LinksInside
<1> QED  BY <1>13, <1>15, <1>16 DEF n

\* What a node holds after the split: a part of what n held, or what it held before.
LEMMA SplitInodes ==
  ASSUME TreeInv, NEW ends \in Seq(Nat), SpillSplit(ends), NEW m \in Nodes'
  PROVE  /\ inodes'[m] \in Seq(Inode)
         /\ \/ /\ m = Top.node \/ m > Lo(Top.node, ends)
               /\ \E k \in 1 .. Len(ends) : inodes'[m] = Part(inodes[Top.node], ends, k)
            \/ m \in Nodes /\ m # Top.node /\ inodes'[m] = inodes[m]
            \/ m \notin Nodes /\ m # Top.node /\ ~(m > Lo(Top.node, ends)) /\ inodes'[m] = <<>>
<1> DEFINE n == Top.node
           lo == Lo(n, ends)
<1>1. /\ n \in Nodes /\ n \in NodeId /\ Nodes = 1 .. made /\ made \in Nat /\ lo \in Nat
      /\ Nodes' = 1 .. made' /\ made' = lo + Len(ends) - 1 /\ Len(ends) \in Nat /\ Len(ends) > 0
      /\ made <= lo /\ Nodes' \subseteq NodeId
  BY SMTT(40), SplitNumbers DEF Nodes
<1>2. /\ inodes[n] \in Seq(Inode) /\ IsSplit(n, ends)
      /\ \A k \in NodeId : inodes[k] \in Seq(Inode)
  BY <1>1 DEF TreeInv, TreeTypeOK, SpillSplit
<1>3. inodes'[m] = IF m = n THEN Part(inodes[n], ends, 1)
                   ELSE IF m > lo THEN Part(inodes[n], ends, m - lo + 1)
                   ELSE inodes[m]
  BY SplitFields DEF SplitField
<1>4. \A k \in 1 .. Len(ends) : Part(inodes[n], ends, k) \in Seq(Inode)
  BY <1>2, PartFacts
<1> HIDE DEF n, lo
<1>5. CASE m = n
  <2>1. inodes'[m] = Part(inodes[n], ends, 1) /\ 1 \in 1 .. Len(ends)
    BY <1>1, <1>3, <1>5
  <2>2. inodes'[m] \in Seq(Inode) /\ \E k \in 1 .. Len(ends) : inodes'[m] = Part(inodes[n], ends, k)
    BY <1>4, <2>1
  <2> QED  BY <1>5, <2>2 DEF n
<1>6. CASE m # n /\ m > lo
  <2>1. inodes'[m] = Part(inodes[n], ends, m - lo + 1) /\ m - lo + 1 \in 1 .. Len(ends)
    BY <1>1, <1>3, <1>6
  <2>2. inodes'[m] \in Seq(Inode) /\ \E k \in 1 .. Len(ends) : inodes'[m] = Part(inodes[n], ends, k)
    BY <1>4, <2>1
  <2> QED  BY <1>6, <2>2 DEF n, lo
<1>7. CASE m # n /\ ~(m > lo)
  <2>1. inodes'[m] = inodes[m] /\ m \in NodeId
    BY <1>1, <1>3, <1>7
  <2>2. m \notin Nodes => inodes[m] = <<>>
    BY <2>1 DEF TreeInv, LinksInside
  <2> QED  BY <1>2, <1>7, <2>1, <2>2 DEF n, lo
<1> QED  BY <1>5, <1>6, <1>7

LEMMA SplitTypes ==
  ASSUME TreeInv, NEW ends \in Seq(Nat), SpillSplit(ends)
  PROVE  TreeTypeOK' /\ PagesKnown' /\ LinksInside'
<1> DEFINE n == Top.node
           lo == Lo(n, ends)
           p == SplitParent(n, ends)
<1>1. /\ n \in Nodes /\ Nodes = 1 .. made /\ made \in Nat /\ made' \in Nat /\ made' <= MaxNodes
      /\ lo \in Nat /\ made <= lo /\ made <= made' /\ Nodes' = 1 .. made'
      /\ Nodes \subseteq Nodes' /\ Nodes' \subseteq NodeId
  BY SplitNumbers DEF Nodes
<1>2. /\ \A m \in Nodes' : SplitField(n, ends, m)
      /\ \A m \in NodeId \ Nodes' : inodes'[m] = <<>>
      /\ node' \in [NodeId -> NodeRecord]
  BY SplitFields
<1>3. freed' = freed \cup ({node[n].pgid} \ {0}) /\ SpillReturns
      /\ UNCHANGED <<nodeCache, root, rootNode, calls>> /\ DOMAIN inodes' = NodeId
      /\ inodes' = [m \in NodeId |-> inodes'[m]]
  BY SplitNodes
<1>4. p \in 0 .. made'
  <2>1. CASE Len(ends) > 1
    BY <1>1, <2>1, SplitChildren
  <2>2. CASE ~(Len(ends) > 1)
    BY <1>1, <2>2, SplitNumbers
  <2> QED  BY <2>1, <2>2
<1> HIDE DEF n, lo, p
<1>5. TreeTypeOK'
  <2>1. \A m \in NodeId : inodes'[m] \in Seq(Inode)
    <3> SUFFICES ASSUME NEW m \in NodeId PROVE inodes'[m] \in Seq(Inode)
      OBVIOUS
    <3>1. CASE m \in Nodes'
      BY <3>1, SplitInodes
    <3>2. CASE m \notin Nodes'
      <4>1. inodes'[m] = <<>> /\ <<>> \in Seq(Inode)
        BY <1>2, <3>2
      <4> QED  BY <4>1
    <3> QED  BY <3>1, <3>2
  <2>2. inodes' \in [NodeId -> Seq(Inode)]
    BY <1>3, <2>1
  <2>3. made' \in 0 .. MaxNodes /\ rootNode' \in 0 .. made'
    BY <1>1, <1>3, NodeTreeAssumption DEF TreeInv, TreeTypeOK
  <2>4. stack' \in Seq(Frame) /\ fault' \in BOOLEAN
    <3>1. stack \in Seq(Frame) /\ fault \in BOOLEAN /\ Len(stack) \in Nat /\ stack # <<>>
      <4>1. stack # <<>>
        BY DEF SpillSplit
      <4> QED  BY SMTT(40), <4>1 DEF TreeInv, TreeTypeOK
    <3>2. SubSeq(stack, 1, Len(stack) - 1) \in Seq(Frame) /\ <<>> \in Seq(Frame)
      BY <3>1
    <3> QED  BY <1>3, <3>1, <3>2 DEF SpillReturns
  <2>5. freed' \in SUBSET PageId
    <3>1. node[n] \in NodeRecord
      BY <1>1 DEF TreeInv, TreeTypeOK
    <3> QED  BY SMTT(40), <1>3, <3>1 DEF TreeInv, TreeTypeOK, NodeRecord
  <2>6. nodeCache' \in [PageId -> 0 .. MaxNodes] /\ root' \in RootPages /\ calls' \in Nat
    BY <1>3 DEF TreeInv, TreeTypeOK
  <2> QED  BY <1>2, <2>2, <2>3, <2>4, <2>5, <2>6 DEF TreeTypeOK
<1>6. PagesKnown'
  <2>1. ASSUME NEW m \in Nodes', NEW i \in DOMAIN inodes'[m]
        PROVE  IF node'[m].leaf THEN inodes'[m][i].pgid = 0 ELSE NamesPage(inodes'[m][i])
    <3>1. CASE (m = n \/ m > lo) /\ \E k \in 1 .. Len(ends) : inodes'[m] = Part(inodes[n], ends, k)
      <4>1. PICK k \in 1 .. Len(ends) : inodes'[m] = Part(inodes[n], ends, k)
        BY <3>1
      <4>2. inodes[n] \in Seq(Inode) /\ IsSplit(n, ends)
        BY <1>1 DEF TreeInv, TreeTypeOK, SpillSplit, n
      <4> DEFINE part == Part(inodes[n], ends, k)
      <4>5. \A j \in DOMAIN part :
              part[j] = inodes[n][Before(ends, k) + j] /\ Before(ends, k) + j \in DOMAIN inodes[n]
        BY <4>2, PartFacts
      <4>6. inodes'[m] = part
        BY <4>1
      <4> HIDE DEF part
      <4>3. PICK j \in DOMAIN inodes[n] : inodes'[m][i] = inodes[n][j]
        BY <2>1, <4>5, <4>6
      <4>4. node'[m].leaf = node[n].leaf
        <5>1. node'[m].leaf = IF m \in Nodes THEN node[m].leaf
                              ELSE IF m > lo THEN node[n].leaf ELSE FALSE
          BY <1>2 DEF SplitField, lo
        <5>2. m > lo => m \notin Nodes
          BY <1>1
        <5> QED  BY <1>1, <3>1, <5>1, <5>2
      <4> QED  BY SMTT(40), <1>1, <4>3, <4>4 DEF TreeInv, PagesKnown
    <3>2. CASE m \in Nodes /\ inodes'[m] = inodes[m]
      <4>1. node'[m].leaf = node[m].leaf
        BY <1>2, <3>2 DEF SplitField
      <4> QED  BY <2>1, <3>2, <4>1 DEF TreeInv, PagesKnown
    <3>3. CASE inodes'[m] = <<>>
      BY <2>1, <3>3
    <3> QED  BY <3>1, <3>2, <3>3, SplitInodes DEF n, lo
  <2>2. ASSUME NEW m \in Nodes', node'[m].pgid # 0 PROVE node'[m].first = FirstKey(node'[m].pgid)
    <3>1. m \in Nodes /\ node'[m].pgid = node[m].pgid /\ node'[m].first = node[m].first
      BY <1>2, <2>2 DEF SplitField
    <3> QED  BY <2>2, <3>1 DEF TreeInv, PagesKnown
  <2> QED  BY <2>1, <2>2 DEF PagesKnown, FirstKey, NamesPage
<1>7. LinksInside'
  <2>1. ASSUME NEW m \in Nodes' PROVE node'[m].parent \in 0 .. made' /\ node'[m].parent # m
    <3>1. node'[m].parent = p \/ node'[m].parent = 0
          \/ (m \in Nodes /\ node'[m].parent = node[m].parent)
      <4>1. node'[m].parent = IF m = n \/ m > lo THEN p
                              ELSE IF m \in Nodes THEN node[m].parent ELSE 0
        BY <1>2 DEF SplitField, p, lo
      <4> QED  BY <4>1
    <3>2. m \in Nodes => node[m].parent \in 0 .. made /\ node[m].parent # m
      BY DEF TreeInv, LinksInside
    <3>3. 0 \in 0 .. made' /\ \A k \in 0 .. made : k \in 0 .. made'
      BY <1>1
    <3>4. node'[m].parent # m
      <4>1. node'[m].parent = IF m = n \/ m > lo THEN p
                              ELSE IF m \in Nodes THEN node[m].parent ELSE 0
        BY <1>2 DEF SplitField, p, lo
      <4>2. p <= lo /\ p # n
        BY SMTT(40), SplitNumbers DEF p, lo, n, Nodes
      <4>3. m \in Nat /\ m > 0 /\ p \in Nat
        BY <1>1, <1>4
      <4> QED  BY <1>1, <3>2, <4>1, <4>2, <4>3
    <3> QED  BY <1>4, <3>1, <3>2, <3>3, <3>4
  <2>2. ASSUME NEW m \in Nodes', NEW i \in DOMAIN node'[m].children
        PROVE  node'[m].children[i] \in Nodes'
    <3>1. CASE m = p /\ Len(ends) > 1
      <4>1. node'[m].children = Elders(n, ends) \o News(n, ends)
        BY <1>2, <3>1 DEF SplitField, p
      <4>2. node'[m].children \in Seq(Nodes')
        BY <3>1, <4>1, SplitChildren DEF n
      <4> QED  BY <2>2, <4>2
    <3>2. CASE ~(m = p /\ Len(ends) > 1)
      <4>1. node'[m].children = IF m \in Nodes /\ m # n THEN node[m].children ELSE <<>>
        BY <1>2, <3>2 DEF SplitField, p
      <4>2. m \in Nodes => Children(m) \subseteq Nodes
        BY DEF TreeInv, LinksInside
      <4>3. m \in Nodes
        BY <2>2, <4>1
      <4>4. node'[m].children[i] \in Children(m)
        BY <2>2, <4>1, <4>3 DEF Children
      <4> QED  BY <1>1, <4>2, <4>3, <4>4
    <3> QED  BY <3>1, <3>2
  <2>3. ASSUME NEW q \in freed' PROVE nodeCache'[q] # 0
    <3>1. n # 0 /\ (node[n].pgid # 0 => nodeCache[node[n].pgid] = n)
      BY <1>1 DEF TreeInv, TreeLinked
    <3> QED  BY <1>3, <2>3, <3>1 DEF TreeInv, LinksInside
  <2> QED  BY <1>2, <2>1, <2>2, <2>3 DEF LinksInside, Children
<1> QED  BY <1>5, <1>6, <1>7

LEMMA SplitLinks ==
  ASSUME TreeInv, NEW ends \in Seq(Nat), SpillSplit(ends)
  PROVE  TreeLinked'
<1> DEFINE n == Top.node
           lo == Lo(n, ends)
           p == SplitParent(n, ends)
           a == Above(n, ends)
           e == Elders(n, ends)
           ch == e \o News(n, ends)
           many == Len(ends) > 1
           x == Len(ends) - 1
<1>1. /\ n \in Nodes /\ Nodes = 1 .. made /\ made \in Nat /\ made' \in Nat /\ x \in Nat
      /\ lo \in Nat /\ made <= lo /\ Nodes' = 1 .. made' /\ made' = lo + x /\ (many <=> x > 0)
      /\ Nodes \subseteq Nodes' /\ node[n].parent # n /\ (\A c \in Children(n) : node[c].pgid = 0)
      /\ (a = 0 => p = node[n].parent /\ (many => p # 0))
      /\ (a = 1 => many /\ p = made + 1 /\ node[n].parent = 0) /\ a \in {0, 1} /\ lo = made + a
  <2>1. Above(Top.node, ends) = 1 => node[Top.node].parent = 0
    BY DEF Above
  <2> QED  BY SMTT(40), <2>1, SplitNumbers DEF Nodes
<1>2. ASSUME NEW m \in Nodes'
      PROVE  /\ node'[m].pgid = IF m \in Nodes /\ m # n THEN node[m].pgid ELSE 0
             /\ node'[m].parent = IF m = n \/ m > lo THEN p
                                  ELSE IF m \in Nodes THEN node[m].parent ELSE 0
             /\ node'[m].children = IF m = p /\ many THEN ch
                                    ELSE IF m \in Nodes /\ m # n THEN node[m].children ELSE <<>>
  BY SplitFields DEF SplitField
<1>3. many => /\ p \in Nodes' /\ e \in Seq(Nodes) /\ Len(e) \in Nat /\ ch \in Seq(Nodes')
              /\ Len(ch) = Len(e) + x
              /\ \A i \in 1 .. Len(e) + x :
                   ch[i] = IF i <= Len(e) THEN e[i] ELSE lo + (i - Len(e))
              /\ \A i, j \in DOMAIN e : e[i] = e[j] => i = j
              /\ n \in {e[i] : i \in DOMAIN e} \/ (a = 0 /\ n \notin Children(node[n].parent))
              /\ \A i \in DOMAIN e : e[i] = n \/ (a = 0 /\ node[e[i]].parent = node[n].parent)
  <2> SUFFICES ASSUME many PROVE Len(ends) > 1
    BY SplitChildren, SplitNumbers
  <2> QED  OBVIOUS
<1>4. nodeCache' = nodeCache /\ freed' = freed \cup ({node[n].pgid} \ {0})
  BY SplitNodes
<1>5. ASSUME NEW m \in Nodes
      PROVE  /\ node[m].children \in Seq(Nodes)
             /\ \A i \in DOMAIN node[m].children :
                  node[m].children[i] \in Nodes /\ node[node[m].children[i]].parent = m
             /\ \A i, j \in DOMAIN node[m].children :
                  node[m].children[i] = node[m].children[j] => i = j
             /\ node[m].parent \in 0 .. made
  <2>1. m \in NodeId
    BY SplitNumbers
  <2>2. node[m].children \in Seq(NodeId)
    BY <2>1 DEF TreeInv, TreeTypeOK, NodeRecord
  <2>3. \A i \in DOMAIN node[m].children : node[m].children[i] \in Nodes
    BY DEF TreeInv, LinksInside, Children
  <2>4. node[m].children \in Seq(Nodes)
    BY <2>2, <2>3
  <2> QED  BY <2>3, <2>4 DEF TreeInv, LinksInside, TreeLinked, Children
<1>6. many /\ a = 0 => p \in Nodes /\ e = node[p].children
  BY SMTT(40), <1>1, <1>5 DEF Elders, a
<1> HIDE DEF n, lo, p, a, e, ch, many, x
<1>14. ASSUME many PROVE DOMAIN e = 1 .. Len(e) /\ \A k \in 1 .. Len(e) : e[k] \in Nodes
  <2>1. e \in Seq(Nodes)
    BY <1>3, <1>14
  <2> QED  BY <2>1
<1>15. \A k \in 0 .. made : k # 0 => k \in Nodes /\ k \in Nodes'
  BY <1>1
\* The children of a node that the split does not give new ones to.
<1>7. ASSUME NEW m \in Nodes', ~(m = p /\ many), NEW i \in DOMAIN node'[m].children
      PROVE  /\ m \in Nodes /\ m # n /\ node'[m].children = node[m].children
             /\ node'[node'[m].children[i]].parent = m
  <2>1. m \in Nodes /\ m # n /\ node'[m].children = node[m].children
    BY <1>2, <1>7
  <2> DEFINE c == node[m].children[i]
  <2>2. c \in Nodes /\ node[c].parent = m /\ c \in Nodes'
    BY <1>1, <1>5, <1>7, <2>1
  <2>3. ~(c > lo) /\ m # 0
    BY <1>1, <2>1, <2>2
  <2>4. c = n => p = m
    BY <1>1, <1>7, <2>1, <2>2
  <2>5. node'[c].parent = IF c = n THEN p ELSE node[c].parent
    BY <1>2, <2>2, <2>3
  <2> QED  BY <2>1, <2>2, <2>4, <2>5
<1>8. ASSUME many, NEW i \in 1 .. Len(e) + x
      PROVE  node'[ch[i]].parent = p
  <2>1. CASE i <= Len(e)
    <3> DEFINE c == ch[i]
    <3>1. i \in DOMAIN e /\ c = e[i] /\ c \in Nodes /\ c \in Nodes'
      <4>1. i \in 1 .. Len(e)
        BY <1>3, <1>8, <2>1
      <4> QED  BY <1>1, <1>3, <1>8, <1>14, <2>1, <4>1
    <3>2. c = n \/ (a = 0 /\ node[c].parent = node[n].parent)
      BY <1>3, <1>8, <3>1
    <3>3. ~(c > lo)
      BY <1>1, <3>1
    <3>4. node'[c].parent = IF c = n THEN p ELSE node[c].parent
      BY <1>2, <3>1, <3>3
    <3> QED  BY <1>1, <3>2, <3>4
  <2>2. CASE i > Len(e)
    <3>1. ch[i] = lo + (i - Len(e)) /\ i - Len(e) \in 1 .. x
      BY <1>1, <1>3, <1>8, <2>2
    <3>2. ch[i] \in Nodes' /\ ch[i] > lo
      BY SMTT(40), <1>1, <3>1
    <3> QED  BY <1>2, <3>2
  <2> QED  BY <1>3, <1>8, <2>1, <2>2
<1>9. ASSUME many, NEW i \in 1 .. Len(e) + x, NEW j \in 1 .. Len(e) + x, ch[i] = ch[j]
      PROVE  i = j
  <2>1. \A k \in 1 .. Len(e) : k \in DOMAIN e /\ e[k] \in 1 .. made
    BY <1>1, <1>9, <1>14
  <2>2. CASE i <= Len(e) /\ j <= Len(e)
    BY <1>3, <1>9, <2>1, <2>2
  <2>3. CASE i > Len(e) /\ j > Len(e)
    BY <1>1, <1>3, <1>9, <2>3
  <2>4. CASE i <= Len(e) /\ j > Len(e)
    BY <1>1, <1>3, <1>9, <2>1, <2>4
  <2>5. CASE i > Len(e) /\ j <= Len(e)
    BY <1>1, <1>3, <1>9, <2>1, <2>5
  <2> QED  BY <1>3, <1>9, <2>2, <2>3, <2>4, <2>5
<1>10. many => node'[p].children = ch /\ DOMAIN ch = 1 .. Len(e) + x
  BY <1>2, <1>3
<1>11. ASSUME NEW m \in Nodes', NEW i \in DOMAIN node'[m].children, NEW j \in DOMAIN node'[m].children
       PROVE  /\ node'[node'[m].children[i]].parent = m
              /\ node'[m].children[i] = node'[m].children[j] => i = j
  <2>1. CASE m = p /\ many
    BY <1>8, <1>9, <1>10, <1>11, <2>1
  <2>2. CASE ~(m = p /\ many)
    BY <1>5, <1>7, <1>11, <2>2
  <2> QED  BY <2>1, <2>2
<1>16. ASSUME NEW m \in Nodes, node[m].parent # 0, m \notin Children(node[m].parent)
       PROVE  node[m].pgid = 0 /\ node[node[m].parent].pgid = 0
  BY <1>16 DEF TreeInv, TreeLinked
\* The children of a node that are its children still.
<1>17. ASSUME NEW q \in Nodes, q # n, NEW m \in Children(q)
       PROVE  \E i \in DOMAIN node'[q].children : m = node'[q].children[i]
  <2>1. PICK i \in DOMAIN node[q].children : m = node[q].children[i]
    BY DEF Children
  <2>2. q \in Nodes'
    BY <1>1
  <2>3. CASE q = p /\ many
    <3>1. a = 0
      BY <1>1, <2>3
    <3>2. e = node[q].children /\ i \in DOMAIN e
      BY <1>6, <2>1, <2>3, <3>1
    <3>3. i \in 1 .. Len(e) + x /\ i <= Len(e)
      <4>1. Len(e) \in Nat /\ i \in 1 .. Len(e)
        BY <1>3, <1>14, <2>3, <3>2
      <4> QED  BY <1>1, <4>1
    <3>4. ch[i] = e[i]
      BY <1>3, <2>3, <3>3
    <3> QED  BY <1>10, <2>1, <2>3, <3>2, <3>3, <3>4
  <2>4. CASE ~(q = p /\ many)
    BY <1>2, <1>17, <2>1, <2>2, <2>4
  <2> QED  BY <2>3, <2>4
<1>12. ASSUME NEW m \in Nodes', node'[m].parent # 0, m \notin Children(node[m].parent)'
       PROVE  node'[m].pgid = 0 /\ node'[node'[m].parent].pgid = 0
  <2> DEFINE r == node'[m].parent
  <2>0. ~\E i \in DOMAIN node'[r].children : m = node'[r].children[i]
    BY <1>12 DEF Children
  <2>1. CASE m > lo
    <3>1. r = p /\ many
      BY <1>1, <1>2, <2>1
    <3>2. Len(e) + (m - lo) \in 1 .. Len(e) + x /\ ~(Len(e) + (m - lo) <= Len(e))
          /\ lo + ((Len(e) + (m - lo)) - Len(e)) = m
      <4>1. Len(e) \in Nat /\ lo \in Nat /\ x \in Nat /\ m \in Nat /\ lo < m /\ m <= lo + x
        BY <1>1, <1>3, <2>1, <3>1
      <4> QED  BY <4>1
    <3>3. m = ch[Len(e) + (m - lo)] /\ Len(e) + (m - lo) \in DOMAIN node'[p].children
      BY <1>3, <1>10, <3>1, <3>2
    <3> QED  BY <1>10, <2>0, <3>1, <3>3
  <2>2. CASE m = n
    <3>1. r = p /\ p # 0 /\ node'[m].pgid = 0
      BY <1>1, <1>2, <1>12, <2>2
    <3>2. a = 0
      <4> SUFFICES ASSUME a # 0 PROVE FALSE
        OBVIOUS
      <4>1. PICK i \in DOMAIN e : n = e[i]
        BY <1>1, <1>3
      <4>2. i \in 1 .. Len(e) /\ i <= Len(e) /\ i \in 1 .. Len(e) + x
        BY SMTT(40), <1>1, <1>3, <1>14, <4>1
      <4>3. ch[i] = n /\ i \in DOMAIN node'[p].children /\ node'[p].children = ch
        BY <1>1, <1>3, <1>10, <4>1, <4>2
      <4> QED  BY <2>0, <2>2, <3>1, <4>3
    <3>3. p = node[n].parent /\ p # n /\ p \in Nodes /\ p \in Nodes'
      BY <1>1, <1>5, <1>15, <3>1, <3>2
    <3>4. n \notin Children(p)
      BY <1>17, <2>0, <2>2, <3>1, <3>3
    <3>5. node[p].pgid = 0
      BY <1>1, <1>16, <3>1, <3>3, <3>4
    <3> QED  BY <1>2, <3>1, <3>3, <3>5
  <2>3. CASE ~(m = n \/ m > lo)
    <3> DEFINE q == node[m].parent
    <3>1. m \in Nodes /\ r = q /\ q # 0 /\ node'[m].pgid = node[m].pgid
      BY <1>2, <1>12, <2>3
    <3>2. q \in Nodes /\ q \in Nodes'
      BY <1>5, <1>15, <3>1
    <3> HIDE DEF q, r
    <3>3. CASE m \notin Children(q)
      <4>1. node[m].pgid = 0 /\ node[q].pgid = 0
        BY <1>16, <3>1, <3>3 DEF q
      <4> QED  BY <1>2, <3>1, <3>2, <4>1 DEF r
    <3>4. CASE m \in Children(q)
      <4>1. q = n
        BY <1>17, <2>0, <3>1, <3>2, <3>4
      <4>2. node[m].pgid = 0
        BY <1>1, <3>4, <4>1
      <4> QED  BY <1>2, <3>1, <3>2, <4>1, <4>2 DEF r
    <3> QED  BY <3>3, <3>4
  <2> QED  BY <2>1, <2>2, <2>3
<1>13. ASSUME NEW m \in Nodes', node'[m].pgid # 0
       PROVE  nodeCache'[node'[m].pgid] = m /\ node'[m].pgid \notin freed'
  <2>1. m \in Nodes /\ m # n /\ node'[m].pgid = node[m].pgid
    BY <1>2, <1>13
  <2>2. nodeCache[node[m].pgid] = m /\ node[m].pgid \notin freed
    BY <1>13, <2>1 DEF TreeInv, TreeLinked
  <2>3. node[m].pgid # node[n].pgid
    BY <1>1, <1>13, <2>1, <2>2 DEF TreeInv, TreeLinked
  <2> QED  BY <1>4, <2>1, <2>2, <2>3
<1> QED  BY <1>11, <1>12, <1>13 DEF TreeLinked

\* A node that was split has no page; a call that is left awaits what it did, but for
\* that node.
LEMMA SplitPending ==
  ASSUME TreeInv, NEW ends \in Seq(Nat), SpillSplit(ends)
  PROVE  Pending'
<1> DEFINE n == Top.node
           last == Len(stack)
<1>1. /\ stack \in Seq(Frame) /\ last \in Nat /\ DOMAIN stack = 1 .. last
      /\ last \in DOMAIN stack /\ stack[last].node = n
  <2>1. stack \in Seq(Frame) /\ stack # <<>>
    BY DEF TreeInv, TreeTypeOK, SpillSplit
  <2> QED  BY SMTT(40), <2>1 DEF Top
<1>2. \A m \in Nodes' : SplitField(n, ends, m)
  BY SplitFields
<1>3. Nodes \subseteq Nodes' /\ n \in Nodes
  BY SplitNumbers
<1>4. SpillReturns
  BY SplitNodes
<1> HIDE DEF n, last
<1>5. \A k \in DOMAIN stack : FrameInside(stack[k])
  BY DEF TreeInv, Pending
<1>6. CASE stack' = <<>>
  BY <1>6 DEF Pending
<1>7. CASE stack' = SubSeq(stack, 1, last - 1)
  <2>1. /\ DOMAIN stack' = 1 .. last - 1 /\ Len(stack') = last - 1
        /\ \A k \in 1 .. last - 1 : stack'[k] = stack[k] /\ k \in DOMAIN stack
    BY <1>1, <1>7
  <2>2. ASSUME NEW k \in DOMAIN stack'
        PROVE  /\ stack'[k].node \in Nodes'
               /\ \A i \in DOMAIN stack'[k].rest : stack'[k].rest[i] \in Nodes'
    BY <1>3, <1>5, <2>1 DEF FrameInside
  <2>3. ASSUME NEW k \in DOMAIN stack',
               NEW i \in DOMAIN node'[stack'[k].node].children
        PROVE  \/ node'[node'[stack'[k].node].children[i]].pgid = 0
               \/ Awaits(stack', k, node'[stack'[k].node].children[i])
    <3> DEFINE m == stack[k].node
               c == node'[m].children[i]
    <3>1. m \in Nodes /\ m \in Nodes' /\ stack'[k] = stack[k] /\ k \in 1 .. last - 1
      BY <1>3, <1>5, <2>1 DEF FrameInside
    <3>2. c \in Nodes' /\ (c \in Nodes => c = n \/ c \in Children(m))
      <4>1. CASE m = SplitParent(n, ends) /\ Len(ends) > 1
        <5> DEFINE e == Elders(n, ends)
                   ch == e \o News(n, ends)
        <5>1. /\ node'[m].children = ch /\ ch \in Seq(Nodes') /\ e \in Seq(Nodes) /\ Len(e) \in Nat
              /\ Len(ch) = Len(e) + Len(ends) - 1
              /\ \A j \in 1 .. Len(e) + Len(ends) - 1 :
                   ch[j] = IF j <= Len(e) THEN e[j] ELSE Lo(n, ends) + (j - Len(e))
          BY <1>2, <3>1, <4>1, SplitChildren DEF SplitField, n
        <5>2. Above(n, ends) = 0 /\ e = node[m].children
          <6>1. Above(n, ends) \in {0, 1} /\ made \in Nat /\ Nodes = 1 .. made
                /\ (Above(n, ends) = 1 => SplitParent(n, ends) = made + 1)
                /\ (Above(n, ends) = 0 => SplitParent(n, ends) = node[n].parent)
            BY SplitNumbers DEF n, Nodes
          <6>2. Above(n, ends) = 0
            BY <3>1, <4>1, <6>1
          <6> QED  BY <4>1, <6>1, <6>2 DEF Elders
        <5>3. Lo(n, ends) \in Nat /\ Len(ends) \in Nat /\ made \in Nat /\ Nodes = 1 .. made
              /\ Lo(n, ends) >= made
          BY SplitNumbers DEF n, Nodes
        <5> HIDE DEF e, ch
        <5>4. i \in 1 .. Len(ch) /\ ch[i] \in Nodes' /\ c = ch[i]
          <6>1. i \in DOMAIN ch
            BY <2>3, <3>1, <5>1
          <6> QED  BY <5>1, <6>1
        <5>5. CASE i <= Len(e)
          <6>1. ch[i] = e[i] /\ i \in DOMAIN e
            BY SMTT(40), <5>1, <5>3, <5>4, <5>5
          <6> QED  BY <5>2, <5>4, <6>1 DEF Children
        <5>6. CASE i > Len(e)
          <6>1. ch[i] = Lo(n, ends) + (i - Len(e))
            <7>1. i \in 1 .. Len(e) + Len(ends) - 1 /\ ~(i <= Len(e))
              BY <5>1, <5>3, <5>4, <5>6
            <7> QED  BY <5>1, <7>1
          <6>2. ch[i] > made
            BY <5>1, <5>3, <5>4, <5>6, <6>1
          <6>3. ch[i] \notin Nodes
            BY <5>3, <6>2
          <6> QED  BY <5>4, <6>3
        <5> QED  BY <5>1, <5>4, <5>5, <5>6
      <4>2. CASE ~(m = SplitParent(n, ends) /\ Len(ends) > 1)
        <5>1. node'[m].children = IF m # n THEN node[m].children ELSE <<>>
          BY <1>2, <3>1, <4>2 DEF SplitField
        <5>2. i \in DOMAIN node[m].children /\ c = node[m].children[i]
          BY <2>3, <3>1, <5>1
        <5>3. Children(m) \subseteq Nodes
          BY <3>1 DEF TreeInv, LinksInside
        <5> QED  BY <1>3, <5>2, <5>3 DEF Children
      <4> QED  BY <4>1, <4>2
    <3> HIDE DEF c, m
    <3>3. node'[c].pgid = IF c \in Nodes /\ c # n THEN node[c].pgid ELSE 0
      BY <1>2, <3>2 DEF SplitField
    <3>4. CASE c \in Nodes /\ c # n
      <4>1. node[c].pgid = 0 \/ Awaits(stack, k, c)
        BY <2>1, <3>1, <3>2, <3>4 DEF TreeInv, Pending, m
      <4>2. Awaits(stack, k, c) => Awaits(stack', k, c)
        <5>1. k < last /\ k + 1 \in 1 .. last /\ (k + 1 < last => stack'[k + 1] = stack[k + 1])
          BY <1>1, <2>1, <3>1
        <5>2. k + 1 = last => stack[k + 1].node # c
          BY <1>1, <3>4
        <5>3. k + 1 # last => k + 1 < last /\ k < last - 1
          BY <1>1, <3>1, <5>1
        <5> QED  BY <2>1, <3>1, <5>1, <5>2, <5>3 DEF Awaits, last
      <4> QED  BY <3>1, <3>3, <4>1, <4>2 DEF c, m
    <3>5. CASE ~(c \in Nodes /\ c # n)
      BY <3>1, <3>3, <3>5 DEF c, m
    <3> QED  BY <3>4, <3>5
  <2> QED  BY <2>2, <2>3 DEF Pending, FrameInside, Children
<1> QED  BY <1>4, <1>6, <1>7 DEF SpillReturns, last

LEMMA EndsAreSeq ==
  ASSUME NEW parts \in 1 .. MaxInodes, NEW ends \in [1 .. parts -> 0 .. MaxInodes]
  PROVE  ends \in Seq(Nat)
<1>1. parts \in Nat /\ ends \in [1 .. parts -> Nat]
  BY NodeTreeAssumption
<1> QED  BY <1>1, SeqDef

LEMMA TreeInvStep == TreeInv /\ [TreeNext]_treeVars => TreeInv'
<1> SUFFICES ASSUME TreeInv, [TreeNext]_treeVars PROVE TreeInv'
  OBVIOUS
<1>1. CASE Root
  BY <1>1, RootStep
<1>2. CASE \E n \in Nodes : \E i \in 1 .. MaxInodes : ChildAt(n, i)
  BY <1>2, ChildAtStep
<1>3. ASSUME NEW n \in Nodes, NextSibling(n) \/ PrevSibling(n) PROVE TreeInv'
  <2>1. node[n].parent \in Nodes
    BY <1>3 DEF NextSibling, PrevSibling, TreeInv, LinksInside, Nodes
  <2> QED  BY <1>3, <2>1, ChildAtStep DEF NextSibling, PrevSibling
<1>4. CASE \E n \in Nodes : \E old, new \in Key, value \in Value : Put(n, old, new, value)
  BY <1>4, PutStep
<1>5. CASE \E n \in Nodes : \E key \in Key : Remove(n, key)
  BY <1>5, RemoveStep
<1>6. CASE SpillRoot
  BY <1>6, SpillRootStep
<1>7. CASE SpillChild
  BY <1>7, SpillChildStep
<1>9. ASSUME NEW parts \in 1 .. MaxInodes, NEW ends \in [1 .. parts -> 0 .. MaxInodes],
             SpillSplit(ends)
      PROVE  TreeInv'
  BY SMTT(40), <1>9, EndsAreSeq, SplitTypes, SplitLinks, SplitPending DEF TreeInv
<1>10. CASE UNCHANGED treeVars
  <2>1. TreeTypeOK' /\ PagesKnown' /\ LinksInside'
    BY <1>10 DEF treeVars, TreeInv, TreeTypeOK, PagesKnown, LinksInside,
                 Nodes, Children, FirstKey, NamesPage
  <2>2. TreeLinked' /\ Pending'
    BY <1>10 DEF treeVars, TreeInv, TreeLinked, Pending, FrameInside, Nodes, Children
  <2> QED  BY SMTT(40), <2>1, <2>2 DEF TreeInv
<1>11. CASE Ends
  BY <1>10, <1>11 DEF Ends
<1> QED  BY <1>1, <1>2, <1>3, <1>4, <1>5, <1>6, <1>7, <1>9, <1>10, <1>11 DEF TreeNext

LEMMA TreeInvariance == TreeSpec => []TreeInv
BY TreeInitInv, TreeInvStep, PTL DEF TreeSpec

\* The nodes of a bucket form one tree, the cache knows each of them by its page, and
\* no node has a page that was given back (bucket.cpp 16-48, node.cpp 41-94, 347-381).
THEOREM NodesAreLinked == TreeSpec => []TreeLinked
<1>1. TreeInv => TreeLinked
  BY DEF TreeInv
<1> QED  BY <1>1, TreeInvariance, PTL

-----------------------------------------------------------------------------
LEMMA NodeInodes ==
  ASSUME TreeInv, NEW n \in Nodes
  PROVE  n \in NodeId /\ inodes[n] \in Seq(Inode)
<1>1. n \in NodeId
  BY NodeTreeAssumption DEF TreeInv, TreeTypeOK, Nodes, NodeId
<1> QED  BY <1>1 DEF TreeInv, TreeTypeOK

\* Sizes do not descend, and a key is not its neighbour's.
Ascends(s) ==
  /\ \A i, j \in DOMAIN s : i < j => Size(s[i].key) <= Size(s[j].key)
  /\ \A i, j \in DOMAIN s : j = i + 1 => s[i].key # s[j].key

NodesAscend == \A n \in Nodes : Ascends(inodes[n])

LEMMA SizesAreNat ==
  /\ \A k \in Key : Size(k) \in Nat /\ Size(k) = KeySize[k]
  /\ \A s \in Seq(Inode) : \A k \in DOMAIN s : s[k].key \in Key /\ Size(s[k].key) \in Nat
<1>1. \A k \in Key : Size(k) \in Nat /\ Size(k) = KeySize[k]
  BY NodeTreeAssumption DEF Size
<1>2. ASSUME NEW s \in Seq(Inode), NEW k \in DOMAIN s PROVE s[k].key \in Key
  <2>1. s[k] \in Inode
    OBVIOUS
  <2> QED  BY <2>1 DEF Inode
<1> QED  BY <1>1, <1>2

\* Between two elements with one key there is another key of its size.
LEMMA OtherBetween ==
  ASSUME NEW s \in Seq(Inode), Ascends(s), NEW i \in DOMAIN s, NEW j \in DOMAIN s,
         i < j, s[i].key = s[j].key
  PROVE  \E k \in DOMAIN s : /\ k \in i .. j
                             /\ s[k].key # s[i].key /\ Size(s[k].key) = Size(s[i].key)
<1>1. DOMAIN s = 1 .. Len(s) /\ Len(s) \in Nat
  OBVIOUS
<1>2. i + 1 \in DOMAIN s /\ i + 1 \in i .. j /\ i < i + 1 /\ (i + 1 = j \/ i + 1 < j)
  BY <1>1
<1>3. s[i + 1].key # s[i].key
  BY <1>2 DEF Ascends
<1>4. i + 1 < j
  BY <1>2, <1>3
<1>5. Size(s[i].key) <= Size(s[i + 1].key) /\ Size(s[i + 1].key) <= Size(s[j].key)
  BY <1>2, <1>4 DEF Ascends
<1>6. Size(s[i].key) \in Nat /\ Size(s[i + 1].key) \in Nat
  BY <1>2, SizesAreNat
<1>7. Size(s[i + 1].key) = Size(s[i].key)
  BY <1>5, <1>6
<1> QED  BY <1>2, <1>3, <1>7

LEMMA AscendIsOrder == TreeInv /\ NodesAscend => KeysAscend
<1> SUFFICES ASSUME TreeInv, NodesAscend, NEW n \in Nodes,
                    NEW i \in DOMAIN inodes[n], NEW j \in DOMAIN inodes[n], i < j
             PROVE  /\ Size(inodes[n][i].key) <= Size(inodes[n][j].key)
                    /\ inodes[n][i].key = inodes[n][j].key =>
                         \E k \in i .. j : inodes[n][k].key # inodes[n][i].key
  BY DEF KeysAscend
<1>1. inodes[n] \in Seq(Inode) /\ Ascends(inodes[n])
  BY NodeInodes DEF NodesAscend
<1>2. Size(inodes[n][i].key) <= Size(inodes[n][j].key)
  BY <1>1 DEF Ascends
<1>3. ASSUME inodes[n][i].key = inodes[n][j].key
      PROVE  \E k \in i .. j : inodes[n][k].key # inodes[n][i].key
  BY <1>1, <1>3, OtherBetween
<1> QED  BY <1>2, <1>3

\* What put does to the inodes of a leaf.
PutIn(s, old, entry) ==
  LET i == LowerBound(s, old)
  IN  IF i <= Len(s) /\ s[i].key = old THEN [s EXCEPT ![i] = entry]
      ELSE [j \in 1 .. Len(s) + 1 |-> IF j < i THEN s[j] ELSE IF j = i THEN entry ELSE s[j - 1]]

\* What put expects of the new key, of the inodes alone.
HasPlace(s, old, new) ==
  \A i \in DOMAIN s :
    /\ new # old => s[i].key # new
    /\ ~(i = LowerBound(s, old) /\ s[i].key = old) =>
         (Size(s[i].key) < Size(old) <=> Size(s[i].key) < Size(new))

\* Where the old key is, or would be, is where the new one belongs.
LEMMA PutPlace ==
  ASSUME NEW s \in Seq(Inode), Ascends(s), NEW old \in Key, NEW new \in Key,
         HasPlace(s, old, new)
  PROVE  /\ LowerBound(s, old) \in 1 .. Len(s) + 1
         /\ \A k \in DOMAIN s : k < LowerBound(s, old) => Size(s[k].key) < Size(new)
         /\ \A k \in DOMAIN s : k > LowerBound(s, old) => Size(s[k].key) >= Size(new)
         /\ LowerBound(s, old) \in DOMAIN s /\ s[LowerBound(s, old)].key # old =>
              /\ Size(s[LowerBound(s, old)].key) >= Size(new)
              /\ s[LowerBound(s, old)].key # new
         /\ LowerBound(s, old) \in DOMAIN s /\ s[LowerBound(s, old)].key = old =>
              \A k \in DOMAIN s : k = LowerBound(s, old) + 1 => s[k].key # new
<1> DEFINE i == LowerBound(s, old)
           z(k) == Size(s[k].key)
<1>1. /\ i \in 1 .. Len(s) + 1 /\ Len(s) \in Nat /\ DOMAIN s = 1 .. Len(s)
      /\ \A k \in 1 .. i - 1 : z(k) < Size(old)
      /\ i <= Len(s) => z(i) >= Size(old)
  BY LowerBoundIs
<1>2. Size(old) \in Nat /\ Size(new) \in Nat /\ \A k \in DOMAIN s : z(k) \in Nat
  BY SizesAreNat
<1>3. \A k, l \in DOMAIN s : k < l => z(k) <= z(l)
  BY DEF Ascends
<1>4. ASSUME NEW k \in DOMAIN s
      PROVE  /\ new # old => s[k].key # new
             /\ ~(k = i /\ s[k].key = old) => (z(k) < Size(old) <=> z(k) < Size(new))
  BY DEF HasPlace
<1>5. \A k \in DOMAIN s : k = i + 1 /\ i \in DOMAIN s => s[i].key # s[k].key
  BY DEF Ascends
<1> HIDE DEF i, z
<1>6. ASSUME NEW k \in DOMAIN s, k < i PROVE z(k) < Size(new)
  <2>1. k \in 1 .. i - 1 /\ k # i
    BY <1>1, <1>6
  <2> QED  BY <1>1, <1>4, <2>1
<1>7. ASSUME NEW k \in DOMAIN s, k > i PROVE z(k) >= Size(new)
  <2>1. i \in DOMAIN s /\ i <= Len(s) /\ z(i) <= z(k) /\ z(i) >= Size(old) /\ k # i
    BY <1>1, <1>3, <1>7
  <2>2. ~(z(k) < Size(old))
    BY <1>2, <2>1
  <2> QED  BY <1>2, <1>4, <2>1, <2>2
<1>8. ASSUME i \in DOMAIN s, s[i].key # old PROVE z(i) >= Size(new) /\ s[i].key # new
  <2>1. ~(z(i) < Size(old))
    BY <1>1, <1>2, <1>8
  <2> QED  BY <1>2, <1>4, <1>8, <2>1
<1>9. ASSUME i \in DOMAIN s, s[i].key = old, NEW k \in DOMAIN s, k = i + 1 PROVE s[k].key # new
  BY <1>4, <1>5, <1>9
<1> QED  BY <1>1, <1>6, <1>7, <1>8, <1>9 DEF i, z

LEMMA PutAscends ==
  ASSUME NEW s \in Seq(Inode), Ascends(s), NEW old \in Key, NEW new \in Key,
         HasPlace(s, old, new), NEW entry, entry.key = new
  PROVE  Ascends(PutIn(s, old, entry))
<1> DEFINE i == LowerBound(s, old)
           t == PutIn(s, old, entry)
           w(k) == s[k].key
           v(k) == t[k].key
<1>1. /\ i \in 1 .. Len(s) + 1 /\ Len(s) \in Nat /\ DOMAIN s = 1 .. Len(s)
      /\ \A k \in DOMAIN s : k < i => Size(w(k)) < Size(new)
      /\ \A k \in DOMAIN s : k > i => Size(w(k)) >= Size(new)
      /\ i \in DOMAIN s /\ w(i) # old => Size(w(i)) >= Size(new) /\ w(i) # new
      /\ i \in DOMAIN s /\ w(i) = old => \A k \in DOMAIN s : k = i + 1 => w(k) # new
  BY PutPlace
<1>2. /\ \A k, l \in DOMAIN s : k < l => Size(w(k)) <= Size(w(l))
      /\ \A k, l \in DOMAIN s : l = k + 1 => w(k) # w(l)
  BY DEF Ascends
<1>3. Size(new) \in Nat /\ \A k \in DOMAIN s : Size(w(k)) \in Nat
  BY SizesAreNat
<1>6. \A k \in DOMAIN s : k < i => w(k) # new
  BY <1>1, <1>3
<1> SUFFICES ASSUME NEW k \in DOMAIN t, NEW l \in DOMAIN t, k < l
             PROVE  Size(v(k)) <= Size(v(l)) /\ (l = k + 1 => v(k) # v(l))
  <2>1. DOMAIN t \subseteq Int
    <3> HIDE DEF i
    <3>1. DOMAIN t = DOMAIN s \/ DOMAIN t = 1 .. Len(s) + 1
      BY DEF PutIn
    <3> QED  BY <1>1, <3>1
  <2> HIDE DEF t
  <2>2. \A k, l \in DOMAIN t : l = k + 1 => k < l
    BY <2>1
  <2>3. Ascends(t)
    BY <2>2 DEF Ascends
  <2> QED  BY <2>3 DEF t
<1>4. CASE i <= Len(s) /\ s[i].key = old
  <2>1. t = [s EXCEPT ![i] = entry]
    BY <1>4 DEF PutIn
  <2> HIDE DEF i, t
  <2>2. i \in DOMAIN s /\ DOMAIN t = DOMAIN s /\ k \in DOMAIN s /\ l \in DOMAIN s /\ w(i) = old
    BY <1>1, <1>4, <2>1
  <2>3. \A x \in DOMAIN s : v(x) = IF x = i THEN new ELSE w(x)
    BY <2>1, <2>2
  <2> HIDE DEF w, v
  <2>4. CASE k = i
    BY <1>1, <1>3, <2>2, <2>3, <2>4
  <2>5. CASE l = i
    <3>1. Size(w(k)) < Size(new) /\ w(k) # new /\ Size(w(k)) \in Nat /\ v(k) = w(k) /\ v(l) = new
      BY <1>1, <1>3, <1>6, <2>2, <2>3, <2>5
    <3> QED  BY <1>3, <3>1
  <2>6. CASE k # i /\ l # i
    BY <1>2, <2>2, <2>3, <2>6
  <2> QED  BY <2>4, <2>5, <2>6
<1>5. CASE ~(i <= Len(s) /\ s[i].key = old)
  <2>1. t = [j \in 1 .. Len(s) + 1 |->
               IF j < i THEN s[j] ELSE IF j = i THEN entry ELSE s[j - 1]]
    BY <1>5 DEF PutIn
  <2> HIDE DEF i, t
  <2>2. DOMAIN t = 1 .. Len(s) + 1
    BY <2>1
  <2>3. \A x \in 1 .. Len(s) + 1 :
          v(x) = IF x < i THEN w(x) ELSE IF x = i THEN new ELSE w(x - 1)
    BY <2>1
  <2>4. i \in DOMAIN s => Size(w(i)) >= Size(new) /\ w(i) # new
    BY <1>1, <1>5
  <2> HIDE DEF w, v
  <2>5. \A x \in 1 .. Len(s) + 1 :
          /\ x < i => /\ x \in DOMAIN s /\ v(x) = w(x)
                      /\ Size(w(x)) < Size(new) /\ w(x) # new
          /\ x = i => v(x) = new
          /\ x > i => /\ x - 1 \in DOMAIN s /\ v(x) = w(x - 1)
                      /\ Size(w(x - 1)) >= Size(new) /\ (x - 1 = i => w(x - 1) # new)
    <3> SUFFICES ASSUME NEW x \in 1 .. Len(s) + 1
                 PROVE  /\ x < i => /\ x \in DOMAIN s /\ v(x) = w(x)
                                    /\ Size(w(x)) < Size(new) /\ w(x) # new
                        /\ x = i => v(x) = new
                        /\ x > i => /\ x - 1 \in DOMAIN s /\ v(x) = w(x - 1)
                                    /\ Size(w(x - 1)) >= Size(new) /\ (x - 1 = i => w(x - 1) # new)
      OBVIOUS
    <3>1. CASE x < i
      <4>1. x \in DOMAIN s
        BY <1>1, <3>1
      <4> QED  BY <1>1, <1>6, <2>3, <3>1, <4>1
    <3>2. CASE x = i
      BY <1>1, <2>3, <3>2
    <3>3. CASE x > i
      <4>1. x - 1 \in DOMAIN s /\ (x - 1 = i \/ x - 1 > i) /\ v(x) = w(x - 1)
        BY <1>1, <2>3, <3>3
      <4>2. Size(w(x - 1)) >= Size(new) /\ (x - 1 = i => w(x - 1) # new)
        BY <1>1, <2>4, <4>1
      <4> QED  BY <1>1, <3>3, <4>1, <4>2
    <3> QED  BY <1>1, <3>1, <3>2, <3>3
  <2>6. k \in 1 .. Len(s) + 1 /\ l \in 1 .. Len(s) + 1 /\ k < l
    BY <2>2
  <2>7. CASE l < i
    <3>1. k < i
      BY <1>1, <2>6, <2>7
    <3> QED  BY <1>2, <2>5, <2>6, <2>7, <3>1
  <2>8. CASE k > i
    <3>1. l > i /\ k - 1 < l - 1 /\ (l = k + 1 => l - 1 = (k - 1) + 1)
      BY <1>1, <2>6, <2>8
    <3> QED  BY <1>2, <2>5, <2>6, <2>8, <3>1
  <2>9. CASE k <= i /\ i <= l
    <3>1. (k = i /\ l > i) \/ (k < i /\ l = i) \/ (k < i /\ l > i)
      BY <1>1, <2>6, <2>9
    <3>2. CASE k = i /\ l > i
      <4>1. /\ v(k) = new /\ l - 1 \in DOMAIN s /\ v(l) = w(l - 1)
            /\ Size(w(l - 1)) >= Size(new) /\ (l - 1 = i => w(l - 1) # new)
            /\ Size(w(l - 1)) \in Nat
        BY <1>3, <2>5, <2>6, <3>2
      <4>2. l = k + 1 => l - 1 = i
        BY <1>1, <2>6, <3>2
      <4> QED  BY <1>3, <4>1, <4>2
    <3>3. CASE k < i /\ l = i
      <4>1. v(k) = w(k) /\ v(l) = new /\ Size(w(k)) < Size(new) /\ w(k) # new /\ Size(w(k)) \in Nat
        BY <1>3, <2>5, <2>6, <3>3
      <4> QED  BY <1>3, <4>1
    <3>4. CASE k < i /\ l > i
      <4>1. /\ k \in DOMAIN s /\ v(k) = w(k) /\ Size(w(k)) < Size(new)
            /\ l - 1 \in DOMAIN s /\ v(l) = w(l - 1) /\ Size(w(l - 1)) >= Size(new)
        BY <2>5, <2>6, <3>4
      <4>2. Size(v(k)) < Size(v(l)) /\ Size(v(k)) \in Nat /\ Size(v(l)) \in Nat
        BY <1>3, <4>1
      <4> QED  BY <4>2
    <3> QED  BY <3>1, <3>2, <3>3, <3>4
  <2> QED  BY <1>1, <2>6, <2>7, <2>8, <2>9
<1> QED  BY <1>4, <1>5

LEMMA AscendsStep ==
  ASSUME TreeInv, NodesAscend, NEW n \in Nodes, NEW t, Ascends(t),
         inodes' = [inodes EXCEPT ![n] = t], UNCHANGED made
  PROVE  NodesAscend'
<1>1. Nodes' = Nodes /\ Nodes \subseteq NodeId /\ DOMAIN inodes = NodeId
  BY NodeTreeAssumption DEF TreeInv, TreeTypeOK, Nodes, NodeId
<1>2. \A m \in Nodes : inodes'[m] = IF m = n THEN t ELSE inodes[m]
  BY <1>1
<1>3. \A m \in Nodes : Ascends(inodes'[m])
  BY <1>2 DEF NodesAscend
<1> QED  BY <1>1, <1>3 DEF NodesAscend, Ascends, Size

LEMMA PutKeys ==
  ASSUME TreeInv, NodesAscend, NEW n \in Nodes, NEW old \in Key, NEW new \in Key,
         NEW value \in Value, Put(n, old, new, value)
  PROVE  NodesAscend'
<1> DEFINE s == inodes[n]
           entry == [key |-> new, value |-> value, pgid |-> 0]
<1>1. inodes' = [inodes EXCEPT ![n] = PutIn(s, old, entry)] /\ UNCHANGED made /\ TakesPlace(n, old, new)
  BY DEF Put, PutIn
<1>2. s \in Seq(Inode)
  BY NodeInodes
<1>3. Ascends(s)
  BY DEF NodesAscend
<1>4. HasPlace(s, old, new)
  BY <1>1 DEF TakesPlace, HasPlace
<1>5. entry.key = new
  OBVIOUS
<1> HIDE DEF s, entry
<1>6. Ascends(PutIn(s, old, entry))
  BY <1>2, <1>3, <1>4, <1>5, PutAscends
<1> QED  BY <1>1, <1>6, AscendsStep

\* What follows the first key of a size goes after it: the neighbours of what is removed
\* differ, the one before is smaller.
LEMMA RemoveKeys ==
  ASSUME TreeInv, NodesAscend, NEW n \in Nodes, NEW key \in Key, Remove(n, key)
  PROVE  NodesAscend'
<1> DEFINE s == inodes[n]
           i == LowerBound(s, key)
           t == [j \in 1 .. Len(s) - 1 |-> IF j < i THEN s[j] ELSE s[j + 1]]
<1>1. s \in Seq(Inode)
  BY NodeInodes
<1>2. /\ i \in 1 .. Len(s) + 1 /\ Len(s) \in Nat /\ DOMAIN s = 1 .. Len(s)
      /\ \A j \in 1 .. i - 1 : Size(s[j].key) < Size(key)
      /\ i <= Len(s) => Size(s[i].key) >= Size(key)
  BY <1>1, LowerBoundIs
<1>3. inodes' = [inodes EXCEPT ![n] = t] /\ UNCHANGED made
  BY DEF Remove
<1>4. /\ \A k, l \in DOMAIN s : k < l => Size(s[k].key) <= Size(s[l].key)
      /\ \A k, l \in DOMAIN s : l = k + 1 => s[k].key # s[l].key
  BY DEF NodesAscend, Ascends
<1>6. Size(key) \in Nat /\ \A k \in DOMAIN s : Size(s[k].key) \in Nat
  BY <1>1, SizesAreNat
<1> HIDE DEF s, i
<1>5. Ascends(t)
  <2> DEFINE at(x) == IF x < i THEN x ELSE x + 1
  <2>1. ASSUME NEW k \in DOMAIN t, NEW l \in DOMAIN t, k < l
        PROVE  /\ at(k) \in DOMAIN s /\ at(l) \in DOMAIN s /\ at(k) < at(l)
               /\ t[k] = s[at(k)] /\ t[l] = s[at(l)]
    BY <1>2, <2>1
  <2>2. ASSUME NEW k \in DOMAIN t, NEW l \in DOMAIN t, k < l
        PROVE  Size(t[k].key) <= Size(t[l].key)
    <3> HIDE DEF at, t
    <3> QED  BY <1>4, <2>1, <2>2
  <2>3. ASSUME NEW k \in DOMAIN t, NEW l \in DOMAIN t, l = k + 1
        PROVE  t[k].key # t[l].key
    <3>1. k < l /\ k \in Int /\ l \in Int
      BY <1>2, <2>3
    <3>2. CASE at(l) = at(k) + 1
      <4> HIDE DEF at, t
      <4> QED  BY <1>4, <2>1, <2>3, <3>1, <3>2
    <3>3. CASE at(l) # at(k) + 1
      <4>1. k \in 1 .. i - 1 /\ l = i /\ at(k) = k /\ at(l) = i + 1
        BY <1>2, <2>3, <3>1, <3>3
      <4>2. k \in DOMAIN s /\ i + 1 \in DOMAIN s /\ i \in DOMAIN s /\ i <= Len(s) /\ i < i + 1
        BY <1>2, <2>1, <2>3, <3>1, <4>1
      <4>3. Size(s[k].key) < Size(key) /\ Size(key) <= Size(s[i].key)
            /\ Size(s[i].key) <= Size(s[i + 1].key)
        BY <1>2, <1>4, <1>6, <4>1, <4>2
      <4>4. Size(s[k].key) < Size(s[i + 1].key)
        BY <1>6, <4>2, <4>3
      <4>5. t[k] = s[k] /\ t[l] = s[i + 1]
        BY <2>1, <2>3, <3>1, <4>1
      <4> QED  BY SMTT(40), <1>6, <4>2, <4>4, <4>5
    <3> QED  BY <3>2, <3>3
  <2> QED  BY <2>2, <2>3 DEF Ascends
<1> HIDE DEF t
<1> QED  BY <1>3, <1>5, AscendsStep

LEMMA MaterializeKeys ==
  ASSUME TreeInv, NodesAscend, NEW pg \in PageId, NEW parent, NEW links,
         Materialize(pg, parent, links)
  PROVE  NodesAscend'
<1>1. /\ made \in Nat /\ made' = made + 1 /\ made + 1 \in NodeId /\ made + 1 \notin Nodes
      /\ Nodes' = Nodes \cup {made + 1} /\ Nodes \subseteq NodeId /\ DOMAIN inodes = NodeId
      /\ inodes' = [inodes EXCEPT ![made + 1] = PageAt[pg].inodes]
  BY SMTT(40), NodeTreeAssumption DEF TreeInv, TreeTypeOK, Materialize, Nodes, NodeId
<1> DEFINE s == PageAt[pg].inodes
<1>2. inodes'[made + 1] = s /\ \A m \in Nodes : inodes'[m] = inodes[m]
  BY <1>1
<1>3. /\ s \in Seq(Inode)
      /\ \A i, j \in DOMAIN s : i < j => KeySize[s[i].key] <= KeySize[s[j].key]
      /\ \A i, j \in DOMAIN s : j = i + 1 => s[i].key # s[j].key
  BY NodeTreeAssumption DEF PageSound
<1>4. \A i, j \in DOMAIN s : i < j => Size(s[i].key) <= Size(s[j].key)
  BY <1>3, SizesAreNat
<1> HIDE DEF s
<1>5. \A m \in Nodes' : Ascends(inodes'[m])
  <2>1. Ascends(s)
    BY <1>3, <1>4 DEF Ascends
  <2> QED  BY <1>1, <1>2, <2>1 DEF NodesAscend
<1> QED  BY <1>5 DEF NodesAscend, Ascends, Size

LEMMA SplitKeys ==
  ASSUME TreeInv, NodesAscend, NEW ends \in Seq(Nat), SpillSplit(ends)
  PROVE  NodesAscend'
<1> SUFFICES ASSUME NEW m \in Nodes' PROVE Ascends(inodes'[m])
  BY DEF NodesAscend, Ascends, Size
<1>1. CASE \E k \in 1 .. Len(ends) : inodes'[m] = Part(inodes[Top.node], ends, k)
  <2>1. PICK k \in 1 .. Len(ends) : inodes'[m] = Part(inodes[Top.node], ends, k)
    BY SMTT(40), <1>1
  <2> DEFINE n == Top.node
             part == Part(inodes[n], ends, k)
             b == Before(ends, k)
  <2>2. n \in Nodes /\ inodes[n] \in Seq(Inode) /\ IsSplit(n, ends)
    BY SplitNumbers, NodeInodes DEF SpillSplit
  <2>3. /\ part \in Seq(Inode) /\ b \in Nat
        /\ \A x \in DOMAIN part : part[x] = inodes[n][b + x] /\ b + x \in DOMAIN inodes[n]
    BY <2>2, PartFacts
  <2>4. inodes'[m] = part
    BY <2>1
  <2> HIDE DEF n, part, b
  <2>5. DOMAIN part = 1 .. Len(part) /\ Len(part) \in Nat
    BY <2>3
  <2>6. Ascends(inodes[n])
    BY <2>2 DEF NodesAscend
  <2>7. \A i, j \in DOMAIN part : (i < j => b + i < b + j) /\ (j = i + 1 => b + j = (b + i) + 1)
    BY <2>3, <2>5
  <2>8. ASSUME NEW i \in DOMAIN part, NEW j \in DOMAIN part
        PROVE  /\ i < j => Size(part[i].key) <= Size(part[j].key)
               /\ j = i + 1 => part[i].key # part[j].key
    <3>1. /\ part[i] = inodes[n][b + i] /\ b + i \in DOMAIN inodes[n]
          /\ part[j] = inodes[n][b + j] /\ b + j \in DOMAIN inodes[n]
      BY <2>3
    <3>2. (i < j => b + i < b + j) /\ (j = i + 1 => b + j = (b + i) + 1)
      BY <2>7
    <3> QED  BY <2>6, <3>1, <3>2 DEF Ascends
  <2>9. Ascends(part)
    BY <2>8 DEF Ascends
  <2> QED  BY <2>4, <2>9
<1>2. CASE m \in Nodes /\ inodes'[m] = inodes[m]
  BY <1>2 DEF NodesAscend
<1>3. CASE inodes'[m] = <<>>
  BY <1>3 DEF Ascends
<1> QED  BY <1>1, <1>2, <1>3, SplitInodes

\* A call of spill leaves the inodes alone.
LEMMA SpillKeeps ==
  ASSUME SpillRoot \/ SpillChild \/ Ends \/ UNCHANGED treeVars
  PROVE  UNCHANGED <<made, inodes, nodeCache>>
BY DEF SpillRoot, SpillChild, Ends, treeVars

LEMMA KeysStep ==
  TreeInv /\ NodesAscend /\ [TreeNext]_treeVars => NodesAscend'
<1> SUFFICES ASSUME TreeInv, NodesAscend, [TreeNext]_treeVars PROVE NodesAscend'
  OBVIOUS
<1>1. CASE Root
  <2>1. root \in PageId /\ Materialize(root, 0, node)
    BY <1>1, NodeTreeAssumption DEF Root, TreeInv, TreeTypeOK
  <2> QED  BY <2>1, MaterializeKeys
<1>2. ASSUME NEW p \in Nodes, NEW i, ChildAt(p, i) PROVE NodesAscend'
  <2>1. inodes[p][i].pgid \in PageId
    BY <1>2 DEF ChildAt, TreeInv, PagesKnown, NamesPage
  <2> QED  BY <1>2, <2>1, MaterializeKeys DEF ChildAt
<1>3. ASSUME NEW n \in Nodes, NextSibling(n) \/ PrevSibling(n) PROVE NodesAscend'
  <2>1. node[n].parent \in Nodes
    BY <1>3 DEF NextSibling, PrevSibling, TreeInv, LinksInside, Nodes
  <2> QED  BY <1>2, <1>3, <2>1 DEF NextSibling, PrevSibling
<1>4. CASE \E n \in Nodes : \E old, new \in Key, value \in Value : Put(n, old, new, value)
  BY <1>4, PutKeys
<1>5. CASE \E n \in Nodes : \E key \in Key : Remove(n, key)
  BY <1>5, RemoveKeys
<1>6. CASE SpillRoot \/ SpillChild \/ Ends \/ UNCHANGED treeVars
  BY <1>6, SpillKeeps DEF NodesAscend, Nodes, Ascends, Size
<1>7. ASSUME NEW parts \in 1 .. MaxInodes, NEW ends \in [1 .. parts -> 0 .. MaxInodes],
             SpillSplit(ends)
      PROVE  NodesAscend'
  BY <1>7, EndsAreSeq, SplitKeys
<1> QED  BY <1>1, <1>2, <1>3, <1>4, <1>5, <1>6, <1>7 DEF TreeNext

LEMMA AscendInvariance == TreeSpec => []NodesAscend
<1>1. TreeInit => NodesAscend
  BY DEF TreeInit, NodesAscend, Nodes
<1> QED  BY <1>1, KeysStep, TreeInvariance, PTL DEF TreeSpec

\* The sizes of every node's keys ascend, through reads, puts, removals and splits, and
\* a key is twice in a node only with another of its size between (node.cpp 96-149,
\* 253-257, 315-316).
THEOREM NodeKeysAscend == TreeSpec => []KeysAscend
BY AscendInvariance, TreeInvariance, AscendIsOrder, PTL

\* The search for a child's first key stops at its own element, or at an earlier one
\* with a key of that size.
LEMMA ChildrenAreFound == TreeInv /\ NodesAscend => SiblingsAdjacent
<1> SUFFICES ASSUME TreeInv, NodesAscend, NEW n \in Nodes, node[n].parent # 0,
                    NEW i \in DOMAIN inodes[node[n].parent], IsOwnElement(n, i)
             PROVE  LET p == node[n].parent
                    IN  /\ ChildIndex(p, n) <= i
                        /\ \A j \in ChildIndex(p, n) .. i :
                             Size(inodes[p][j].key) = Size(inodes[p][i].key)
  BY DEF SiblingsAdjacent
<1> DEFINE p == node[n].parent
           s == inodes[p]
           key == node[n].first
           l == LowerBound(s, key)
<1>1. p \in Nodes
  BY DEF TreeInv, LinksInside, Nodes
<1>2. s \in Seq(Inode) /\ Ascends(s)
  BY <1>1, NodeInodes DEF NodesAscend
<1>3. node[n].pgid # 0 /\ key # NoKey /\ s[i].pgid = node[n].pgid
  BY DEF IsOwnElement
<1>4. s[i].key = key
  <2>1. key = FirstKey(node[n].pgid)
    BY <1>3 DEF TreeInv, PagesKnown
  <2>2. NamesPage(s[i])
    BY <1>1, <1>3 DEF TreeInv, PagesKnown
  <2> QED  BY <1>3, <2>1, <2>2 DEF NamesPage
<1>5. ChildIndex(p, n) = l
  BY DEF ChildIndex
<1>6. i \in DOMAIN s
  OBVIOUS
<1> HIDE DEF p, s, key
<1>7. key \in Key /\ i \in 1 .. Len(s) /\ Len(s) \in Nat /\ DOMAIN s = 1 .. Len(s)
  BY <1>2, <1>4, <1>6, SizesAreNat
<1>8. /\ l \in 1 .. Len(s) + 1
      /\ \A j \in 1 .. l - 1 : Size(s[j].key) < Size(key)
      /\ l <= Len(s) => Size(s[l].key) >= Size(key)
  BY <1>2, <1>7, LowerBoundIs
<1> HIDE DEF l
<1>9. \A j \in DOMAIN s : Size(s[j].key) \in Nat
  BY <1>2, SizesAreNat
<1>10. l <= i
  <2> SUFFICES ASSUME l > i PROVE FALSE
    BY <1>7, <1>8
  <2>1. i \in 1 .. l - 1
    BY <1>7, <1>8
  <2> QED  BY <1>4, <1>7, <1>8, <1>9, <2>1
<1>11. ASSUME NEW j \in l .. i PROVE Size(s[j].key) = Size(s[i].key)
  <2>1. j \in DOMAIN s /\ l \in DOMAIN s /\ l <= Len(s) /\ (j = l \/ l < j) /\ (j = i \/ j < i)
    BY <1>7, <1>8, <1>10
  <2>2. Size(s[l].key) <= Size(s[j].key) /\ Size(s[j].key) <= Size(s[i].key)
    BY <1>2, <1>7, <1>9, <2>1 DEF Ascends
  <2>3. Size(s[l].key) >= Size(s[i].key)
    BY <1>4, <1>8, <2>1
  <2> QED  BY <1>7, <1>9, <2>1, <2>2, <2>3
<1> QED  BY <1>5, <1>10, <1>11 DEF p, s

\* child_index misses a child's own element only for an earlier one with a key of the
\* same size (node.cpp 55-94), however many puts, removals and reads there were.
THEOREM SiblingsAreAdjacent == TreeSpec => []SiblingsAdjacent
BY ChildrenAreFound, TreeInvariance, AscendInvariance, PTL

-----------------------------------------------------------------------------
\* The cuts of a split ascend, and the parts between them are all there is.
LEMMA EndsAscend ==
  ASSUME NEW n, inodes[n] \in Seq(Inode), NEW ends \in Seq(Nat), IsSplit(n, ends),
         NEW k \in 1 .. Len(ends), NEW l \in 1 .. Len(ends), k < l
  PROVE  ends[k] <= Before(ends, l)
<1> DEFINE T == {i \in 1 .. Len(ends) : k < i /\ ~(ends[k] <= Before(ends, i))}
<1>1. Len(ends) \in Nat /\ \A i \in 1 .. Len(ends) : ends[i] \in Nat
  OBVIOUS
<1>2. \A i \in 1 .. Len(ends) : Before(ends, i) \in Nat /\ Before(ends, i) <= ends[i]
  BY PartFacts
<1> SUFFICES ASSUME l \in T PROVE FALSE
  OBVIOUS
<1>3. T \subseteq Nat /\ T # {}
  <2>1. \A i \in T : i \in Nat
    BY <1>1
  <2>2. l \in T
    OBVIOUS
  <2> HIDE DEF T
  <2> QED  BY <2>1, <2>2
<1> HIDE DEF T
<1>4. PICK i \in T : \A j \in T : ~(j < i)
  BY <1>3, LeastNat
<1>5. i \in 1 .. Len(ends) /\ k < i /\ ~(ends[k] <= Before(ends, i))
  BY <1>4 DEF T
<1>6. Before(ends, i) = ends[i - 1] /\ i - 1 \in 1 .. Len(ends) /\ k <= i - 1
  BY <1>1, <1>5 DEF Before
<1>7. CASE k = i - 1
  BY <1>1, <1>5, <1>6, <1>7
<1>8. CASE k < i - 1
  <2>1. i - 1 \notin T
    BY <1>1, <1>4, <1>5
  <2>2. ends[k] <= Before(ends, i - 1)
    BY <1>6, <1>8, <2>1 DEF T
  <2>3. ends[k] \in Nat /\ Before(ends, i - 1) \in Nat /\ ends[i - 1] \in Nat
        /\ Before(ends, i - 1) <= ends[i - 1]
    BY <1>1, <1>2, <1>6
  <2> QED  BY SMTT(40), <1>5, <1>6, <2>2, <2>3
<1> QED  BY <1>1, <1>5, <1>6, <1>7, <1>8

LEMMA PartsCover ==
  ASSUME NEW n, inodes[n] \in Seq(Inode), NEW ends \in Seq(Nat), IsSplit(n, ends),
         NEW x \in DOMAIN inodes[n]
  PROVE  \E k \in 1 .. Len(ends) : \E j \in DOMAIN Part(inodes[n], ends, k) :
           Part(inodes[n], ends, k)[j] = inodes[n][x]
<1> DEFINE T == {k \in 1 .. Len(ends) : x <= ends[k]}
           s == inodes[n]
<1>1. /\ Len(ends) \in Nat /\ \A k \in 1 .. Len(ends) : ends[k] \in Nat
      /\ Len(ends) > 0 /\ ends[Len(ends)] = Len(s)
      /\ x \in 1 .. Len(s) /\ Len(s) \in Nat
  BY DEF IsSplit
<1>2. T \subseteq Nat /\ T # {}
  <2>1. Len(ends) \in T
    BY <1>1
  <2>2. \A k \in T : k \in Nat
    BY <1>1
  <2> HIDE DEF T
  <2> QED  BY <2>1, <2>2
<1> HIDE DEF T
<1>3. PICK k \in T : \A j \in T : ~(j < k)
  BY <1>2, LeastNat
<1>4. k \in 1 .. Len(ends) /\ x <= ends[k]
  BY <1>3 DEF T
<1>5. Before(ends, k) < x
  <2>1. CASE k = 1
    BY <1>1, <2>1 DEF Before
  <2>2. CASE k # 1
    <3>1. k - 1 \in 1 .. Len(ends) /\ k - 1 \notin T
      BY <1>1, <1>3, <1>4, <2>2
    <3>2. ~(x <= ends[k - 1]) /\ ends[k - 1] \in Nat
      BY <1>1, <3>1 DEF T
    <3> QED  BY <1>1, <2>2, <3>2 DEF Before
  <2> QED  BY <2>1, <2>2
<1> DEFINE part == Part(s, ends, k)
           b == Before(ends, k)
<1>6. /\ b \in Nat /\ part \in Seq(Inode) /\ Len(part) = ends[k] - b
      /\ \A j \in DOMAIN part : part[j] = s[b + j]
  BY <1>4, PartFacts
<1> HIDE DEF s, part, b
<1>7. x - b \in 1 .. Len(part) /\ b + (x - b) = x
  <2>1. b < x
    BY <1>5 DEF b
  <2>2. x \in Nat /\ x <= ends[k] /\ ends[k] \in Nat /\ b \in Nat /\ Len(part) = ends[k] - b
    BY <1>1, <1>4, <1>6
  <2> QED  BY SMTT(40), <2>1, <2>2
<1>8. x - b \in DOMAIN part /\ part[x - b] = s[x]
  BY SMTT(40), <1>6, <1>7
<1> QED  BY <1>4, <1>8 DEF s, part

\* No other of the entries has a key of this one's size.
AloneIn(entries, key) == \A x \in entries : KeySize[x.key] = KeySize[key] => x.key = key

\* A key that is alone is there once.
LEMMA AloneOnce ==
  ASSUME NEW s \in Seq(Inode), Ascends(s), NEW i \in DOMAIN s, NEW j \in DOMAIN s,
         s[i].key = s[j].key, AloneIn(EntriesIn(s), s[i].key)
  PROVE  i = j
<1>1. ASSUME NEW k \in DOMAIN s, NEW l \in DOMAIN s, k < l, s[k].key = s[i].key, s[l].key = s[i].key
      PROVE  FALSE
  <2>1. PICK o \in DOMAIN s : s[o].key # s[k].key /\ Size(s[o].key) = Size(s[k].key)
    BY <1>1, OtherBetween
  <2>2. KeySize[s[o].key] = KeySize[s[i].key]
    BY <1>1, <2>1, SizesAreNat
  <2>3. s[o] \in EntriesIn(s)
    BY DEF EntriesIn
  <2> QED  BY <1>1, <2>1, <2>2, <2>3 DEF AloneIn
<1>2. DOMAIN s = 1 .. Len(s) /\ Len(s) \in Nat
  OBVIOUS
<1> QED  BY <1>1, <1>2

\* What is in two parts has a key that is not alone.
LEMMA PartsDiffer ==
  ASSUME NEW n, inodes[n] \in Seq(Inode), Ascends(inodes[n]),
         NEW ends \in Seq(Nat), IsSplit(n, ends),
         NEW k \in 1 .. Len(ends), NEW l \in 1 .. Len(ends), k < l,
         NEW i \in DOMAIN Part(inodes[n], ends, k), NEW j \in DOMAIN Part(inodes[n], ends, l),
         Part(inodes[n], ends, k)[i] = Part(inodes[n], ends, l)[j]
  PROVE  ~AloneIn(EntriesIn(inodes[n]), Part(inodes[n], ends, k)[i].key)
<1> DEFINE s == inodes[n]
           left == Part(s, ends, k)
           right == Part(s, ends, l)
           b == Before(ends, k)
           c == Before(ends, l)
<1>1. /\ b \in Nat /\ b <= ends[k] /\ left \in Seq(Inode) /\ Len(left) = ends[k] - b
      /\ \A x \in DOMAIN left : left[x] = s[b + x] /\ b + x \in DOMAIN s
  BY PartFacts
<1>2. /\ c \in Nat /\ right \in Seq(Inode)
      /\ \A x \in DOMAIN right : right[x] = s[c + x] /\ c + x \in DOMAIN s
  BY PartFacts
<1>3. ends[k] <= c /\ ends[k] \in Nat
  BY EndsAscend
<1>4. i \in DOMAIN left /\ j \in DOMAIN right /\ s \in Seq(Inode) /\ Ascends(s)
      /\ left[i] = right[j]
  OBVIOUS
<1> HIDE DEF s, left, right, b, c
<1>9. DOMAIN left = 1 .. ends[k] - b /\ DOMAIN right = 1 .. Len(right) /\ Len(right) \in Nat
  BY <1>1, <1>2
<1>10. i \in Nat /\ j \in Nat /\ i <= ends[k] - b /\ j >= 1
  <2>1. i \in 1 .. ends[k] - b /\ j \in 1 .. Len(right)
    BY <1>4, <1>9
  <2> QED  BY <1>1, <1>3, <1>9, <2>1
<1>5. b + i < c + j /\ b + i \in DOMAIN s /\ c + j \in DOMAIN s
  <2>1. b + i < c + j
    BY SMTT(40), <1>1, <1>2, <1>3, <1>10
  <2> QED  BY <1>1, <1>2, <1>4, <2>1
<1>6. left[i] = s[b + i] /\ right[j] = s[c + j]
  BY <1>1, <1>2, <1>4
<1>7. b + i # c + j /\ s[b + i].key = s[c + j].key
  <2>1. b + i \in Nat /\ c + j \in Nat
    <3>1. b \in Nat /\ i \in Nat /\ c \in Nat /\ j \in Nat
      BY <1>1, <1>2, <1>10
    <3> QED  BY ONLY <3>1, SMT
  <2>2. b + i # c + j
    BY ONLY <1>5, <2>1, SMT
  <2>3. s[b + i] = s[c + j]
    BY ONLY <1>4, <1>6, Zenon
  <2> QED  BY ONLY <2>2, <2>3, Zenon
<1>8. ~AloneIn(EntriesIn(s), s[b + i].key)
  BY <1>4, <1>5, <1>7, AloneOnce
<1> QED  BY <1>6, <1>8 DEF left, s

-----------------------------------------------------------------------------
LEMMA LoadMaps ==
  ASSUME TreeInv, NEW pg \in PageId, nodeCache[pg] = 0, NEW parent, NEW links,
         Materialize(pg, parent, links)
  PROVE  Map!KeyMapNext
<1> DEFINE m == made + 1
<1>1. /\ m \in NodeId /\ m \notin Nodes /\ m # 0
      /\ inodes' = [inodes EXCEPT ![m] = PageAt[pg].inodes]
      /\ nodeCache' = [nodeCache EXCEPT ![pg] = m]
  BY SMTT(40), NodeTreeAssumption DEF TreeInv, TreeTypeOK, Materialize, Nodes, NodeId
<1> HIDE DEF m
<1>2. inodes[m] = <<>> /\ DOMAIN inodes = NodeId /\ DOMAIN nodeCache = PageId
  BY <1>1 DEF TreeInv, TreeTypeOK, LinksInside
<1>3. \A k \in NodeId : inodes'[k] = IF k = m THEN PageAt[pg].inodes ELSE inodes[k]
  BY <1>1, <1>2
<1>4. \A p \in PageId : nodeCache'[p] = IF p = pg THEN m ELSE nodeCache[p]
  BY <1>1, <1>2
<1>5. EntriesIn(inodes[m]) = {}
  BY <1>2 DEF EntriesIn
<1>6. {p \in PageId : nodeCache'[p] # 0} = {p \in PageId : nodeCache[p] # 0} \cup {pg}
  BY <1>1, <1>4
<1>7. [n \in NodeId |-> EntriesIn(inodes'[n])] =
        [[n \in NodeId |-> EntriesIn(inodes[n])] EXCEPT ![m] = EntriesIn(PageAt[pg].inodes)]
  <2>1. ASSUME NEW k \in NodeId
        PROVE  EntriesIn(inodes'[k]) = IF k = m THEN EntriesIn(PageAt[pg].inodes)
                                       ELSE EntriesIn(inodes[k])
    BY <1>3
  <2> QED  BY <1>1, <2>1
<1>8. Map!Load(pg, m)
  BY <1>1, <1>5, <1>6, <1>7 DEF Map!Load
<1>9. pg \in DOMAIN [p \in PageId |-> EntriesIn(PageAt[p].inodes)]
  OBVIOUS
<1>10. m \in Map!MapNode
  BY <1>1 DEF Map!MapNode, NodeId
<1> QED  BY <1>8, <1>9, <1>10 DEF Map!KeyMapNext, Map!Load, Map!MapNode, NodeId

\* What goes for an entry of the key, as KeyMap has it.
Loses(entries, key, gone) ==
  /\ gone \in SUBSET {x \in entries : x.key = key}
  /\ \A x, y \in gone : x = y
  /\ AloneIn(entries, key) => gone = {x \in entries : x.key = key}

\* The element that the search finds goes, unless there is one like it.
LEMMA FoundLoses ==
  ASSUME NEW s \in Seq(Inode), Ascends(s), NEW key \in Key, NEW i \in DOMAIN s, s[i].key = key
  PROVE  \E gone : /\ Loses(EntriesIn(s), key, gone)
                   /\ EntriesIn(s) \ gone = {s[k] : k \in DOMAIN s \ {i}}
<1>1. CASE \E j \in DOMAIN s \ {i} : s[j] = s[i]
  <2>1. PICK j \in DOMAIN s \ {i} : s[j] = s[i]
    BY <1>1
  <2>2. ~AloneIn(EntriesIn(s), key)
    BY <2>1, AloneOnce
  <2>3. Loses(EntriesIn(s), key, {})
    BY <2>2 DEF Loses
  <2>4. EntriesIn(s) \ {} = {s[k] : k \in DOMAIN s \ {i}}
    BY <2>1 DEF EntriesIn
  <2> QED  BY <2>3, <2>4
<1>2. CASE ~\E j \in DOMAIN s \ {i} : s[j] = s[i]
  <2>1. EntriesIn(s) \ {s[i]} = {s[k] : k \in DOMAIN s \ {i}}
    BY <1>2 DEF EntriesIn
  <2>2. ASSUME AloneIn(EntriesIn(s), key), NEW x \in EntriesIn(s), x.key = key
        PROVE  x = s[i]
    <3>1. PICK k \in DOMAIN s : x = s[k]
      BY DEF EntriesIn
    <3>2. k = i
      BY <2>2, <3>1, AloneOnce
    <3> QED  BY <3>1, <3>2
  <2>3. s[i] \in EntriesIn(s)
    BY DEF EntriesIn
  <2>4. Loses(EntriesIn(s), key, {s[i]})
    BY <2>2, <2>3 DEF Loses
  <2> QED  BY <2>1, <2>4
<1> QED  BY <1>1, <1>2

\* The search finds a key that is alone, if it is there.
LEMMA MissesNone ==
  ASSUME NEW s \in Seq(Inode), Ascends(s), NEW key \in Key,
         ~(LowerBound(s, key) <= Len(s) /\ s[LowerBound(s, key)].key = key)
  PROVE  Loses(EntriesIn(s), key, {})
<1> DEFINE l == LowerBound(s, key)
<1>1. /\ l \in 1 .. Len(s) + 1 /\ Len(s) \in Nat /\ DOMAIN s = 1 .. Len(s)
      /\ \A j \in 1 .. l - 1 : Size(s[j].key) < Size(key)
      /\ l <= Len(s) => Size(s[l].key) >= Size(key)
  BY LowerBoundIs
<1>2. ~(l <= Len(s) /\ s[l].key = key)
  OBVIOUS
<1>3. Size(key) \in Nat /\ \A j \in DOMAIN s : Size(s[j].key) \in Nat
  BY SizesAreNat
<1> HIDE DEF l
<1>4. ASSUME AloneIn(EntriesIn(s), key), NEW i \in DOMAIN s, s[i].key = key
      PROVE  FALSE
  <2>1. ~(i < l)
    <3> SUFFICES ASSUME i < l PROVE FALSE
      OBVIOUS
    <3>1. i \in 1 .. l - 1
      BY <1>1
    <3> QED  BY <1>1, <1>3, <1>4, <3>1
  <2>2. l \in DOMAIN s /\ l <= Len(s) /\ (l = i \/ l < i)
    BY <1>1, <2>1
  <2>3. l < i
    BY <1>2, <1>4, <2>2
  <2>4. Size(s[l].key) <= Size(s[i].key)
    BY <2>2, <2>3 DEF Ascends
  <2>5. Size(s[l].key) = Size(key)
    BY <1>1, <1>3, <1>4, <2>2, <2>4
  <2>6. KeySize[s[l].key] = KeySize[key]
    BY <2>2, <2>5, SizesAreNat
  <2>7. s[l] \in EntriesIn(s)
    BY <2>2 DEF EntriesIn
  <2> QED  BY <1>2, <1>4, <2>2, <2>6, <2>7 DEF AloneIn
<1>5. AloneIn(EntriesIn(s), key) => {} = {x \in EntriesIn(s) : x.key = key}
  BY <1>4 DEF EntriesIn
<1> QED  BY <1>5 DEF Loses

LEMMA PutEntries ==
  ASSUME NEW s \in Seq(Inode), Ascends(s), NEW old \in Key, NEW entry
  PROVE  \E gone : /\ Loses(EntriesIn(s), old, gone)
                   /\ EntriesIn(PutIn(s, old, entry)) = (EntriesIn(s) \ gone) \cup {entry}
<1> DEFINE i == LowerBound(s, old)
           t == PutIn(s, old, entry)
<1>1. i \in 1 .. Len(s) + 1 /\ Len(s) \in Nat /\ DOMAIN s = 1 .. Len(s)
  BY LowerBoundIs
<1>3. CASE i <= Len(s) /\ s[i].key = old
  <2>1. t = [s EXCEPT ![i] = entry] /\ i \in DOMAIN s
    BY <1>1, <1>3 DEF PutIn
  <2>2. PICK gone : /\ Loses(EntriesIn(s), old, gone)
                    /\ EntriesIn(s) \ gone = {s[k] : k \in DOMAIN s \ {i}}
    BY <1>3, <2>1, FoundLoses
  <2> HIDE DEF i, t
  <2>3. DOMAIN t = DOMAIN s /\ \A k \in DOMAIN s : t[k] = IF k = i THEN entry ELSE s[k]
    BY <2>1
  <2>4. EntriesIn(t) = {s[k] : k \in DOMAIN s \ {i}} \cup {entry}
    BY <2>1, <2>3 DEF EntriesIn
  <2> QED  BY <2>2, <2>4 DEF t
<1>4. CASE ~(i <= Len(s) /\ s[i].key = old)
  <2>1. t = [j \in 1 .. Len(s) + 1 |->
               IF j < i THEN s[j] ELSE IF j = i THEN entry ELSE s[j - 1]]
    BY <1>4 DEF PutIn
  <2>2. Loses(EntriesIn(s), old, {})
    BY <1>4, MissesNone
  <2> HIDE DEF i, t
  <2>3. EntriesIn(t) \subseteq EntriesIn(s) \cup {entry}
    <3> SUFFICES ASSUME NEW j \in 1 .. Len(s) + 1 PROVE t[j] \in EntriesIn(s) \cup {entry}
      BY <2>1 DEF EntriesIn
    <3>1. (j < i /\ j \in DOMAIN s) \/ j = i \/ (~(j < i) /\ j # i /\ j - 1 \in DOMAIN s)
      BY <1>1
    <3> QED  BY <2>1, <3>1 DEF EntriesIn
  <2>4. entry \in EntriesIn(t)
    <3>1. i \in DOMAIN t /\ t[i] = entry
      BY <1>1, <2>1
    <3> QED  BY <3>1 DEF EntriesIn
  <2>5. EntriesIn(s) \subseteq EntriesIn(t)
    <3> SUFFICES ASSUME NEW k \in DOMAIN s PROVE s[k] \in EntriesIn(t)
      BY DEF EntriesIn
    <3>1. CASE k < i
      <4>1. k \in DOMAIN t /\ t[k] = s[k]
        BY <1>1, <2>1, <3>1
      <4> QED  BY <4>1 DEF EntriesIn
    <3>2. CASE ~(k < i)
      <4>1. k + 1 \in DOMAIN t /\ t[k + 1] = s[k]
        <5>1. k + 1 \in 1 .. Len(s) + 1 /\ ~(k + 1 < i) /\ k + 1 # i /\ (k + 1) - 1 = k
          BY <1>1, <3>2
        <5> QED  BY <2>1, <5>1
      <4> QED  BY <4>1 DEF EntriesIn
    <3> QED  BY <3>1, <3>2
  <2>6. EntriesIn(t) = (EntriesIn(s) \ {}) \cup {entry}
    BY <2>3, <2>4, <2>5
  <2> QED  BY <2>2, <2>6 DEF t
<1> QED  BY <1>3, <1>4

LEMMA StoreMaps ==
  ASSUME TreeInv, NodesAscend, NEW n \in Nodes, NEW old \in Key, NEW new \in Key,
         NEW value \in Value, Put(n, old, new, value)
  PROVE  Map!KeyMapNext
<1> DEFINE s == inodes[n]
           entry == [key |-> new, value |-> value, pgid |-> 0]
           C(m) == EntriesIn(inodes[m])
           D(m) == EntriesIn(inodes'[m])
<1>1. inodes' = [inodes EXCEPT ![n] = PutIn(s, old, entry)] /\ nodeCache' = nodeCache
  BY DEF Put, PutIn
<1>2. s \in Seq(Inode) /\ n \in NodeId /\ DOMAIN inodes = NodeId
  BY NodeInodes DEF TreeInv, TreeTypeOK
<1>3. Ascends(s)
  BY DEF NodesAscend
<1>5. entry.key = new /\ entry.value = value
  OBVIOUS
<1> HIDE DEF s, entry
<1>4. PICK gone : /\ Loses(EntriesIn(s), old, gone)
                  /\ EntriesIn(PutIn(s, old, entry)) = (EntriesIn(s) \ gone) \cup {entry}
  BY <1>2, <1>3, PutEntries
<1>6. Loses(C(n), old, gone) /\ D(n) = (C(n) \ gone) \cup {entry}
  BY <1>1, <1>2, <1>4 DEF s
<1>7. \A m \in NodeId \ {n} : D(m) = C(m)
  BY <1>1, <1>2
<1> HIDE DEF C, D
<1>8. \E e \in D(n) : /\ e.key = new /\ e.value = value
                      /\ D(n) = (C(n) \ gone) \cup {e}
  BY <1>5, <1>6
<1>9. {p \in PageId : nodeCache'[p] # 0} = {p \in PageId : nodeCache[p] # 0}
  BY <1>1
<1>10. Map!Store(n, old, new, value)
  BY <1>2, <1>6, <1>8 DEF Map!Store, Map!Under, Map!Alone, Loses, AloneIn, C, D
<1>11. Map!OnlyChanges(n) /\ n \in Map!MapNode
  BY <1>2, <1>7, <1>9 DEF Map!OnlyChanges, Map!MapNode, NodeId, C, D
<1> QED  BY <1>10, <1>11 DEF Map!KeyMapNext

LEMMA DeleteMaps ==
  ASSUME TreeInv, NodesAscend, NEW n \in Nodes, NEW key \in Key, Remove(n, key)
  PROVE  Map!KeyMapNext
<1> DEFINE s == inodes[n]
           i == LowerBound(s, key)
           t == [j \in 1 .. Len(s) - 1 |-> IF j < i THEN s[j] ELSE s[j + 1]]
           C(m) == EntriesIn(inodes[m])
           D(m) == EntriesIn(inodes'[m])
<1>1. inodes' = [inodes EXCEPT ![n] = t] /\ nodeCache' = nodeCache
      /\ i <= Len(s) /\ s[i].key = key
  BY DEF Remove
<1>2. s \in Seq(Inode) /\ n \in NodeId /\ DOMAIN inodes = NodeId
  BY NodeInodes DEF TreeInv, TreeTypeOK
<1>3. Ascends(s)
  BY DEF NodesAscend
<1>4. i \in 1 .. Len(s) /\ Len(s) \in Nat /\ DOMAIN s = 1 .. Len(s)
  <2>1. i \in 1 .. Len(s) + 1
    BY <1>2, LowerBoundIs
  <2>2. Len(s) \in Nat /\ DOMAIN s = 1 .. Len(s)
    BY <1>2
  <2> HIDE DEF i, s
  <2> QED  BY <1>1, <2>1, <2>2
<1> HIDE DEF s, i
<1>5. PICK gone : /\ Loses(EntriesIn(s), key, gone)
                  /\ EntriesIn(s) \ gone = {s[k] : k \in DOMAIN s \ {i}}
  BY <1>1, <1>2, <1>3, <1>4, FoundLoses
<1>6. EntriesIn(t) = {s[k] : k \in DOMAIN s \ {i}}
  <2>1. ASSUME NEW j \in DOMAIN t
        PROVE  \E k \in DOMAIN s \ {i} : t[j] = s[k]
    <3> DEFINE at == IF j < i THEN j ELSE j + 1
    <3>1. at \in DOMAIN s /\ at # i /\ t[j] = s[at]
      BY <1>4
    <3> QED  BY <3>1
  <2>2. ASSUME NEW k \in DOMAIN s \ {i}
        PROVE  \E j \in DOMAIN t : t[j] = s[k]
    <3> DEFINE at == IF k < i THEN k ELSE k - 1
    <3>1. at \in DOMAIN t /\ t[at] = s[k]
      BY <1>4
    <3> QED  BY <3>1
  <2> HIDE DEF t
  <2> QED  BY <2>1, <2>2 DEF EntriesIn
<1> HIDE DEF t
<1>7. /\ Loses(C(n), key, gone) /\ D(n) = C(n) \ gone
      /\ \A m \in NodeId \ {n} : D(m) = C(m)
  BY <1>1, <1>2, <1>5, <1>6 DEF s
<1>8. {p \in PageId : nodeCache'[p] # 0} = {p \in PageId : nodeCache[p] # 0}
  BY <1>1
<1> HIDE DEF C, D
<1>9. Map!Delete(n, key)
  BY <1>2, <1>7 DEF Map!Delete, Map!Under, Map!Alone, Loses, AloneIn, C, D
<1>10. Map!OnlyChanges(n) /\ n \in Map!MapNode
  BY <1>2, <1>7, <1>8 DEF Map!OnlyChanges, Map!MapNode, NodeId, C, D
<1> QED  BY <1>9, <1>10 DEF Map!KeyMapNext

LEMMA SpreadMaps ==
  ASSUME TreeInv, NodesAscend, NEW ends \in Seq(Nat), SpillSplit(ends)
  PROVE  Map!KeyMapNext
<1> DEFINE n == Top.node
           s == inodes[n]
           lo == Lo(n, ends)
           fresh == lo + 1 .. made'
           index(m) == IF m = n THEN 1 ELSE m - lo + 1
           C(m) == EntriesIn(inodes[m])
           D(m) == EntriesIn(inodes'[m])
           Open == {m \in NodeId : m = n \/ C(m) = {}}
<1>1. /\ n \in Nodes /\ n \in NodeId /\ Nodes = 1 .. made /\ made \in Nat
      /\ lo \in Nat /\ made <= lo /\ made' = lo + Len(ends) - 1 /\ Len(ends) \in Nat /\ Len(ends) > 0
      /\ 1 .. made' \subseteq NodeId
  <2>1. Above(n, ends) \in {0, 1} /\ lo = made + Above(n, ends) /\ made \in Nat
    BY SplitNumbers
  <2> HIDE DEF lo
  <2>2. lo \in Nat /\ made <= lo
    BY SMTT(40), <2>1
  <2> QED  BY <2>2, SplitNumbers DEF lo, Nodes
<1>2. s \in Seq(Inode) /\ IsSplit(n, ends) /\ Ascends(s)
  BY <1>1, NodeInodes DEF SpillSplit, NodesAscend
<1>3. \A m \in NodeId : inodes'[m] = IF m = n THEN Part(s, ends, 1)
                                    ELSE IF m \in fresh THEN Part(s, ends, m - lo + 1)
                                    ELSE inodes[m]
  <2>1. inodes' = [m \in NodeId |->
              IF m = Top.node THEN Part(inodes[Top.node], ends, 1)
              ELSE IF m \in Lo(Top.node, ends) + 1 .. made'
              THEN Part(inodes[Top.node], ends, m - Lo(Top.node, ends) + 1)
              ELSE inodes[m]]
    BY SplitNodes, ZenonT(60)
  <2>2. inodes' = [m \in NodeId |->
              IF m = n THEN Part(s, ends, 1)
              ELSE IF m \in fresh THEN Part(s, ends, m - lo + 1)
              ELSE inodes[m]]
    BY ONLY <2>1 DEF n, s, lo, fresh
  <2> HIDE DEF n, s, lo, fresh
  <2> QED  BY ONLY <2>2, ZenonT(60)
<1>4. \A m \in NodeId \ Nodes : inodes[m] = <<>>
  BY DEF TreeInv, LinksInside
<1>5. nodeCache' = nodeCache
  BY SplitNodes
<1> HIDE DEF n, lo
<1>6. ASSUME NEW m \in NodeId, m = n \/ m \in fresh
      PROVE  /\ index(m) \in 1 .. Len(ends) /\ inodes'[m] = Part(s, ends, index(m))
             /\ m \in Open
  <2>1. CASE m = n
    BY <1>1, <1>3, <2>1
  <2>2. CASE m # n
    <3>1. m \in fresh /\ m \notin Nodes /\ index(m) = m - lo + 1
      BY <1>1, <1>6, <2>2
    <3>2. index(m) \in 1 .. Len(ends)
      BY <1>1, <3>1
    <3>3. C(m) = {}
      BY <1>4, <3>1 DEF EntriesIn
    <3> QED  BY <1>3, <2>2, <3>1, <3>2, <3>3
  <2> QED  BY <2>1, <2>2
<1>7. ASSUME NEW m \in NodeId, m # n, m \notin fresh PROVE D(m) = C(m)
  BY <1>3, <1>7
<1>8. ASSUME NEW k \in 1 .. Len(ends)
      PROVE  \E m \in NodeId : (m = n \/ m \in fresh) /\ index(m) = k
  <2>1. CASE k = 1
    BY <1>1, <2>1
  <2>2. CASE k # 1
    <3>1. lo + k - 1 \in fresh /\ lo + k - 1 \in 1 .. made' /\ lo + k - 1 \notin Nodes
          /\ (lo + k - 1) - lo + 1 = k
      BY <1>1, <2>2
    <3>2. lo + k - 1 \in NodeId /\ lo + k - 1 # n
      BY <1>1, <3>1
    <3>3. index(lo + k - 1) = k
      BY <3>1, <3>2
    <3> QED  BY <3>1, <3>2, <3>3
  <2> QED  BY <2>1, <2>2
<1>9. ASSUME NEW m \in NodeId, NEW k \in NodeId, m = n \/ m \in fresh, k = n \/ k \in fresh, m # k
      PROVE  index(m) # index(k)
  <2>1. \A x \in fresh : x \in Int /\ x > lo
    BY <1>1
  <2> HIDE DEF fresh
  <2> QED  BY <1>1, <1>9, <2>1
<1> HIDE DEF index, fresh
<1>10. C(n) = UNION {D(m) : m \in Open}
  <2>1. ASSUME NEW x \in DOMAIN s PROVE \E m \in Open : s[x] \in D(m)
    <3>1. PICK k \in 1 .. Len(ends) : \E j \in DOMAIN Part(s, ends, k) : Part(s, ends, k)[j] = s[x]
      BY <1>2, PartsCover
    <3>2. PICK m \in NodeId : (m = n \/ m \in fresh) /\ index(m) = k
      BY <1>8
    <3>3. m \in Open /\ inodes'[m] = Part(s, ends, k)
      BY <1>6, <3>2
    <3> QED  BY <3>1, <3>3 DEF EntriesIn
  <2>2. ASSUME NEW m \in Open PROVE D(m) \subseteq C(n)
    <3>1. CASE m = n \/ m \in fresh
      <4>1. index(m) \in 1 .. Len(ends) /\ inodes'[m] = Part(s, ends, index(m))
        BY <1>6, <3>1
      <4>2. \A j \in DOMAIN Part(s, ends, index(m)) :
              /\ Part(s, ends, index(m))[j] = s[Before(ends, index(m)) + j]
              /\ Before(ends, index(m)) + j \in DOMAIN s
        BY <1>2, <4>1, PartFacts
      <4> QED  BY <4>1, <4>2 DEF EntriesIn
    <3>2. CASE m # n /\ m \notin fresh
      BY <1>7, <3>2
    <3> QED  BY <3>1, <3>2
  <2>3. C(n) \subseteq UNION {D(m) : m \in Open}
    <3> HIDE DEF D, Open
    <3> QED  BY <2>1 DEF EntriesIn
  <2> HIDE DEF C, D, Open
  <2> QED  BY <2>2, <2>3
<1>11. ASSUME NEW m \in Open, NEW k \in Open, m # k, NEW y \in D(m) \cap D(k)
       PROVE  ~AloneIn(C(n), y.key)
  <2>1. (m = n \/ m \in fresh) /\ (k = n \/ k \in fresh)
    BY <1>7, <1>11
  <2> DEFINE a == index(m)
             b == index(k)
  <2>2. /\ a \in 1 .. Len(ends) /\ b \in 1 .. Len(ends) /\ a # b
        /\ inodes'[m] = Part(s, ends, a) /\ inodes'[k] = Part(s, ends, b)
    BY <1>6, <1>9, <1>11, <2>1
  <2> HIDE DEF a, b
  <2>3. PICK i \in DOMAIN Part(s, ends, a), j \in DOMAIN Part(s, ends, b) :
          y = Part(s, ends, a)[i] /\ y = Part(s, ends, b)[j]
    BY <1>11, <2>2 DEF EntriesIn
  <2>4. CASE a < b
    <3>1. Part(s, ends, a)[i] = Part(s, ends, b)[j]
      BY <2>3
    <3> QED  BY <1>2, <2>2, <2>3, <2>4, <3>1, PartsDiffer
  <2>5. CASE b < a
    <3>1. Part(s, ends, b)[j] = Part(s, ends, a)[i]
      BY <2>3
    <3> QED  BY <1>2, <2>2, <2>3, <2>5, <3>1, PartsDiffer
  <2> QED  BY <1>1, <2>2, <2>4, <2>5
<1>12. ASSUME NEW m \in NodeId \ Open PROVE D(m) = C(m)
  BY <1>6, <1>7
<1>13. {p \in PageId : nodeCache'[p] # 0} = {p \in PageId : nodeCache[p] # 0}
  BY <1>5
<1> HIDE DEF C, D
<1>14. Map!Spread(n)
  <2> DEFINE c == [k \in NodeId |-> EntriesIn(inodes[k])]
             d == [k \in NodeId |-> EntriesIn(inodes'[k])]
             may == {k \in Map!MapNode : k = n \/ c[k] = {}}
  <2>1. Map!MapNode = NodeId
    BY DEF Map!MapNode, NodeId
  <2>2. \A k \in NodeId : c[k] = C(k) /\ d[k] = D(k)
    BY DEF C, D
  <2>3. may = Open
    BY <2>1, <2>2
  <2> HIDE DEF c, d, Open, may
  <2>4. \A m \in Map!MapNode \ may : d[m] = c[m]
    BY <1>12, <2>1, <2>2, <2>3
  <2>5. c[n] = UNION {d[m] : m \in may}
    <3>1. \A m \in may : d[m] = D(m)
      BY <2>2, <2>3 DEF Open
    <3>2. {d[m] : m \in may} = {D(m) : m \in may}
      BY <3>1
    <3>3. c[n] = C(n)
      BY <1>1, <2>2
    <3> QED  BY <1>10, <2>3, <3>2, <3>3
  <2>6. \A m, k \in may : m # k =>
          \A y \in d[m] \cap d[k] : ~(\A z \in c[n] : KeySize[z.key] = KeySize[y.key] => z.key = y.key)
    <3> SUFFICES ASSUME NEW m \in may, NEW k \in may, m # k, NEW y \in d[m] \cap d[k]
                 PROVE  ~(\A z \in c[n] : KeySize[z.key] = KeySize[y.key] => z.key = y.key)
      OBVIOUS
    <3>1. m \in Open /\ k \in Open /\ y \in D(m) \cap D(k) /\ c[n] = C(n)
      BY <1>1, <2>2, <2>3 DEF Open
    <3> QED  BY <1>11, <3>1 DEF AloneIn
  <2> USE DEF c, d, may
  <2> QED  BY <1>13, <2>4, <2>5, <2>6 DEF Map!Spread, Map!Alone
<1> QED  BY <1>1, <1>14 DEF Map!KeyMapNext, Map!Spread, Map!MapNode, NodeId

\* The other steps move nothing.
LEMMA MapStutters ==
  ASSUME UNCHANGED <<inodes, nodeCache>>
  PROVE  UNCHANGED <<[n \in NodeId |-> EntriesIn(inodes[n])], {p \in PageId : nodeCache[p] # 0}>>
<1>1. inodes' = inodes /\ nodeCache' = nodeCache
  OBVIOUS
<1> QED  BY <1>1

LEMMA MapStep ==
  TreeInv /\ NodesAscend /\ [TreeNext]_treeVars =>
    [Map!KeyMapNext]_<<[n \in NodeId |-> EntriesIn(inodes[n])], {p \in PageId : nodeCache[p] # 0}>>
<1> SUFFICES ASSUME TreeInv, NodesAscend, [TreeNext]_treeVars
    PROVE  \/ Map!KeyMapNext
           \/ UNCHANGED <<[n \in NodeId |-> EntriesIn(inodes[n])],
                          {p \in PageId : nodeCache[p] # 0}>>
  OBVIOUS
<1>1. CASE Root
  <2>1. root \in PageId /\ nodeCache[root] = 0 /\ Materialize(root, 0, node)
    BY <1>1, NodeTreeAssumption DEF Root, TreeInv, TreeTypeOK
  <2> QED  BY <2>1, LoadMaps
<1>2. ASSUME NEW p \in Nodes, NEW i, ChildAt(p, i) PROVE Map!KeyMapNext
  <2>1. inodes[p][i].pgid \in PageId /\ nodeCache[inodes[p][i].pgid] = 0
    BY <1>2 DEF ChildAt, TreeInv, PagesKnown, NamesPage
  <2> QED  BY <1>2, <2>1, LoadMaps DEF ChildAt
<1>3. ASSUME NEW n \in Nodes, NextSibling(n) \/ PrevSibling(n) PROVE Map!KeyMapNext
  <2>1. node[n].parent \in Nodes
    BY <1>3 DEF NextSibling, PrevSibling, TreeInv, LinksInside, Nodes
  <2> QED  BY <1>2, <1>3, <2>1 DEF NextSibling, PrevSibling
<1>4. CASE \E n \in Nodes : \E old, new \in Key, value \in Value : Put(n, old, new, value)
  BY <1>4, StoreMaps
<1>5. CASE \E n \in Nodes : \E key \in Key : Remove(n, key)
  BY <1>5, DeleteMaps
<1>6. CASE SpillRoot \/ SpillChild \/ Ends \/ UNCHANGED treeVars
  BY <1>6, SpillKeeps, MapStutters
<1>7. ASSUME NEW parts \in 1 .. MaxInodes, NEW ends \in [1 .. parts -> 0 .. MaxInodes],
             SpillSplit(ends)
      PROVE  Map!KeyMapNext
  BY <1>7, EndsAreSeq, SpreadMaps
<1>8. CASE \E n \in Nodes : \E i \in 1 .. MaxInodes : ChildAt(n, i)
  BY <1>2, <1>8
<1>9. CASE \E n \in Nodes : NextSibling(n) \/ PrevSibling(n)
  BY <1>3, <1>9
<1>10. CASE \E parts \in 1 .. MaxInodes :
              \E ends \in [1 .. parts -> 0 .. MaxInodes] : SpillSplit(ends)
  BY <1>7, <1>10
<1>11. TreeNext \/ UNCHANGED treeVars
  OBVIOUS
<1> QED  BY <1>1, <1>4, <1>5, <1>6, <1>8, <1>9, <1>10, <1>11 DEF TreeNext

\* The nodes of a bucket implement the collections of entries they stand for, whatever
\* the pages hold and wherever nodes are cut: a page is read into one node, a put stores
\* one entry and takes one away at most, a removal takes one entry of its key out, and
\* the one there is of a key that is alone with its size; a split loses nothing
\* (node.cpp 96-149, 253-257, 280-322, 347-381, bucket.cpp 16-48).
THEOREM NodesImplementKeyMap == TreeSpec => ImplementsKeyMap
<1>1. TreeInit => Map!KeyMapInit
  <2> SUFFICES ASSUME TreeInit PROVE Map!KeyMapInit
    OBVIOUS
  <2>1. \A n \in NodeId : EntriesIn(inodes[n]) = {}
    BY DEF TreeInit, EntriesIn
  <2>2. {p \in PageId : nodeCache[p] # 0} = {}
    BY DEF TreeInit
  <2> QED  BY <2>1, <2>2 DEF Map!KeyMapInit, Map!MapNode, NodeId
<1> QED  BY <1>1, TreeInvariance, AscendInvariance, MapStep, PTL
         DEF TreeSpec, ImplementsKeyMap, Map!KeyMapSpec
=============================================================================
