------------------------------ MODULE NodeTree ------------------------------
(***************************************************************************)
(* The nodes of one bucket in a writing transaction: Bucket::node and its  *)
(* cache (src/db/bucket.cpp 16-48), and Node's child_at, child_index,      *)
(* siblings, put, remove and spill (src/page/node.cpp 41-180, 253-257,     *)
(* 280-322, 347-381).                                                      *)
(*                                                                         *)
(* A key is ordered by its size alone, as operator< of ByteSlice does      *)
(* (util/slice.hpp 133-144), so keys of one size are in no order.  What a  *)
(* page of the committed tree holds is a constant, because DB::page        *)
(* returns no page.  These files belong to no build target; a function     *)
(* that falls off its end is undefined.  child_at counts for what it does  *)
(* to the tree, index_of's distance is taken as its result, and a spill    *)
(* that ends may give back any Status or crash, which `fault` records.     *)
(***************************************************************************)
EXTENDS Integers, Sequences

CONSTANTS Key, Value,
          KeySize,       \* the size of each key
          NoKey, NoValue,  \* an empty ByteSlice
          PageId,        \* the pages of the bucket
          RootPages,     \* those that may be its root
          PageAt,        \* what they hold: whether they are leaves, and their elements
          MaxNodes,      \* bound on the nodes that are constructed
          MaxInodes,     \* bound on the inodes of a node
          MaxCalls,      \* bound on the calls of put, remove and the root's spill
          MinKeys        \* kMinKeysPerPage

Inode == [key : Key, value : Value \cup {NoValue}, pgid : PageId \cup {0}]

\* What read keeps as first_key_: nothing, for a page without elements.
FirstKey(p) == IF PageAt[p].inodes = <<>> THEN NoKey ELSE PageAt[p].inodes[1].key

\* Keys on a page are in order and neighbours differ; a branch element has the first
\* key of its page, if that has one.  A page may be empty, as the root that DB::init
\* writes is (db.cpp 39-40).
PageSound(p) ==
  LET elements == PageAt[p].inodes
  IN  /\ PageAt[p].leaf \in BOOLEAN
      /\ elements \in Seq(Inode)
      /\ \A i, j \in DOMAIN elements : i < j => KeySize[elements[i].key] <= KeySize[elements[j].key]
      /\ \A i, j \in DOMAIN elements : j = i + 1 => elements[i].key # elements[j].key
      /\ \A i \in DOMAIN elements :
           IF PageAt[p].leaf THEN elements[i].pgid = 0
           ELSE /\ elements[i].pgid \in PageId
                /\ FirstKey(elements[i].pgid) \in {NoKey, elements[i].key}

\* A page is named once, and a root not at all.
PagesAreTree ==
  \A p, q \in PageId : ~PageAt[p].leaf /\ ~PageAt[q].leaf =>
    \A i \in DOMAIN PageAt[p].inodes, j \in DOMAIN PageAt[q].inodes :
      /\ PageAt[p].inodes[i].pgid \notin RootPages
      /\ PageAt[p].inodes[i].pgid = PageAt[q].inodes[j].pgid => p = q /\ i = j

ASSUME NodeTreeAssumption ==
  /\ KeySize \in [Key -> Nat \ {0}]
  /\ NoKey \notin Key
  /\ PageId \subseteq Nat \ {0}
  /\ RootPages \subseteq PageId
  /\ \A p \in PageId : PageSound(p)
  /\ PagesAreTree
  /\ MaxNodes \in Nat /\ MaxInodes \in Nat /\ MaxCalls \in Nat /\ MinKeys \in Nat \ {0}

VARIABLES made,       \* the nodes 1 .. made have been constructed; null is 0
          node,       \* their fields, except
          inodes,     \* inodes_ of each
          nodeCache,  \* node_cache_: page id to node
          root,       \* bucket_meta_.root, the page of the bucket's root
          rootNode,   \* root_node_
          highMark,   \* meta_page_id() of the transaction: 0 or 1
          freed,      \* the pages given to Txn::free
          calls,      \* the calls of put, remove and the root's spill so far
          stack,      \* the calls of spill that run: a node, and the rest of its children
          fault       \* undefined behaviour was reached

treeVars == <<made, node, inodes, nodeCache, root, rootNode, highMark, freed, calls, stack, fault>>

NodeId == 1 .. MaxNodes
Nodes == 1 .. made
Idle == stack = <<>> /\ ~fault
Children(n) == {node[n].children[i] : i \in DOMAIN node[n].children}

-----------------------------------------------------------------------------
Size(key) == IF key = NoKey THEN 0 ELSE KeySize[key]

\* std::lower_bound over the keys of an inodes_, with operator< of ByteSlice.
LowerBound(s, key) ==
  CHOOSE i \in 1 .. Len(s) + 1 :
    /\ \A j \in 1 .. i - 1 : Size(s[j].key) < Size(key)
    /\ i <= Len(s) => Size(s[i].key) >= Size(key)

\* Faulty variant of ChildIndex: the child's present first key is looked up.
ChildIndexByInode(p, child) ==
  LowerBound(inodes[p], IF inodes[child] = <<>> THEN NoKey ELSE inodes[child][1].key)

\* child_index(child)
ChildIndex(p, child) == LowerBound(inodes[p], node[child].first)

\* Node(pgid, bucket, parent), before anything is read into it.  unbalanced_ and spilled_
\* are left out: nothing reads the first, nothing sets the second.
NewNode(pg, parent, leaf) ==
  [leaf |-> leaf, pgid |-> pg, parent |-> parent,
   first |-> NoKey, children |-> <<>>]

\* Bucket::node(pg, parent, out) of a page that is not cached: a new node reads the
\* page.  (`links` is node with what the caller changes in it.)
Materialize(pg, parent, links) ==
  /\ made < MaxNodes
  /\ made' = made + 1
  /\ node' = [links EXCEPT ![made + 1] =
                [NewNode(pg, parent, PageAt[pg].leaf) EXCEPT !.first = FirstKey(pg)]]
  /\ inodes' = [inodes EXCEPT ![made + 1] = PageAt[pg].inodes]
  /\ nodeCache' = [nodeCache EXCEPT ![pg] = made + 1]
  /\ UNCHANGED <<root, highMark, freed, calls, stack, fault>>

Root ==
  /\ Idle
  /\ nodeCache[root] = 0
  /\ Materialize(root, 0, node)
  /\ rootNode' = made + 1

\* Faulty variant of ChildAt: a cached child is not recognised.
ChildAtUncached(p, i) ==
  /\ Idle
  /\ ~node[p].leaf
  /\ i \in DOMAIN inodes[p]
  /\ Materialize(inodes[p][i].pgid, p, [node EXCEPT ![p].children = Append(@, made + 1)])
  /\ UNCHANGED rootNode

\* child_at(i); it throws on a leaf, and a cached child changes nothing.
ChildAt(p, i) ==
  /\ Idle
  /\ ~node[p].leaf
  /\ i \in DOMAIN inodes[p]
  /\ nodeCache[inodes[p][i].pgid] = 0
  /\ Materialize(inodes[p][i].pgid, p, [node EXCEPT ![p].children = Append(@, made + 1)])
  /\ UNCHANGED rootNode

NextSibling(n) ==
  /\ node[n].parent # 0
  /\ ChildAt(node[n].parent, ChildIndex(node[n].parent, n) + 1)

PrevSibling(n) ==
  /\ node[n].parent # 0
  /\ ChildAt(node[n].parent, ChildIndex(node[n].parent, n) - 1)

-----------------------------------------------------------------------------
CountCall == calls < MaxCalls /\ calls' = calls + 1

\* What put expects of a new key: it is not there yet, and it has the old one's place
\* in the order, whatever element goes.
TakesPlace(n, old, new) ==
  LET s == inodes[n]
  IN  \A i \in DOMAIN s :
        /\ new # old => s[i].key # new
        /\ ~(i = LowerBound(s, old) /\ s[i].key = old) =>
             (Size(s[i].key) < Size(old) <=> Size(s[i].key) < Size(new))

\* Faulty variant of Put: an equal key is not looked for, the entry is always new.
PutAlwaysInserts(n, old, new, value) ==
  LET s == inodes[n]
      i == LowerBound(s, old)
      entry == [key |-> new, value |-> value, pgid |-> 0]
  IN  /\ Idle
      /\ highMark > 0
      /\ node[n].leaf
      /\ TakesPlace(n, old, new)
      /\ Len(s) < MaxInodes
      /\ inodes' = [inodes EXCEPT ![n] =
                      [j \in 1 .. Len(s) + 1 |->
                         IF j < i THEN s[j] ELSE IF j = i THEN entry ELSE s[j - 1]]]
      /\ CountCall
      /\ UNCHANGED <<made, node, nodeCache, root, rootNode, highMark, freed, stack, fault>>

\* put(old, new, value, 0, flags) on a leaf.  On a branch the page id is that of a
\* child, never below highMark, and put throws.
Put(n, old, new, value) ==
  LET s == inodes[n]
      i == LowerBound(s, old)
      exist == i <= Len(s) /\ s[i].key = old
      entry == [key |-> new, value |-> value, pgid |-> 0]
  IN  /\ Idle
      /\ highMark > 0
      /\ node[n].leaf
      /\ TakesPlace(n, old, new)
      /\ exist \/ Len(s) < MaxInodes
      /\ inodes' = [inodes EXCEPT ![n] =
                      IF exist THEN [s EXCEPT ![i] = entry]
                      ELSE [j \in 1 .. Len(s) + 1 |->
                              IF j < i THEN s[j] ELSE IF j = i THEN entry ELSE s[j - 1]]]
      /\ CountCall
      /\ UNCHANGED <<made, node, nodeCache, root, rootNode, highMark, freed, stack, fault>>

\* remove(key); a key that is not found changes nothing.
Remove(n, key) ==
  LET s == inodes[n]
      i == LowerBound(s, key)
  IN  /\ Idle
      /\ i <= Len(s)
      /\ s[i].key = key
      /\ inodes' = [inodes EXCEPT ![n] =
                      [j \in 1 .. Len(s) - 1 |-> IF j < i THEN s[j] ELSE s[j + 1]]]
      /\ CountCall
      /\ UNCHANGED <<made, node, nodeCache, root, rootNode, highMark, freed, stack, fault>>

-----------------------------------------------------------------------------
Top == stack[Len(stack)]

\* operator< of two slices reads inodes_[0] of two children; one child is not compared.
Comparable(n) == Len(node[n].children) > 1 => \A c \in Children(n) : inodes[c] # <<>>

\* The children of n by their first keys; std::sort may swap keys of one size.
Sorted(n, order) ==
  /\ {order[i] : i \in DOMAIN order} = Children(n)
  /\ \A i, j \in DOMAIN order : i < j =>
       /\ order[i] # order[j]
       /\ Size(inodes[order[i]][1].key) <= Size(inodes[order[j]][1].key)

\* Faulty variant of Call: the loop over the children stops before the last one.
CallStopsShort(n, below) ==
  /\ Comparable(n)
  /\ \E order \in [DOMAIN node[n].children -> Children(n)] :
       /\ Sorted(n, order)
       /\ node' = [node EXCEPT ![n].children = order]
       /\ stack' = Append(below, [node |-> n, rest |-> SubSeq(order, 1, Len(order) - 1)])
  /\ UNCHANGED fault

\* spill of n is called with the calls in `below` running.  It sorts n's children, and
\* its loop is to visit those that n has now.
Call(n, below) ==
  \/ /\ Comparable(n)
     /\ \E order \in [DOMAIN node[n].children -> Children(n)] :
          /\ Sorted(n, order)
          /\ node' = [node EXCEPT ![n].children = order]
          /\ stack' = Append(below, [node |-> n, rest |-> order])
     /\ UNCHANGED fault
  \/ /\ ~Comparable(n)
     /\ fault' = TRUE
     /\ UNCHANGED <<node, stack>>

SpillRoot ==
  /\ Idle
  /\ rootNode # 0
  /\ CountCall
  /\ Call(rootNode, <<>>)
  /\ UNCHANGED <<made, inodes, nodeCache, root, rootNode, highMark, freed>>

\* The loop of spill goes to its next child.
SpillChild ==
  /\ stack # <<>> /\ ~fault
  /\ Top.rest # <<>>
  /\ Call(Head(Top.rest), [stack EXCEPT ![Len(stack)].rest = Tail(@)])
  /\ UNCHANGED <<made, inodes, nodeCache, root, rootNode, highMark, freed, calls>>

\* split cuts the inodes of n into parts of MinKeys or more, while more than twice
\* as many are left (NodeSplit has where).  ends[k] is the last inode of part k.
IsSplit(n, ends) ==
  LET begin(k) == IF k = 1 THEN 0 ELSE ends[k - 1]
  IN  /\ Len(ends) > 0
      /\ ends[Len(ends)] = Len(inodes[n])
      /\ \A k \in 1 .. Len(ends) - 1 :
           /\ Len(inodes[n]) - begin(k) > 2 * MinKeys
           /\ begin(k) + MinKeys <= ends[k]
           /\ ends[k] + MinKeys <= Len(inodes[n])

\* Faulty variant of Part: the left node keeps what went to the right.
PartUncut(s, ends, k) ==
  SubSeq(s, IF k = 1 THEN 1 ELSE ends[k - 1] + 1, Len(s))

\* The inodes of part k.
Part(s, ends, k) ==
  SubSeq(s, IF k = 1 THEN 1 ELSE ends[k - 1] + 1, ends[k])

\* spill ends without a return.  Its caller takes what it finds for the Status: the loop
\* goes on with the next child, or every caller gives the error back; or the program
\* crashes, there or because the loop's vector has grown.
SpillReturns ==
  \/ /\ stack' = SubSeq(stack, 1, Len(stack) - 1)
     /\ UNCHANGED fault
  \/ /\ stack' = <<>>
     /\ fault' \in BOOLEAN

\* After its children a node is split, and its page is freed.  The new nodes join the
\* parent's children, over which the spill of the parent iterates; a root gets a parent
\* first.
SpillSplit(ends) ==
  LET n == Top.node
      parts == Len(ends)
      parent == IF node[n].parent = 0 /\ parts > 1 THEN made + 1 ELSE node[n].parent
      above == IF parent = made + 1 THEN 1 ELSE 0
      \* the new node that has part k, k > 1
      owner(k) == made + above + k - 1
      news == [k \in 1 .. parts - 1 |-> owner(k + 1)]
      old == [node EXCEPT ![n].pgid = 0, ![n].parent = parent, ![n].children = <<>>]
      elders == IF above = 1 THEN <<n>> ELSE node[parent].children
  IN  /\ stack # <<>> /\ ~fault
      /\ Top.rest = <<>>
      /\ IsSplit(n, ends)
      /\ made + above + parts - 1 <= MaxNodes
      /\ made' = made + above + parts - 1
      /\ node' = [m \in NodeId |->
                    IF m = parent /\ parts > 1
                    THEN [(IF above = 1 THEN NewNode(0, 0, FALSE) ELSE old[m])
                            EXCEPT !.children = elders \o news]
                    ELSE IF m \in made + above + 1 .. made + above + parts - 1
                    THEN NewNode(0, parent, node[n].leaf)
                    ELSE old[m]]
      /\ inodes' = [m \in NodeId |->
                      IF m = n THEN Part(inodes[n], ends, 1)
                      ELSE IF m \in made + above + 1 .. made + above + parts - 1
                      THEN Part(inodes[n], ends, m - made - above + 1)
                      ELSE inodes[m]]
      /\ freed' = freed \cup ({node[n].pgid} \ {0})
      /\ SpillReturns
      /\ UNCHANGED <<nodeCache, root, rootNode, highMark, calls>>

\* The transaction may end between two calls, and does when the program crashes.
Ends == (Idle \/ fault) /\ UNCHANGED treeVars

-----------------------------------------------------------------------------
TreeInit ==
  /\ made = 0
  /\ node = [n \in NodeId |-> NewNode(0, 0, FALSE)]
  /\ inodes = [n \in NodeId |-> <<>>]
  /\ nodeCache = [p \in PageId |-> 0]
  /\ root \in RootPages
  /\ rootNode = 0
  /\ highMark \in {0, 1}
  /\ freed = {}
  /\ calls = 0
  /\ stack = <<>>
  /\ fault = FALSE

TreeNext ==
  \/ Root
  \/ \E n \in Nodes :
       \/ \E i \in 1 .. MaxInodes : ChildAt(n, i)
       \/ NextSibling(n)
       \/ PrevSibling(n)
       \/ \E old, new \in Key, value \in Value : Put(n, old, new, value)
       \/ \E key \in Key : Remove(n, key)
  \/ SpillRoot
  \/ SpillChild
  \/ \E parts \in 1 .. MaxInodes : \E ends \in [1 .. parts -> 0 .. MaxInodes] : SpillSplit(ends)
  \/ Ends

TreeSpec == TreeInit /\ [][TreeNext]_treeVars

-----------------------------------------------------------------------------
\* The nodes form one tree without repetition: a node is its parent's child once and
\* no other's, and leaves the list only when its page and the parent's are freed,
\* though spill's loop runs over a list that splits of the children grow (node.cpp
\* 354-368); no page has two nodes, the cache finds the node of every page that has
\* one (bucket.cpp 18-22), and a page given to the free list belongs to no node.
TreeLinked ==
  /\ \A n \in Nodes : \A i, j \in DOMAIN node[n].children :
       /\ node[node[n].children[i]].parent = n
       /\ node[n].children[i] = node[n].children[j] => i = j
  /\ \A n \in Nodes : node[n].parent # 0 /\ n \notin Children(node[n].parent) =>
       node[n].pgid = 0 /\ node[node[n].parent].pgid = 0
  /\ \A n \in Nodes : node[n].pgid # 0 =>
       nodeCache[node[n].pgid] = n /\ node[n].pgid \notin freed

\* Node n has a first key, and element i of its parent is its own.
IsOwnElement(n, i) ==
  /\ node[n].pgid # 0
  /\ node[n].first # NoKey
  /\ inodes[node[n].parent][i].pgid = node[n].pgid

\* child_index misses a child's own element only for an earlier one with a key of the
\* same size (node.cpp 55-94), whatever was put to or removed from the child since it
\* was read: it looks for first_key_, which only read sets.  A child that was read
\* from an empty page has none and is not found.
SiblingsAdjacent ==
  \A n \in Nodes : node[n].parent # 0 =>
    LET p == node[n].parent
    IN  \A i \in DOMAIN inodes[p] : IsOwnElement(n, i) =>
          /\ ChildIndex(p, n) <= i
          /\ \A j \in ChildIndex(p, n) .. i : Size(inodes[p][j].key) = Size(inodes[p][i].key)

\* What child_index says it does (node.hpp 82): the index of the given child.  False, for
\* separators of one size and for children read from empty pages.
ChildFound ==
  \A n \in Nodes : node[n].parent # 0 /\ node[n].pgid # 0 =>
    LET p == node[n].parent
    IN  \A i \in DOMAIN inodes[p] :
          inodes[p][i].pgid = node[n].pgid => ChildIndex(p, n) = i

\* The sizes of the keys of every node ascend, through puts, removals and splits
\* (node.hpp 108): what the binary search of index_of relies on.  A key is there twice
\* only with others of its size between: put and remove see the first key of a size, so
\* a key behind another is stored again (node.cpp 122-126).
KeysAscend ==
  \A n \in Nodes : \A i, j \in DOMAIN inodes[n] : i < j =>
    /\ Size(inodes[n][i].key) <= Size(inodes[n][j].key)
    /\ inodes[n][i].key = inodes[n][j].key =>
         \E k \in i .. j : inodes[n][k].key # inodes[n][i].key

\* What put says it does (node.cpp 121): an exact match is found.  False, for keys of
\* one size.
KeyOnce ==
  \A n \in Nodes : \A i, j \in DOMAIN inodes[n] :
    inodes[n][i].key = inodes[n][j].key => i = j

EntriesIn(s) == {s[i] : i \in DOMAIN s}

\* A page is read into one node, a put stores one entry and a removal takes one out (a
\* key that is alone with its size is there once, so it is replaced and removed whole;
\* another one may be missed), a split moves entries, and nothing else touches what a
\* node holds (node.cpp 96-149, 315-316, bucket.cpp 18-40).
Map == INSTANCE KeyMap WITH
         content <- [n \in NodeId |-> EntriesIn(inodes[n])],
         loaded <- {p \in PageId : nodeCache[p] # 0},
         Stored <- [p \in PageId |-> EntriesIn(PageAt[p].inodes)]
ImplementsKeyMap == Map!KeyMapSpec
=============================================================================
