--------------------------- MODULE NodePageProofs ---------------------------
(***************************************************************************)
(* Node::write and Node::read, for all keys and values, every number of    *)
(* inodes and whatever the page's memory holds: the keys stay within the   *)
(* bytes byte_size announces, and a page read back has the keys, pgids and *)
(* flags of the node.                                                      *)
(***************************************************************************)
EXTENDS NodePage, SequenceTheorems, WellFoundedInduction, TLAPS

ElementT == [pos : Int, flags : Flags \cup {0}, pgid : Pgids \cup {0},
             keySize : Nat, valueSize : Nat]

\* What write and read work with; the page never has fewer bytes than byte_size.
PageShape ==
  /\ isLeaf \in BOOLEAN
  /\ inodes \in Seq(Inode(isLeaf))
  /\ elements \in Seq(ElementT) /\ Len(elements) <= Len(inodes)
  /\ DOMAIN mem = 0 .. PageBytes - 1
  /\ pc \in {"write", "items", "read", "done", "refused"}
  /\ Len(inodes) < SpecialCount => ByteSize <= PageBytes
  /\ pc \in {"write", "refused"} => Len(elements) = 0
  /\ pc \in {"items", "read", "done"} =>
       /\ flag = IF isLeaf THEN "leaf" ELSE "branch"
       /\ count = Len(inodes)
       /\ Len(inodes) < SpecialCount
  /\ pc = "items" => Len(elements) < Len(inodes)
  /\ pc \in {"read", "done"} => Len(elements) = Len(inodes)

\* The elements and the keys written so far leave the rest of byte_size free.
BaseInPage ==
  pc = "items" =>
    /\ base \in Nat
    /\ Len(inodes) * ElementSize <= base
    /\ base + Len(elements) * ElementSize <=
         Len(inodes) * ElementSize + SizeUpTo[Len(elements)]

\* Where the data of the k-th element begins.
Start(k) == (k - 1) * ElementSize + elements[k].pos

\* The k-th element describes the k-th inode, leads to its key, and neither the key
\* nor the announced value takes more than their share of byte_size.
Written(k) ==
  LET inode == inodes[k]
  IN  /\ elements[k].flags = inode.flags
      /\ elements[k].pgid = inode.pgid
      /\ elements[k].keySize = Len(inode.key)
      /\ elements[k].valueSize = Len(inode.value)
      /\ Len(inodes) * ElementSize <= Start(k)
      /\ pc = "items" => Start(k) + Len(inode.key) <= base
      /\ Start(k) + Len(inode.key) + Len(inode.value) + k * ElementSize <=
           Len(inodes) * ElementSize + SizeUpTo[k]
      /\ \A b \in 1 .. Len(inode.key) : mem[Start(k) + b - 1] = inode.key[b]

PageInv ==
  /\ PageShape
  /\ BaseInPage
  /\ \A k \in 1 .. Len(elements) : Written(k)
  /\ KeysSurvive

-----------------------------------------------------------------------------
(* The sizes add up.  The library's theorem on recursive definitions takes the *)
(* definition as an operator; these lemmas unfold SizeUpTo by the least place   *)
(* where it would not be defined.                                               *)

LEMMA LeastNat ==
  ASSUME NEW T, T \subseteq Nat, T # {}
  PROVE  \E m \in T : \A j \in T : ~(j < m)
<1>1. PICK m \in T : \A j \in T : ~(<<j, m>> \in OpToRel(<, Nat))
  BY NatLessThanWellFounded, WFMin, Zenon
<1> QED
  BY <1>1 DEF OpToRel

\* The size after inode m when a bytes lie before it.
Plus(a, m) == a + ElementSize + Len(inodes[m].key) + Len(inodes[m].value)

\* f adds up the first n inodes.
IsSum(f, n) == f = [m \in 0 .. n |-> IF m = 0 THEN 0 ELSE Plus(f[m - 1], m)]

LEMMA SumExists ==
  ASSUME NEW n \in Nat
  PROVE  \E f : IsSum(f, n)
<1> DEFINE T == {m \in Nat : ~ \E f : IsSum(f, m)}
<1>1. CASE T = {}
  BY <1>1
<1>2. CASE T # {}
  <2> T \subseteq Nat
    OBVIOUS
  <2> HIDE DEF T
  <2>1. PICK m \in T : \A j \in T : ~(j < m)
    BY <1>2, LeastNat
  <2>2. m \in Nat /\ ~ \E f : IsSum(f, m)
    BY <2>1 DEF T
  <2>3. CASE m = 0
    <3>1. IsSum([k \in 0 .. 0 |-> 0], 0)
      BY DEF IsSum
    <3> QED
      BY <2>2, <2>3, <3>1
  <2>4. CASE m # 0
    <3>1. m - 1 \in Nat /\ m - 1 \notin T
      BY <2>1, <2>2, <2>4
    <3>2. PICK f : IsSum(f, m - 1)
      BY <3>1 DEF T
    <3> DEFINE g == [k \in 0 .. m |-> IF k = m THEN Plus(f[m - 1], m) ELSE f[k]]
    <3>3. IsSum(g, m)
      <4>1. ASSUME NEW k \in 0 .. m
            PROVE  g[k] = IF k = 0 THEN 0 ELSE Plus(g[k - 1], k)
        <5>1. CASE k = m
          <6>1. m - 1 \in 0 .. m /\ m - 1 # m
            BY <2>2, <2>4
          <6>2. g[m - 1] = f[m - 1]
            BY <6>1
          <6> QED
            BY <2>4, <5>1, <6>2
        <5>2. CASE k # m
          <6>1. k \in 0 .. m - 1 /\ (k # 0 => k - 1 \in 0 .. m /\ k - 1 # m)
            BY <2>2, <4>1, <5>2
          <6>2. f[k] = IF k = 0 THEN 0 ELSE Plus(f[k - 1], k)
            BY <3>2, <6>1 DEF IsSum
          <6> QED
            BY <5>2, <6>1, <6>2
        <5> QED
          BY <5>1, <5>2
      <4> QED
        BY <4>1 DEF IsSum
    <3> QED
      BY <2>2, <3>3
  <2> QED
    BY <2>3, <2>4
<1> QED
  BY <1>1, <1>2

LEMMA InodeShape ==
  ASSUME isLeaf \in BOOLEAN, inodes \in Seq(Inode(isLeaf))
  PROVE  /\ Len(inodes) \in Nat
         /\ \A k \in 1 .. Len(inodes) :
              /\ inodes[k].key \in Seq(Byte) /\ Len(inodes[k].key) \in Nat
              /\ inodes[k].value \in Seq(Byte) /\ Len(inodes[k].value) \in Nat
              /\ isLeaf => inodes[k].pgid = 0
              /\ ~isLeaf => inodes[k].flags = 0
<1>1. Len(inodes) \in Nat
  OBVIOUS
<1>2. ASSUME NEW k \in 1 .. Len(inodes)
      PROVE  /\ inodes[k].key \in Seq(Byte) /\ inodes[k].value \in Seq(Byte)
             /\ isLeaf => inodes[k].pgid = 0
             /\ ~isLeaf => inodes[k].flags = 0
  <2>1. inodes[k] \in Inode(isLeaf)
    BY <1>2
  <2>2. /\ inodes[k].key \in Keys
        /\ inodes[k].value \in Values \/ inodes[k].value = <<>>
        /\ isLeaf => inodes[k].pgid = 0
        /\ ~isLeaf => inodes[k].flags = 0
    BY <2>1 DEF Inode
  <2>3. <<>> \in Seq(Byte)
    BY EmptySeq
  <2> QED
    BY <2>2, <2>3, NodePageAssumption
<1> QED
  BY <1>1, <1>2, LenProperties

\* What SizeUpTo adds up.
LEMMA SizeUpToIs ==
  ASSUME Len(inodes) \in Nat
  PROVE  IsSum(SizeUpTo, Len(inodes))
<1> DEFINE u == CHOOSE f : f = [m \in 0 .. Len(inodes) |->
                                  IF m = 0 THEN 0
                                  ELSE f[m - 1] + ElementSize + Len(inodes[m].key)
                                         + Len(inodes[m].value)]
<1>1. \E f : f = [m \in 0 .. Len(inodes) |->
                    IF m = 0 THEN 0
                    ELSE f[m - 1] + ElementSize + Len(inodes[m].key)
                           + Len(inodes[m].value)]
  <2>1. PICK f : IsSum(f, Len(inodes))
    BY SumExists, Zenon
  <2> QED
    BY <2>1 DEF IsSum, Plus
<1>2. u = [m \in 0 .. Len(inodes) |->
             IF m = 0 THEN 0
             ELSE u[m - 1] + ElementSize + Len(inodes[m].key) + Len(inodes[m].value)]
  BY <1>1
<1>3. SizeUpTo = u
  BY DEF SizeUpTo
<1> HIDE DEF u
<1> QED
  BY <1>2, <1>3 DEF IsSum, Plus

LEMMA SizeGrows ==
  ASSUME isLeaf \in BOOLEAN, inodes \in Seq(Inode(isLeaf))
  PROVE  /\ SizeUpTo[0] = 0
         /\ \A n \in 1 .. Len(inodes) : SizeUpTo[n] = Plus(SizeUpTo[n - 1], n)
<1>1. IsSum(SizeUpTo, Len(inodes)) /\ Len(inodes) \in Nat
  BY InodeShape, SizeUpToIs
<1> QED
  BY <1>1 DEF IsSum

LEMMA PlusGrows ==
  ASSUME NEW a \in Nat, NEW m,
         Len(inodes[m].key) \in Nat, Len(inodes[m].value) \in Nat
  PROVE  Plus(a, m) \in Nat /\ a + ElementSize <= Plus(a, m)
<1>1. ElementSize \in Nat
  BY NodePageAssumption
<1>2. \A e, x, y \in Nat : a + e + x + y \in Nat /\ a + e <= a + e + x + y
  OBVIOUS
<1> QED
  BY <1>1, <1>2, Zenon DEF Plus

LEMMA SizeNat ==
  ASSUME isLeaf \in BOOLEAN, inodes \in Seq(Inode(isLeaf)), NEW n \in 0 .. Len(inodes)
  PROVE  SizeUpTo[n] \in Nat
<1>0. Len(inodes) \in Nat
  BY InodeShape
<1> DEFINE T == {m \in Nat : m <= Len(inodes) /\ SizeUpTo[m] \notin Nat}
<1>1. CASE T = {}
  BY <1>0, <1>1
<1>2. CASE T # {}
  <2> T \subseteq Nat
    OBVIOUS
  <2> HIDE DEF T
  <2>1. PICK m \in T : \A j \in T : ~(j < m)
    BY <1>2, LeastNat
  <2>2. m \in Nat /\ m <= Len(inodes) /\ SizeUpTo[m] \notin Nat
    BY <2>1 DEF T
  <2>3. m # 0
    BY <2>2, SizeGrows
  <2>4. m - 1 \in Nat /\ m - 1 <= Len(inodes) /\ m - 1 < m /\ m \in 1 .. Len(inodes)
    BY <1>0, <2>2, <2>3
  <2>5. SizeUpTo[m - 1] \in Nat
    BY <2>1, <2>4 DEF T
  <2>6. SizeUpTo[m] = Plus(SizeUpTo[m - 1], m)
    BY <2>4, SizeGrows
  <2>7. Len(inodes[m].key) \in Nat /\ Len(inodes[m].value) \in Nat
    BY <2>4, InodeShape
  <2>8. Plus(SizeUpTo[m - 1], m) \in Nat
    BY <2>5, <2>7, PlusGrows
  <2> QED
    BY <2>2, <2>6, <2>8
<1> QED
  BY <1>1, <1>2

\* Every inode that follows takes at least an element.
LEMMA RestIsRoomy ==
  ASSUME isLeaf \in BOOLEAN, inodes \in Seq(Inode(isLeaf)), NEW n \in 0 .. Len(inodes)
  PROVE  SizeUpTo[n] + Len(inodes) * ElementSize <= ByteSize + n * ElementSize
<1> DEFINE N == Len(inodes)
           Ok(k) == SizeUpTo[k] + N * ElementSize <= ByteSize + k * ElementSize
           T == {d \in Nat : d <= N /\ ~Ok(N - d)}
<1>0. N \in Nat /\ ElementSize \in Nat /\ ByteSize = SizeUpTo[N] /\ SizeUpTo[N] \in Nat
  <2>1. N \in Nat /\ ElementSize \in Nat
    BY InodeShape, NodePageAssumption
  <2>2. N \in 0 .. Len(inodes)
    BY <2>1
  <2> QED
    BY <2>1, <2>2, SizeNat DEF ByteSize
<1>1. CASE T = {}
  <2>1. N - n \in Nat /\ N - n <= N /\ N - (N - n) = n
    BY <1>0
  <2>2. N - n \notin T
    BY <1>1
  <2>3. Ok(N - (N - n))
    BY <2>1, <2>2
  <2> QED
    BY <2>1, <2>3
<1>2. CASE T # {}
  <2> T \subseteq Nat
    OBVIOUS
  <2> HIDE DEF T
  <2>1. PICK d \in T : \A j \in T : ~(j < d)
    BY <1>2, LeastNat
  <2>2. d \in Nat /\ d <= N /\ ~Ok(N - d)
    BY <2>1 DEF T
  <2>3. d # 0
    <3>1. Ok(N)
      BY <1>0
    <3> HIDE DEF Ok
    <3>2. N - 0 = N
      BY <1>0
    <3> QED
      BY <2>2, <3>1, <3>2
  <2>4. PICK k \in Nat : k = N - d
    BY <1>0, <2>2
  <2>5. d - 1 \in Nat /\ d - 1 <= N /\ d - 1 < d /\ N - (d - 1) = k + 1 /\ k + 1 \in 1 .. N
    BY <1>0, <2>2, <2>3, <2>4
  <2>6. Ok(N - (d - 1))
    BY <2>1, <2>5 DEF T
  <2>7. SizeUpTo[k + 1] + N * ElementSize <= ByteSize + (k + 1) * ElementSize
    BY <2>5, <2>6
  <2>8. SizeUpTo[k + 1] = Plus(SizeUpTo[k], k + 1)
    <3>1. k + 1 - 1 = k
      OBVIOUS
    <3> QED
      BY <2>5, <3>1, SizeGrows
  <2>9. Len(inodes[k + 1].key) \in Nat /\ Len(inodes[k + 1].value) \in Nat
    BY <2>5, InodeShape
  <2>10. k \in 0 .. Len(inodes)
    BY <1>0, <2>2, <2>4
  <2>11. SizeUpTo[k] \in Nat
    BY <2>10, SizeNat
  <2>12. (k + 1) * ElementSize = k * ElementSize + ElementSize /\ k * ElementSize \in Nat
          /\ N * ElementSize \in Nat
    BY <1>0
  <2>13. /\ Plus(SizeUpTo[k], k + 1) \in Nat
         /\ SizeUpTo[k] + ElementSize <= Plus(SizeUpTo[k], k + 1)
    BY <2>9, <2>11, PlusGrows
  <2>14. SizeUpTo[k] + N * ElementSize <= ByteSize + k * ElementSize
    <3>1. Plus(SizeUpTo[k], k + 1) + N * ElementSize <= ByteSize + (k * ElementSize + ElementSize)
      BY <2>7, <2>8, <2>12, Zenon
    <3>2. PICK a, b, c, x, y \in Nat :
            /\ a = SizeUpTo[k] /\ b = Plus(SizeUpTo[k], k + 1)
            /\ c = N * ElementSize /\ x = k * ElementSize /\ y = ByteSize
      BY <1>0, <2>11, <2>12, <2>13
    <3>3. b + c <= y + (x + ElementSize) /\ a + ElementSize <= b
      BY <2>13, <3>1, <3>2
    <3>4. {a, b, c, x, y, ElementSize} \subseteq Nat
      BY <1>0, <3>2
    <3>5. a + c <= y + x
      BY <3>3, <3>4
    <3> QED
      BY <3>2, <3>5
  <2> QED
    BY <2>2, <2>4, <2>14
<1> QED
  BY <1>1, <1>2

-----------------------------------------------------------------------------
(* The steps.                                                                *)

LEMMA PageStart == NodePageInit => PageInv
<1> SUFFICES ASSUME NodePageInit
             PROVE  PageInv
  OBVIOUS
<1>1. inodes \in Seq(Inode(isLeaf)) /\ Len(inodes) \in Nat
  <2>1. PICK m \in 0 .. MaxInodes : inodes \in [1 .. m -> Inode(isLeaf)]
    BY DEF NodePageInit, BoundedSeq, SeqOf
  <2>2. m \in Nat
    BY NodePageAssumption
  <2> QED
    BY <2>1, <2>2
<1>2. elements = <<>> /\ elements \in Seq(ElementT) /\ Len(elements) = 0
  BY EmptySeq DEF NodePageInit
<1>3. DOMAIN mem = 0 .. PageBytes - 1
  BY DEF NodePageInit
<1>4. PageShape
  BY <1>1, <1>2, <1>3 DEF NodePageInit, PageShape
<1>5. BaseInPage /\ KeysSurvive
  BY DEF NodePageInit, BaseInPage, KeysSurvive
<1>6. \A k \in 1 .. Len(elements) : Written(k)
  BY <1>2
<1> QED
  BY <1>4, <1>5, <1>6 DEF PageInv

LEMMA OverflowStep == ASSUME PageInv, WriteOverflow PROVE PageInv'
<1>1. SizeUpTo' = SizeUpTo /\ ByteSize' = ByteSize
  BY DEF WriteOverflow, SizeUpTo, ByteSize
<1>2. PageShape'
  BY <1>1 DEF PageInv, PageShape, WriteOverflow, Inode
<1>3. (BaseInPage /\ KeysSurvive)'
  BY DEF BaseInPage, KeysSurvive, WriteOverflow
<1>4. Len(elements') = 0
  BY DEF PageInv, PageShape, WriteOverflow
<1>5. \A k \in 1 .. Len(elements') : Written(k)'
  BY <1>4
<1> QED
  BY <1>2, <1>3, <1>5 DEF PageInv

LEMMA HeaderStep == ASSUME PageInv, WriteHeader PROVE PageInv'
<1>1. SizeUpTo' = SizeUpTo /\ ByteSize' = ByteSize
  BY DEF WriteHeader, SizeUpTo, ByteSize
<1>2. /\ isLeaf \in BOOLEAN /\ inodes \in Seq(Inode(isLeaf)) /\ Len(elements) = 0
      /\ elements' = elements /\ inodes' = inodes
  BY DEF PageInv, PageShape, WriteHeader
<1>3. Len(inodes) \in Nat /\ ElementSize \in Nat /\ SizeUpTo[0] = 0
  BY <1>2, InodeShape, SizeGrows, NodePageAssumption
<1>4. inodes = <<>> <=> Len(inodes) = 0
  BY <1>2, EmptySeq
<1>5. PageShape'
  BY <1>1, <1>2, <1>3, <1>4 DEF PageInv, PageShape, WriteHeader, Inode
<1>6. BaseInPage'
  <2>1. base' = Len(inodes) * ElementSize /\ Len(inodes) * ElementSize \in Nat
    BY <1>3 DEF WriteHeader
  <2>2. 0 * ElementSize = 0
    BY <1>3
  <2> QED
    BY <1>1, <1>2, <1>3, <2>1, <2>2 DEF BaseInPage
<1>7. KeysSurvive'
  BY DEF KeysSurvive, WriteHeader
<1>8. \A k \in 1 .. Len(elements') : Written(k)'
  BY <1>2
<1> QED
  BY <1>5, <1>6, <1>7, <1>8 DEF PageInv

\* Where a key lies that was written within byte_size.
LEMMA WrittenInMemory ==
  ASSUME PageInv, NEW k \in 1 .. Len(elements)
  PROVE  /\ Start(k) \in Nat
         /\ Start(k) + Len(inodes[k].key) <= PageBytes
         /\ Start(k) + elements[k].keySize + elements[k].valueSize <= ByteSize
<1>1. /\ isLeaf \in BOOLEAN /\ inodes \in Seq(Inode(isLeaf))
      /\ elements \in Seq(ElementT) /\ Len(elements) <= Len(inodes)
      /\ ByteSize <= PageBytes
  <2>1. Len(elements) # 0
    BY DEF PageInv, PageShape
  <2> QED
    BY <2>1 DEF PageInv, PageShape
<1>2. /\ Len(inodes) \in Nat /\ k \in 1 .. Len(inodes) /\ k \in 0 .. Len(inodes)
      /\ ElementSize \in Nat
  <2>1. Len(inodes) \in Nat /\ Len(elements) \in Nat /\ ElementSize \in Nat
    BY <1>1, InodeShape, NodePageAssumption
  <2> QED
    BY <1>1, <2>1
<1>3. Len(inodes[k].key) \in Nat /\ Len(inodes[k].value) \in Nat
  BY <1>1, <1>2, InodeShape
<1>4. Start(k) \in Int
  <2>1. elements[k] \in ElementT
    BY <1>1
  <2>2. elements[k].pos \in Int
    BY <2>1 DEF ElementT
  <2>3. (k - 1) * ElementSize \in Int
    BY <1>2
  <2> QED
    BY <2>2, <2>3 DEF Start
<1>5. /\ Len(inodes) * ElementSize <= Start(k)
      /\ Start(k) + Len(inodes[k].key) + Len(inodes[k].value) + k * ElementSize <=
           Len(inodes) * ElementSize + SizeUpTo[k]
      /\ elements[k].keySize = Len(inodes[k].key)
      /\ elements[k].valueSize = Len(inodes[k].value)
  BY DEF PageInv, Written
<1>6. SizeUpTo[k] + Len(inodes) * ElementSize <= ByteSize + k * ElementSize
  BY <1>1, <1>2, RestIsRoomy
<1>7. SizeUpTo[k] \in Nat /\ ByteSize \in Nat
  <2>1. Len(inodes) \in 0 .. Len(inodes)
    BY <1>2
  <2> QED
    BY <1>1, <1>2, <2>1, SizeNat DEF ByteSize
<1>8. PageBytes \in Nat
  BY NodePageAssumption
<1>9. Len(inodes) * ElementSize \in Nat /\ k * ElementSize \in Nat
  BY <1>2
<1>10. PICK s \in Int, kl, vl, n, e, u, w \in Nat :
         /\ s = Start(k) /\ kl = Len(inodes[k].key) /\ vl = Len(inodes[k].value)
         /\ n = Len(inodes) * ElementSize /\ e = k * ElementSize
         /\ u = SizeUpTo[k] /\ w = ByteSize
  BY <1>3, <1>4, <1>7, <1>9
<1>11. /\ n <= s /\ s + kl + vl + e <= n + u /\ u + n <= w + e /\ w <= PageBytes
       /\ s \in Int /\ {kl, vl, n, e, u, w} \subseteq Nat
  BY <1>1, <1>5, <1>6, <1>10
<1>12. s \in Nat /\ s + kl + vl <= w /\ s + kl <= PageBytes
  BY <1>8, <1>11
<1> QED
  BY <1>5, <1>10, <1>12

LEMMA ReadStep == ASSUME PageInv, Read PROVE PageInv'
<1>1. /\ isLeaf \in BOOLEAN /\ inodes \in Seq(Inode(isLeaf))
      /\ Len(elements) = Len(inodes) /\ count = Len(inodes) /\ pc = "read"
      /\ flag = IF isLeaf THEN "leaf" ELSE "branch"
  BY DEF PageInv, PageShape, Read
<1>2. /\ isLeaf' = isLeaf /\ inodes' = inodes /\ elements' = elements /\ mem' = mem
      /\ base' = base /\ pc' = "done" /\ Len(inodes) \in Nat
  BY <1>1, InodeShape DEF Read
<1>3. SizeUpTo' = SizeUpTo /\ ByteSize' = ByteSize
  BY <1>2 DEF SizeUpTo, ByteSize
<1>4. PageShape'
  BY <1>2, <1>3 DEF PageInv, PageShape, Read, Inode
<1>5. BaseInPage'
  BY <1>2 DEF BaseInPage
<1>6. \A k \in 1 .. Len(elements') : Written(k)'
  BY <1>1, <1>2, <1>3 DEF PageInv, Written, Start
<1>7. /\ read'.leaf = isLeaf
      /\ read'.inodes = [k \in 1 .. Len(inodes) |-> Loaded(k - 1, isLeaf)]
  <2>1. isLeaf = (flag = "leaf")
    BY <1>1
  <2> QED
    BY <1>1, <2>1 DEF Read
<1>8. ASSUME NEW k \in 1 .. Len(inodes)
      PROVE  /\ Loaded(k - 1, isLeaf).key = inodes[k].key
             /\ Loaded(k - 1, isLeaf).flags = inodes[k].flags
             /\ Loaded(k - 1, isLeaf).pgid = inodes[k].pgid
  <2>1. /\ elements[k].flags = inodes[k].flags /\ elements[k].pgid = inodes[k].pgid
        /\ elements[k].keySize = Len(inodes[k].key)
        /\ \A b \in 1 .. Len(inodes[k].key) : mem[Start(k) + b - 1] = inodes[k].key[b]
    BY <1>1, <1>8 DEF PageInv, Written
  <2>2. /\ inodes[k].key \in Seq(Byte)
        /\ isLeaf => inodes[k].pgid = 0
        /\ ~isLeaf => inodes[k].flags = 0
    BY <1>1, <1>8, InodeShape
  <2>3. k - 1 + 1 = k
    BY <1>2, <1>8
  <2>4. Loaded(k - 1, isLeaf).key = BytesAt(Start(k), elements[k].keySize)
    BY <2>3 DEF Loaded, Start
  <2>5. BytesAt(Start(k), elements[k].keySize) = inodes[k].key
    <3>1. BytesAt(Start(k), elements[k].keySize) =
            [b \in 1 .. Len(inodes[k].key) |-> inodes[k].key[b]]
      BY <2>1 DEF BytesAt
    <3>2. PICK s \in Seq(Byte) : s = inodes[k].key
      BY <2>2
    <3>3. s = [b \in 1 .. Len(s) |-> s[b]]
      OBVIOUS
    <3> QED
      BY <3>1, <3>2, <3>3
  <2>6. /\ Loaded(k - 1, isLeaf).flags = IF isLeaf THEN elements[k].flags ELSE 0
        /\ Loaded(k - 1, isLeaf).pgid = IF isLeaf THEN 0 ELSE elements[k].pgid
    BY <2>3 DEF Loaded
  <2> QED
    BY <1>1, <2>1, <2>2, <2>4, <2>5, <2>6
<1>9. KeysSurvive'
  <2>1. DOMAIN inodes = 1 .. Len(inodes)
    BY <1>1
  <2>2. Len(read'.inodes) = Len(inodes)
    BY <1>2, <1>7
  <2>3. ASSUME NEW k \in 1 .. Len(inodes)
        PROVE  read'.inodes[k] = Loaded(k - 1, isLeaf)
    BY <1>7, <2>3
  <2> QED
    BY <1>2, <1>7, <1>8, <2>1, <2>2, <2>3 DEF KeysSurvive
<1> QED
  BY <1>4, <1>5, <1>6, <1>9 DEF PageInv

\* A key that is copied to the page, and what the copy leaves alone.
LEMMA CopiedBytes ==
  ASSUME DOMAIN mem = 0 .. PageBytes - 1, NEW s \in Seq(Byte), NEW b \in Nat,
         b + Len(s) <= PageBytes
  PROVE  /\ DOMAIN Copied(s, b) = 0 .. PageBytes - 1
         /\ \A j \in 1 .. Len(s) : Copied(s, b)[b + j - 1] = s[j]
         /\ \A o \in 0 .. PageBytes - 1 : o < b => Copied(s, b)[o] = mem[o]
<1>1. Len(s) \in Nat /\ DOMAIN s = 1 .. Len(s) /\ PageBytes \in Nat
  BY NodePageAssumption
<1>2. ASSUME NEW j \in 1 .. Len(s)
      PROVE  Copied(s, b)[b + j - 1] = s[j]
  <2>1. b + j - 1 \in 0 .. PageBytes - 1 /\ b + j - 1 - b + 1 = j
    BY <1>1
  <2> QED
    BY <1>1, <2>1 DEF Copied
<1>3. ASSUME NEW o \in 0 .. PageBytes - 1, o < b
      PROVE  Copied(s, b)[o] = mem[o]
  <2>1. o - b + 1 \notin 1 .. Len(s)
    BY <1>1, <1>3
  <2> QED
    BY <1>1, <2>1 DEF Copied
<1> QED
  BY <1>2, <1>3 DEF Copied

LEMMA ItemStep == ASSUME PageInv, WriteItem PROVE PageInv'
<1> DEFINE m == Len(elements)
           N == Len(inodes)
           inode == inodes[m + 1]
           new == Element(inode, m, base)
<1>1. /\ isLeaf \in BOOLEAN /\ inodes \in Seq(Inode(isLeaf))
      /\ elements \in Seq(ElementT) /\ m < N /\ pc = "items"
      /\ DOMAIN mem = 0 .. PageBytes - 1 /\ ByteSize <= PageBytes
      /\ base \in Nat /\ N * ElementSize <= base
      /\ base + m * ElementSize <= N * ElementSize + SizeUpTo[m]
  BY DEF PageInv, PageShape, BaseInPage, WriteItem
<1>2. /\ elements' = Append(elements, new) /\ mem' = Copied(inode.key, base)
      /\ base' = base + Len(inode.key)
      /\ isLeaf' = isLeaf /\ inodes' = inodes /\ flag' = flag /\ count' = count
      /\ pc' = IF Len(elements') = N THEN "read" ELSE "items"
  BY DEF WriteItem
<1>3. SizeUpTo' = SizeUpTo /\ ByteSize' = ByteSize
  BY <1>2 DEF SizeUpTo, ByteSize
<1>4. /\ N \in Nat /\ m \in Nat /\ m + 1 \in 1 .. N /\ m \in 0 .. N /\ m + 1 \in 0 .. N
      /\ ElementSize \in Nat
  <2>1. N \in Nat /\ m \in Nat /\ ElementSize \in Nat
    BY <1>1, InodeShape, NodePageAssumption
  <2> QED
    BY <1>1, <2>1
<1>5. /\ inode.key \in Seq(Byte) /\ Len(inode.key) \in Nat /\ Len(inode.value) \in Nat
      /\ inode \in Inode(isLeaf)
  BY <1>1, <1>4, InodeShape
<1>6. m * ElementSize \in Nat /\ N * ElementSize \in Nat
      /\ (m + 1) * ElementSize = m * ElementSize + ElementSize
  BY <1>4
<1>7. new \in ElementT
  <2>1. base - m * ElementSize \in Int
    BY <1>1, <1>6
  <2>2. inode.flags \in Flags \cup {0} /\ inode.pgid \in Pgids \cup {0}
    BY <1>1, <1>5 DEF Inode
  <2> QED
    BY <1>5, <2>1, <2>2 DEF Element, ElementT
<1>8. /\ elements' \in Seq(ElementT) /\ Len(elements') = m + 1
      /\ elements'[m + 1] = new
      /\ \A k \in 1 .. m : elements'[k] = elements[k]
  BY <1>1, <1>2, <1>7
<1>9. /\ SizeUpTo[m + 1] = SizeUpTo[m] + ElementSize + Len(inode.key) + Len(inode.value)
      /\ SizeUpTo[m] \in Nat /\ SizeUpTo[m + 1] \in Nat
  <2>1. m + 1 - 1 = m
    BY <1>4
  <2>2. SizeUpTo[m + 1] = Plus(SizeUpTo[m], m + 1)
    BY <1>1, <1>4, <2>1, SizeGrows
  <2> QED
    BY <1>1, <1>4, <2>2, SizeNat DEF Plus
<1>10. SizeUpTo[m + 1] + N * ElementSize <= ByteSize + (m + 1) * ElementSize
  BY <1>1, <1>4, RestIsRoomy
<1>11. ByteSize \in Nat /\ PageBytes \in Nat
  <2>1. N \in 0 .. N
    BY <1>4
  <2> QED
    BY <1>1, <2>1, SizeNat, NodePageAssumption DEF ByteSize
<1> HIDE DEF m, N, inode, new
<1>11a. PICK kl, vl \in Nat : kl = Len(inode.key) /\ vl = Len(inode.value)
  BY <1>5
<1>11b. PICK n, e, f \in Nat :
          n = N * ElementSize /\ e = m * ElementSize /\ f = (m + 1) * ElementSize
  <2>1. (m + 1) * ElementSize \in Nat
    BY <1>4
  <2> QED
    BY <1>6, <2>1
<1>11c. PICK u, v, w \in Nat : u = SizeUpTo[m] /\ v = SizeUpTo[m + 1] /\ w = ByteSize
  BY <1>9, <1>11
<1>12. /\ kl = Len(inode.key) /\ vl = Len(inode.value)
       /\ n = N * ElementSize /\ e = m * ElementSize /\ f = (m + 1) * ElementSize
       /\ u = SizeUpTo[m] /\ v = SizeUpTo[m + 1] /\ w = ByteSize
       /\ {kl, vl, n, e, f, u, v, w} \subseteq Nat
  BY <1>11a, <1>11b, <1>11c
<1>13. /\ {kl, vl, n, e, f, u, v, w, base, ElementSize, PageBytes} \subseteq Nat
       /\ n <= base /\ base + e <= n + u /\ f = e + ElementSize
       /\ v = u + ElementSize + kl + vl /\ v + n <= w + f /\ w <= PageBytes
  BY <1>1, <1>4, <1>6, <1>9, <1>10, <1>11, <1>12
\* The new element and its key take their share of byte_size and no more.
<1>14. /\ base + kl + vl + f <= n + v /\ base + kl + f <= n + v
       /\ base + kl <= PageBytes /\ base + kl \in Nat /\ n <= base + kl
       /\ base <= base + kl
  BY <1>13
<1>15. /\ DOMAIN mem' = 0 .. PageBytes - 1
       /\ \A b \in 1 .. Len(inode.key) : mem'[base + b - 1] = inode.key[b]
       /\ \A o \in 0 .. PageBytes - 1 : o < base => mem'[o] = mem[o]
  <2>1. base + Len(inode.key) <= PageBytes
    BY <1>12, <1>14
  <2> QED
    BY <1>1, <1>2, <1>5, <2>1, CopiedBytes
<1>16. PageShape'
  <2>1. Len(elements') <= N /\ Len(elements') = m + 1 /\ Len(inodes') = N
    BY <1>2, <1>4, <1>8 DEF N
  <2>2. /\ pc' \in {"read", "items"} /\ (pc' = "items" => m + 1 < N)
        /\ (pc' = "read" => m + 1 = N)
    BY <1>2, <1>4, <2>1
  <2>3. (inodes \in Seq(Inode(isLeaf)))'
    BY <1>1, <1>2 DEF Inode
  <2>4. /\ flag' = IF isLeaf' THEN "leaf" ELSE "branch"
        /\ count' = N
        /\ N < SpecialCount
    BY <1>1, <1>2 DEF PageInv, PageShape, N
  <2> QED
    BY <1>1, <1>2, <1>3, <1>8, <1>15, <2>1, <2>2, <2>3, <2>4 DEF PageShape
<1>17. BaseInPage'
  <2>1. base' = base + kl
    BY <1>2, <1>12
  <2>2. Len(inodes') * ElementSize = n /\ Len(elements') * ElementSize = f
        /\ SizeUpTo'[Len(elements')] = v
    BY <1>2, <1>3, <1>8, <1>12 DEF N
  <2> QED
    BY <1>14, <2>1, <2>2 DEF BaseInPage
<1>18. ASSUME NEW k \in 1 .. Len(elements')
       PROVE  Written(k)'
  <2>1. CASE k = m + 1
    <3>1. Start(k)' = base
      <4>1. elements'[k].pos = base - e
        BY <1>8, <1>12, <2>1 DEF new, Element
      <4>2. (k - 1) * ElementSize = e
        BY <1>4, <1>12, <2>1
      <4>3. e + (base - e) = base
        BY SMTT(40), <1>13
      <4> QED
        BY <4>1, <4>2, <4>3 DEF Start
    <3>2. /\ elements'[k].flags = inode.flags /\ elements'[k].pgid = inode.pgid
          /\ elements'[k].keySize = Len(inode.key) /\ elements'[k].valueSize = Len(inode.value)
      BY <1>8, <2>1 DEF new, Element
    <3>3. inodes'[k] = inode /\ Len(inodes') * ElementSize = n /\ SizeUpTo'[k] = v
          /\ k * ElementSize = f
      BY <1>2, <1>3, <1>12, <2>1 DEF inode, N
    <3>4. base' = base + kl
      BY <1>2, <1>12
    <3>5. Start(k)' + Len(inodes'[k].key) <= base'
      <4>1. Start(k)' + Len(inodes'[k].key) = base'
        BY <1>12, <3>1, <3>3, <3>4
      <4>2. base' \in Nat
        BY <1>14, <3>4
      <4> QED
        BY <4>1, <4>2
    <3>6. /\ Len(inodes') * ElementSize <= Start(k)'
          /\ Start(k)' + Len(inodes'[k].key) + Len(inodes'[k].value) + k * ElementSize <=
               Len(inodes') * ElementSize + SizeUpTo'[k]
      BY <1>12, <1>13, <1>14, <3>1, <3>3
    <3>7. \A b \in 1 .. Len(inodes'[k].key) : mem'[Start(k)' + b - 1] = inodes'[k].key[b]
      BY <1>15, <3>1, <3>3
    <3> QED
      BY <3>2, <3>3, <3>5, <3>6, <3>7 DEF Written
  <2>2. CASE k # m + 1
    <3>1. k \in 1 .. m /\ k \in 1 .. Len(elements)
      BY <1>4, <1>8, <2>2 DEF m
    <3>2. Written(k)
      BY <3>1 DEF PageInv
    <3>3. /\ Start(k) \in Nat /\ Start(k) + Len(inodes[k].key) <= PageBytes
      BY <1>1, <3>1, WrittenInMemory
    <3>4. Start(k)' = Start(k) /\ elements'[k] = elements[k] /\ inodes'[k] = inodes[k]
      BY <1>2, <1>8, <3>1 DEF Start
    <3>5. k \in 1 .. Len(inodes)
      BY <1>1, <1>4, <3>1 DEF N
    <3>6. Len(inodes[k].key) \in Nat
      BY <1>1, <3>5, InodeShape
    <3>7. Start(k) + Len(inodes[k].key) <= base /\ base <= base'
      <4>1. base' = base + kl
        BY <1>2, <1>12
      <4>2. base <= base'
        BY <1>14, <4>1
      <4> QED
        BY <1>1, <3>2, <4>2 DEF Written
    <3>8. PICK s, l \in Nat : s = Start(k) /\ l = Len(inodes[k].key)
      BY <3>3, <3>6
    <3>9. s + l <= base /\ base <= base + kl /\ s + l <= PageBytes /\ base' = base + kl
          /\ {s, l, base, base + kl, PageBytes} \subseteq Nat
      BY <1>1, <1>2, <1>11, <1>12, <1>14, <3>3, <3>7, <3>8
    <3>10. ASSUME NEW b \in 1 .. Len(inodes[k].key)
           PROVE  mem'[Start(k) + b - 1] = inodes[k].key[b]
      <4>1. b \in 1 .. l
        BY <3>8
      <4>2. s + b - 1 \in 0 .. PageBytes - 1 /\ s + b - 1 < base
        BY <3>9, <4>1
      <4>3. mem'[s + b - 1] = mem[s + b - 1]
        BY <1>15, <4>2
      <4> QED
        BY <3>2, <3>8, <4>3 DEF Written
    <3>11. Start(k) + Len(inodes[k].key) <= base'
      <4>1. s + l <= base + kl
        BY <3>9
      <4> QED
        BY <3>8, <3>9, <4>1
    <3> QED
      BY <1>2, <1>3, <3>2, <3>4, <3>10, <3>11 DEF Written
  <2> QED
    BY <2>1, <2>2
<1>19. KeysSurvive'
  BY <1>2 DEF KeysSurvive
<1> QED
  BY <1>16, <1>17, <1>18, <1>19 DEF PageInv

LEMMA PageStep == PageInv /\ [NodePageNext]_nodePageVars => PageInv'
<1> SUFFICES ASSUME PageInv, [NodePageNext]_nodePageVars
             PROVE  PageInv'
  OBVIOUS
<1>1. CASE UNCHANGED nodePageVars
  <2>1. SizeUpTo' = SizeUpTo /\ ByteSize' = ByteSize
    BY <1>1 DEF nodePageVars, SizeUpTo, ByteSize
  <2>2. PageShape'
    BY <1>1, <2>1 DEF nodePageVars, PageInv, PageShape, Inode
  <2>3. BaseInPage' /\ KeysSurvive'
    BY <1>1, <2>1 DEF nodePageVars, PageInv, BaseInPage, KeysSurvive
  <2>4. \A k \in 1 .. Len(elements') : Written(k)'
    BY <1>1, <2>1 DEF nodePageVars, PageInv, Written, Start
  <2> QED
    BY <2>2, <2>3, <2>4 DEF PageInv
<1> QED
  BY <1>1, OverflowStep, HeaderStep, ItemStep, ReadStep DEF NodePageNext

LEMMA PageAlways == NodePageSpec => []PageInv
BY PageStart, PageStep, PTL DEF NodePageSpec

\* KeysSurvive holds in every reachable state: a node read back from a page has its
\* kind and every key, pgid and flag, whatever its keys and the page's old bytes.
THEOREM PageKeepsKeys == NodePageSpec => []KeysSurvive
<1>1. PageInv => KeysSurvive
  BY DEF PageInv
<1> QED
  BY <1>1, PageAlways, PTL

\* StaysInPage holds in every reachable state: byte_size is room enough for the keys
\* and for the values the elements announce, and no key lies in an element.
THEOREM PageStaysInPage == NodePageSpec => []StaysInPage
<1>1. ASSUME PageInv
      PROVE  StaysInPage
  <2>1. ASSUME NEW k \in 1 .. Len(elements)
        PROVE  /\ Len(inodes) * ElementSize <= Start(k)
               /\ Start(k) + elements[k].keySize + elements[k].valueSize <= ByteSize
    BY <1>1, <2>1, WrittenInMemory DEF PageInv, Written
  <2> QED
    BY <2>1 DEF StaysInPage, Start
<1> QED
  BY <1>1, PageAlways, PTL
=============================================================================
