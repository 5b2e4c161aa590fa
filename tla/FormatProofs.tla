---------------------------- MODULE FormatProofs ----------------------------
(***************************************************************************)
(* Meta pages: integers of any width are decoded as they were encoded, in  *)
(* both byte orders (util/binary.hpp); crc64_be divides by its polynomial  *)
(* (util/crc64.cpp); a meta that is written is read back and validates,    *)
(* one whose page is hit by a burst of flipped bits does not, nor one torn *)
(* by the write of another, but for collisions (db/db.cpp 143-217).        *)
(***************************************************************************)
EXTENDS MetaPage, SequenceTheorems, FiniteSetTheorems, WellFoundedInduction, TLAPS

-----------------------------------------------------------------------------
LEMMA Division ==
  ASSUME NEW b \in Nat, NEW d \in Nat \ {0}
  PROVE  /\ b \div d \in Nat
         /\ d * (b \div d) <= b
         /\ b < d * (b \div d) + d
OBVIOUS

LEMMA DivisionBelow ==
  ASSUME NEW b \in Nat, NEW d \in Nat \ {0}, NEW n \in Nat, b < d * n
  PROVE  b \div d < n
BY Division

\* A byte that was cut out of an integer and shifted back is that part of it.
LEMMA ByteShiftedBack ==
  ASSUME NEW n \in Nat, NEW v \in UnsignedT(n), NEW k \in Nat
  PROVE  ShiftLeft(ByteAt(v, k), k) = {b \in v : k <= b /\ b < k + ByteBits}
<1>1. v \subseteq Int
  BY BinaryAssumption DEF UnsignedT
<1>2. ASSUME NEW b \in ShiftLeft(ByteAt(v, k), k)
      PROVE  b \in v /\ k <= b /\ b < k + ByteBits
  <2>1. PICK c \in ByteAt(v, k) : b = c + k
    BY DEF ShiftLeft
  <2>2. c \in 0 .. ByteBits - 1 /\ c \in ShiftRight(v, k)
    BY DEF ByteAt
  <2>3. PICK d \in v : d >= k /\ c = d - k
    BY <2>2 DEF ShiftRight
  <2>4. b = d
    BY <1>1, <2>1, <2>3
  <2> QED  BY <1>1, <2>1, <2>2, <2>3, <2>4, BinaryAssumption
<1>3. ASSUME NEW b \in v, k <= b, b < k + ByteBits
      PROVE  b \in ShiftLeft(ByteAt(v, k), k)
  <2>1. b \in Int
    BY <1>1
  <2>2. b - k \in ShiftRight(v, k)
    BY <1>3, <2>1 DEF ShiftRight
  <2>3. b - k \in 0 .. ByteBits - 1
    BY <1>3, <2>1, BinaryAssumption
  <2>4. b = (b - k) + k
    BY <2>1
  <2> QED  BY <2>2, <2>3, <2>4 DEF ByteAt, ShiftLeft
<1> QED  BY <1>2, <1>3

\* Every bit of an integer of n bytes is in the byte that the little endian order
\* puts at place i, for one i of 1 .. n.
LEMMA LittleEndianCovers ==
  ASSUME NEW n \in Nat, NEW v \in UnsignedT(n), NEW b \in v
  PROVE  \E i \in 1 .. n : LittleEndian(i, n) <= b /\ b < LittleEndian(i, n) + ByteBits
<1>1. b \in Nat /\ b < ByteBits * n
  BY BinaryAssumption DEF UnsignedT
<1>2. b \div ByteBits \in Nat /\ b \div ByteBits < n
  BY <1>1, BinaryAssumption, Division, DivisionBelow
<1>3. (b \div ByteBits) + 1 \in 1 .. n
  BY <1>2
<1>4. LittleEndian((b \div ByteBits) + 1, n) = ByteBits * (b \div ByteBits)
  BY <1>2 DEF LittleEndian
<1> QED  BY <1>1, <1>3, <1>4, BinaryAssumption, Division

LEMMA BigEndianCovers ==
  ASSUME NEW n \in Nat, NEW v \in UnsignedT(n), NEW b \in v
  PROVE  \E i \in 1 .. n : BigEndian(i, n) <= b /\ b < BigEndian(i, n) + ByteBits
<1>1. PICK j \in 1 .. n : LittleEndian(j, n) <= b /\ b < LittleEndian(j, n) + ByteBits
  BY LittleEndianCovers
<1>2. n + 1 - j \in 1 .. n
  OBVIOUS
<1>3. n - (n + 1 - j) = j - 1
  OBVIOUS
<1>4. BigEndian(n + 1 - j, n) = LittleEndian(j, n)
  BY <1>3 DEF BigEndian, LittleEndian
<1> QED  BY <1>1, <1>2, <1>4

LEMMA ShiftsAreNat ==
  ASSUME NEW n \in Nat, NEW i \in 1 .. n
  PROVE  LittleEndian(i, n) \in Nat /\ BigEndian(i, n) \in Nat
<1>1. i - 1 \in Nat /\ n - i \in Nat
  OBVIOUS
<1>2. \A a \in Nat : ByteBits * a \in Nat
  BY BinaryAssumption
<1> QED  BY <1>1, <1>2 DEF LittleEndian, BigEndian

LEMMA ShiftCovers ==
  ASSUME NEW order \in Order, NEW n \in Nat, NEW v \in UnsignedT(n), NEW b \in v
  PROVE  \E i \in 1 .. n : Shift(order, i, n) <= b /\ b < Shift(order, i, n) + ByteBits
<1>1. CASE order = "big"
  BY <1>1, BigEndianCovers DEF Shift
<1>2. CASE order # "big"
  BY <1>2, LittleEndianCovers DEF Shift
<1> QED  BY <1>1, <1>2

\* What uint makes of a slice that begins with the bytes of v.
LEMMA BytesDecoded ==
  ASSUME NEW order \in Order, NEW n \in Nat, NEW v \in UnsignedT(n), NEW s,
         \A i \in 1 .. n : s[i] = ByteAt(v, Shift(order, i, n))
  PROVE  Uint(order, s, n) = v
<1> DEFINE z(i) == Shift(order, i, n)
<1>1. \A i \in 1 .. n : s[i] = ByteAt(v, z(i))
  OBVIOUS
<1>2. \A i \in 1 .. n : z(i) \in Nat
  BY ShiftsAreNat DEF Shift
<1>3. Uint(order, s, n) = UNION {ShiftLeft(s[i], z(i)) : i \in 1 .. n}
  BY DEF Uint
<1>4. \A b \in v : \E i \in 1 .. n : z(i) <= b /\ b < z(i) + ByteBits
  BY ShiftCovers
<1> HIDE DEF z
<1>5. \A i \in 1 .. n :
        ShiftLeft(s[i], z(i)) = {b \in v : z(i) <= b /\ b < z(i) + ByteBits}
  BY <1>1, <1>2, ByteShiftedBack
<1>6. \A b \in v : b \in Uint(order, s, n)
  BY <1>3, <1>4, <1>5
<1>7. \A b \in Uint(order, s, n) : b \in v
  BY <1>3, <1>5
<1> QED  BY <1>6, <1>7

\* Whatever integer append_uint encodes, uint decodes: for every width, in the big
\* endian order of a meta page and in the little endian order of a page header.
THEOREM IntegersInvert ==
  ASSUME NEW order \in Order, NEW n \in Nat, NEW v \in UnsignedT(n)
  PROVE  Uint(order, AppendUint(order, <<>>, v, n), n) = v
<1> DEFINE s == AppendUint(order, <<>>, v, n)
<1>1. \A i \in 1 .. n : s[i] = ByteAt(v, Shift(order, i, n))
  BY DEF AppendUint
<1> HIDE DEF s
<1>2. Uint(order, s, n) = v
  BY <1>1, BytesDecoded
<1> QED  BY <1>2 DEF s

-----------------------------------------------------------------------------
(* Induction, and the functions the model defines by recursion.               *)

LEMMA LeastNat ==
  ASSUME NEW T, T \subseteq Nat, T # {}
  PROVE  \E m \in T : \A j \in T : ~(j < m)
<1>1. PICK m \in T : \A j \in T : ~(<<j, m>> \in OpToRel(<, Nat))
  BY NatLessThanWellFounded, WFMin, Zenon
<1> QED  BY <1>1 DEF OpToRel

LEMMA UpTo ==
  ASSUME NEW n \in Nat, NEW G, 0 \in G, \A k \in 0 .. n - 1 : k \in G => k + 1 \in G
  PROVE  \A k \in 0 .. n : k \in G
<1> DEFINE T == {k \in 0 .. n : k \notin G}
<1> SUFFICES ASSUME T # {} PROVE FALSE
  OBVIOUS
<1>1. T \subseteq Nat
  OBVIOUS
<1> HIDE DEF T
<1>2. PICK m \in T : \A j \in T : ~(j < m)
  BY <1>1, LeastNat
<1>3. m \in 0 .. n /\ m \notin G
  BY <1>2 DEF T
<1>4. m # 0
  BY <1>3
<1>5. m - 1 \in 0 .. n - 1 /\ (m - 1) + 1 = m /\ m - 1 \in 0 .. n /\ m - 1 < m
  BY <1>3, <1>4
<1>6. m - 1 \in G
  BY <1>2, <1>5 DEF T
<1> QED  BY <1>3, <1>5, <1>6

\* The functions on 0 .. n that start with base and go on as next says.
Recursions(n, S, base, next) ==
  {f \in [0 .. n -> S] : f[0] = base /\ \A i \in 1 .. n : f[i] = next[i][f[i - 1]]}

LEMMA RecursionExists ==
  ASSUME NEW n \in Nat, NEW S, NEW base \in S, NEW next \in [1 .. n -> [S -> S]]
  PROVE  Recursions(n, S, base, next) # {}
<1> DEFINE G == {k \in 0 .. n : \E f \in [0 .. k -> S] :
                    f[0] = base /\ \A i \in 1 .. k : f[i] = next[i][f[i - 1]]}
<1>1. 0 \in G
  <2>1. [i \in 0 .. 0 |-> base] \in [0 .. 0 -> S]
    OBVIOUS
  <2>2. [i \in 0 .. 0 |-> base][0] = base /\ 1 .. 0 = {} /\ 0 \in 0 .. n
    OBVIOUS
  <2> QED  BY <2>1, <2>2
<1>2. ASSUME NEW k \in 0 .. n - 1, k \in G
      PROVE  k + 1 \in G
  <2>1. PICK f \in [0 .. k -> S] : f[0] = base /\ \A i \in 1 .. k : f[i] = next[i][f[i - 1]]
    BY <1>2
  <2> DEFINE g == [i \in 0 .. k + 1 |-> IF i = k + 1 THEN next[k + 1][f[k]] ELSE f[i]]
  <2>2. k + 1 \in 1 .. n /\ k \in 0 .. k /\ k + 1 \in 0 .. n /\ k + 1 # 0
    OBVIOUS
  <2>3. next[k + 1][f[k]] \in S
    BY <2>1, <2>2
  <2>4. \A i \in 0 .. k + 1 : i = k + 1 \/ i \in 0 .. k
    OBVIOUS
  <2>5. g \in [0 .. k + 1 -> S]
    BY <2>3, <2>4
  <2>6. g[0] = base
    BY <2>1, <2>2
  <2>7. ASSUME NEW i \in 1 .. k + 1
        PROVE  g[i] = next[i][g[i - 1]]
    <3>1. i - 1 \in 0 .. k + 1 /\ i - 1 # k + 1 /\ i \in 0 .. k + 1
      OBVIOUS
    <3>2. g[i - 1] = f[i - 1]
      BY <3>1
    <3>3. CASE i = k + 1
      <4>1. i - 1 = k
        BY <3>3
      <4>2. g[i] = next[k + 1][f[k]]
        BY <3>1, <3>3
      <4> QED  BY <3>2, <3>3, <4>1, <4>2
    <3>4. CASE i # k + 1
      <4>1. i \in 1 .. k
        BY <3>4
      <4>2. g[i] = f[i]
        BY <3>1, <3>4
      <4> QED  BY <2>1, <3>2, <4>1, <4>2
    <3> QED  BY <3>3, <3>4
  <2> HIDE DEF g
  <2> QED  BY <2>2, <2>5, <2>6, <2>7
<1> HIDE DEF G
<1>3. \A k \in 0 .. n : k \in G
  BY <1>1, <1>2, UpTo
<1>4. n \in G
  BY <1>3
<1> QED  BY <1>4 DEF G, Recursions

-----------------------------------------------------------------------------
(* The checksum.  An element of UnsignedT(8) is a polynomial of a degree below *)
(* CrcBits, Xor their sum, TimesX the product with x modulo Polynomial.        *)

LEMMA CrcBitsNat == CrcBits \in Nat /\ CrcBits > ByteBits
BY BinaryAssumption DEF CrcBits

LEMMA PolynomialIs == UnsignedT(8) = SUBSET (0 .. CrcBits - 1)
<1>1. CrcBits = ByteBits * 8
  BY BinaryAssumption DEF CrcBits
<1> QED  BY <1>1 DEF UnsignedT

LEMMA XorMember ==
  ASSUME NEW a, NEW b, NEW x
  PROVE  x \in Xor(a, b) <=> ~(x \in a <=> x \in b)
BY DEF Xor

LEMMA XorType ==
  ASSUME NEW a \in UnsignedT(8), NEW b \in UnsignedT(8)
  PROVE  Xor(a, b) \in UnsignedT(8)
BY PolynomialIs DEF Xor

LEMMA XorAssociative ==
  ASSUME NEW a, NEW b, NEW c
  PROVE  Xor(Xor(a, b), c) = Xor(a, Xor(b, c))
BY DEF Xor

LEMMA XorCancels ==
  ASSUME NEW a, NEW b
  PROVE  Xor(a, b) = {} <=> a = b
BY DEF Xor

LEMMA XorZero ==
  ASSUME NEW a
  PROVE  Xor(a, {}) = a /\ Xor({}, a) = a
BY DEF Xor

\* (a + b) + (c + d) = (a + c) + (b + d)
LEMMA XorSwaps ==
  ASSUME NEW a, NEW b, NEW c, NEW d
  PROVE  Xor(Xor(a, b), Xor(c, d)) = Xor(Xor(a, c), Xor(b, d))
<1>1. \A x : x \in Xor(Xor(a, b), Xor(c, d)) <=> x \in Xor(Xor(a, c), Xor(b, d))
  BY XorMember, SMT
<1> QED  BY <1>1

\* The bits of a product with x.
LEMMA TimesXMember ==
  ASSUME NEW r \in UnsignedT(8), NEW x
  PROVE  x \in TimesX(r) <=>
           ~( (x \in 1 .. CrcBits - 1 /\ x - 1 \in r) <=> (CrcBits - 1 \in r /\ x \in Polynomial) )
<1>1. r \subseteq 0 .. CrcBits - 1
  BY PolynomialIs
<1>2. x \in ShiftLeft(r, 1) <=> x \in Int /\ x - 1 \in r
  BY <1>1, CrcBitsNat DEF ShiftLeft
<1>3. CASE CrcBits - 1 \in r
  <2>1. x \in U64(ShiftLeft(r, 1)) <=> x \in 1 .. CrcBits - 1 /\ x - 1 \in r
    BY <1>1, <1>2, CrcBitsNat DEF U64
  <2> QED  BY <1>3, <2>1, XorMember DEF TimesX
<1>4. CASE CrcBits - 1 \notin r
  <2>1. x \in ShiftLeft(r, 1) <=> x \in 1 .. CrcBits - 1 /\ x - 1 \in r
    BY <1>1, <1>2, <1>4, CrcBitsNat
  <2> QED  BY <1>4, <2>1 DEF TimesX
<1> QED  BY <1>3, <1>4

LEMMA TimesXType ==
  ASSUME NEW r \in UnsignedT(8)
  PROVE  TimesX(r) \in UnsignedT(8)
<1>1. \A x \in TimesX(r) : x \in 1 .. CrcBits - 1 \/ x \in Polynomial
  BY TimesXMember
<1>2. \A x \in 1 .. CrcBits - 1 : x \in 0 .. CrcBits - 1
  BY CrcBitsNat
<1>3. TimesX(r) \subseteq 0 .. CrcBits - 1
  BY <1>1, <1>2, Crc64Assumption
<1> QED  BY <1>3, PolynomialIs

LEMMA TimesXLinear ==
  ASSUME NEW a \in UnsignedT(8), NEW b \in UnsignedT(8)
  PROVE  TimesX(Xor(a, b)) = Xor(TimesX(a), TimesX(b))
<1>1. Xor(a, b) \in UnsignedT(8)
  BY XorType
<1>2. ASSUME NEW x
      PROVE  x \in TimesX(Xor(a, b)) <=> x \in Xor(TimesX(a), TimesX(b))
  BY <1>1, TimesXMember, XorMember
<1> QED  BY <1>2

\* The product with x loses nothing: the polynomial ends in 1.
LEMMA TimesXInjective ==
  ASSUME NEW r \in UnsignedT(8), TimesX(r) = {}
  PROVE  r = {}
<1>1. r \subseteq 0 .. CrcBits - 1
  BY PolynomialIs
<1>2. CrcBits - 1 \notin r
  <2>1. ~(0 \in TimesX(r))
    OBVIOUS
  <2>2. 0 \in Polynomial /\ 0 \notin 1 .. CrcBits - 1
    BY Crc64Assumption
  <2> QED  BY <2>1, <2>2, TimesXMember
<1>3. ASSUME NEW c \in r
      PROVE  FALSE
  <2>1. c + 1 \in 1 .. CrcBits - 1 /\ (c + 1) - 1 = c
    BY <1>1, <1>2, CrcBitsNat
  <2>2. c + 1 \in TimesX(r)
    BY <1>2, <2>1, TimesXMember
  <2> QED  BY <2>2
<1> QED  BY <1>3

LEMMA TimesXShifts ==
  ASSUME NEW r \in UnsignedT(8), CrcBits - 1 \notin r
  PROVE  TimesX(r) = ShiftLeft(r, 1)
BY DEF TimesX

LEMMA UnsignedNonEmpty == {} \in UnsignedT(8)
BY PolynomialIs

\* TimesPower is the value of a function with the recursion of its definition.
LEMMA TimesPowerIs ==
  ASSUME NEW r \in UnsignedT(8), NEW k \in Nat
  PROVE  \E f \in [0 .. k -> UnsignedT(8)] :
           /\ f[0] = r /\ \A i \in 1 .. k : f[i] = TimesX(f[i - 1])
           /\ TimesPower(r, k) = f[k]
<1> DEFINE next == [i \in 1 .. k |-> [q \in UnsignedT(8) |-> TimesX(q)]]
           Product(f) == f = [i \in 0 .. k |-> IF i = 0 THEN r ELSE TimesX(f[i - 1])]
<1>1. next \in [1 .. k -> [UnsignedT(8) -> UnsignedT(8)]]
  BY TimesXType
<1>2. \A i \in 1 .. k, q \in UnsignedT(8) : next[i][q] = TimesX(q)
  OBVIOUS
<1> HIDE DEF next
<1>3. PICK f \in [0 .. k -> UnsignedT(8)] :
        f[0] = r /\ \A i \in 1 .. k : f[i] = next[i][f[i - 1]]
  <2>1. Recursions(k, UnsignedT(8), r, next) # {}
    BY <1>1, RecursionExists
  <2> QED  BY <2>1 DEF Recursions
<1>4. \A i \in 1 .. k : f[i] = TimesX(f[i - 1])
  <2> TAKE i \in 1 .. k
  <2>1. i - 1 \in 0 .. k
    OBVIOUS
  <2> QED  BY <1>2, <1>3, <2>1
<1>5. Product(f)
  <2>1. \A i \in 0 .. k : f[i] = IF i = 0 THEN r ELSE TimesX(f[i - 1])
    <3> TAKE i \in 0 .. k
    <3>1. i # 0 => i \in 1 .. k
      OBVIOUS
    <3> QED  BY <1>3, <1>4, <3>1
  <2> QED  BY <1>3, <2>1
<1> DEFINE g == CHOOSE g : Product(g)
<1>6. g = [i \in 0 .. k |-> IF i = 0 THEN r ELSE TimesX(g[i - 1])]
  BY <1>5
<1>7. TimesPower(r, k) = g[k]
  BY DEF TimesPower
<1> HIDE DEF g
<1>8. g[0] = r /\ \A i \in 1 .. k : g[i] = TimesX(g[i - 1])
  <2>1. \A i \in 0 .. k : g[i] = IF i = 0 THEN r ELSE TimesX(g[i - 1])
    BY <1>6, Zenon
  <2> QED  BY <2>1
<1>9. \A i \in 0 .. k : f[i] = g[i]
  <2> DEFINE G == {i \in 0 .. k : f[i] = g[i]}
  <2>1. 0 \in G
    BY <1>3, <1>8
  <2>2. ASSUME NEW i \in 0 .. k - 1, i \in G
        PROVE  i + 1 \in G
    <3>1. i + 1 \in 1 .. k /\ (i + 1) - 1 = i /\ i + 1 \in 0 .. k
      OBVIOUS
    <3>2. f[i + 1] = TimesX(f[i]) /\ g[i + 1] = TimesX(g[i])
      BY <1>4, <1>8, <3>1
    <3> QED  BY <2>2, <3>1, <3>2
  <2> HIDE DEF G
  <2>3. \A i \in 0 .. k : i \in G
    BY <2>1, <2>2, UpTo
  <2> QED  BY <2>3 DEF G
<1>10. TimesPower(r, k) = f[k]
  BY <1>7, <1>9
<1> QED  BY <1>3, <1>4, <1>10

LEMMA TimesPowerType ==
  ASSUME NEW r \in UnsignedT(8), NEW k \in Nat
  PROVE  TimesPower(r, k) \in UnsignedT(8)
<1>1. PICK f \in [0 .. k -> UnsignedT(8)] : TimesPower(r, k) = f[k]
  BY TimesPowerIs, Zenon
<1>2. k \in 0 .. k
  OBVIOUS
<1> QED  BY <1>1, <1>2

LEMMA TimesPowerZero ==
  ASSUME NEW r \in UnsignedT(8)
  PROVE  TimesPower(r, 0) = r
BY TimesPowerIs

LEMMA TimesPowerNext ==
  ASSUME NEW r \in UnsignedT(8), NEW k \in Nat
  PROVE  TimesPower(r, k + 1) = TimesX(TimesPower(r, k))
<1>1. PICK f \in [0 .. k -> UnsignedT(8)] :
           /\ f[0] = r /\ \A i \in 1 .. k : f[i] = TimesX(f[i - 1])
           /\ TimesPower(r, k) = f[k]
  BY TimesPowerIs
<1>2. PICK g \in [0 .. k + 1 -> UnsignedT(8)] :
           /\ g[0] = r /\ \A i \in 1 .. k + 1 : g[i] = TimesX(g[i - 1])
           /\ TimesPower(r, k + 1) = g[k + 1]
  <2>1. k + 1 \in Nat
    OBVIOUS
  <2> QED  BY <2>1, TimesPowerIs, Zenon
<1>3. \A i \in 0 .. k : f[i] = g[i]
  <2> DEFINE G == {i \in 0 .. k : f[i] = g[i]}
  <2>1. 0 \in G
    BY <1>1, <1>2
  <2>2. ASSUME NEW i \in 0 .. k - 1, i \in G
        PROVE  i + 1 \in G
    <3>1. i + 1 \in 1 .. k /\ (i + 1) - 1 = i /\ i + 1 \in 0 .. k /\ i + 1 \in 1 .. k + 1
      OBVIOUS
    <3>2. f[i + 1] = TimesX(f[i]) /\ g[i + 1] = TimesX(g[i])
      BY <1>1, <1>2, <3>1
    <3> QED  BY <2>2, <3>1, <3>2
  <2> HIDE DEF G
  <2>3. \A i \in 0 .. k : i \in G
    BY <2>1, <2>2, UpTo
  <2> QED  BY <2>3 DEF G
<1>4. k + 1 \in 1 .. k + 1 /\ (k + 1) - 1 = k /\ k \in 0 .. k
  OBVIOUS
<1>5. g[k + 1] = TimesX(g[k])
  BY <1>2, <1>4
<1> QED  BY <1>1, <1>2, <1>3, <1>4, <1>5

LEMMA TimesPowerLinear ==
  ASSUME NEW a \in UnsignedT(8), NEW b \in UnsignedT(8), NEW k \in Nat
  PROVE  TimesPower(Xor(a, b), k) = Xor(TimesPower(a, k), TimesPower(b, k))
<1> DEFINE G == {i \in 0 .. k :
                   TimesPower(Xor(a, b), i) = Xor(TimesPower(a, i), TimesPower(b, i))}
<1>1. Xor(a, b) \in UnsignedT(8)
  BY XorType
<1>2. 0 \in G
  BY <1>1, TimesPowerZero
<1>3. ASSUME NEW i \in 0 .. k - 1, i \in G
      PROVE  i + 1 \in G
  <2>1. i \in Nat /\ i + 1 \in 0 .. k
    OBVIOUS
  <2>2. TimesPower(Xor(a, b), i) = Xor(TimesPower(a, i), TimesPower(b, i))
    BY <1>3
  <2>3. TimesPower(a, i) \in UnsignedT(8) /\ TimesPower(b, i) \in UnsignedT(8)
    BY <2>1, TimesPowerType
  <2>4. TimesPower(Xor(a, b), i + 1) = TimesX(TimesPower(Xor(a, b), i))
    BY <1>1, <2>1, TimesPowerNext
  <2>5. TimesPower(a, i + 1) = TimesX(TimesPower(a, i))
    BY <2>1, TimesPowerNext
  <2>6. TimesPower(b, i + 1) = TimesX(TimesPower(b, i))
    BY <2>1, TimesPowerNext
  <2>7. TimesX(TimesPower(Xor(a, b), i)) = Xor(TimesX(TimesPower(a, i)), TimesX(TimesPower(b, i)))
    BY <2>2, <2>3, TimesXLinear
  <2>8. TimesPower(Xor(a, b), i + 1) = Xor(TimesPower(a, i + 1), TimesPower(b, i + 1))
    BY <2>4, <2>5, <2>6, <2>7, Zenon
  <2> QED  BY <2>1, <2>8
<1> HIDE DEF G
<1>4. \A i \in 0 .. k : i \in G
  BY <1>2, <1>3, UpTo
<1> QED  BY <1>4 DEF G

LEMMA TimesPowerAdds ==
  ASSUME NEW r \in UnsignedT(8), NEW j \in Nat, NEW k \in Nat
  PROVE  TimesPower(TimesPower(r, j), k) = TimesPower(r, j + k)
<1> DEFINE q == TimesPower(r, j)
           G == {i \in 0 .. k : TimesPower(q, i) = TimesPower(r, j + i)}
<1>1. q \in UnsignedT(8)
  BY TimesPowerType
<1>2. 0 \in G
  <2>1. TimesPower(q, 0) = q
    BY <1>1, TimesPowerZero
  <2>2. j + 0 = j
    OBVIOUS
  <2> QED  BY <2>1, <2>2
<1>3. ASSUME NEW i \in 0 .. k - 1, i \in G
      PROVE  i + 1 \in G
  <2> HIDE DEF q
  <2>1. i \in Nat /\ i + 1 \in 0 .. k /\ j + i \in Nat /\ j + (i + 1) = (j + i) + 1
    OBVIOUS
  <2>2. TimesPower(q, i + 1) = TimesX(TimesPower(q, i))
    BY <1>1, <2>1, TimesPowerNext
  <2>3. TimesPower(r, (j + i) + 1) = TimesX(TimesPower(r, j + i))
    BY <2>1, TimesPowerNext
  <2>4. TimesPower(q, i) = TimesPower(r, j + i)
    BY <1>3
  <2>5. TimesPower(q, i + 1) = TimesPower(r, j + (i + 1))
    BY <2>1, <2>2, <2>3, <2>4
  <2> QED  BY <2>1, <2>5
<1> HIDE DEF G
<1>4. \A i \in 0 .. k : i \in G
  BY <1>2, <1>3, UpTo
<1>5. k \in G
  BY <1>4
<1> QED  BY <1>5 DEF G

LEMMA TimesPowerInjective ==
  ASSUME NEW r \in UnsignedT(8), NEW k \in Nat, TimesPower(r, k) = {}
  PROVE  r = {}
<1> DEFINE G == {i \in 0 .. k : TimesPower(r, k - i) = {}}
<1>1. 0 \in G
  OBVIOUS
<1>2. ASSUME NEW i \in 0 .. k - 1, i \in G
      PROVE  i + 1 \in G
  <2>1. PICK j \in Nat : j = k - (i + 1)
    OBVIOUS
  <2>2. j + 1 = k - i /\ i + 1 \in 0 .. k
    BY <2>1
  <2>3. TimesX(TimesPower(r, j)) = {}
    BY <1>2, <2>2, TimesPowerNext
  <2>4. TimesPower(r, j) = {}
    BY <2>3, TimesPowerType, TimesXInjective
  <2> QED  BY <2>1, <2>2, <2>4
<1> HIDE DEF G
<1>3. \A i \in 0 .. k : i \in G
  BY <1>1, <1>2, UpTo
<1>4. TimesPower(r, k - k) = {}
  BY <1>3 DEF G
<1>5. k - k = 0
  OBVIOUS
<1> QED  BY <1>4, <1>5, TimesPowerZero

\* As long as no bit reaches the width, a power of x shifts.
LEMMA TimesPowerShifts ==
  ASSUME NEW r \in UnsignedT(8), NEW k \in Nat, \A b \in r : b + k < CrcBits
  PROVE  TimesPower(r, k) = ShiftLeft(r, k)
<1> DEFINE G == {i \in 0 .. k : TimesPower(r, i) = ShiftLeft(r, i)}
<1>1. r \subseteq 0 .. CrcBits - 1
  BY PolynomialIs
<1>2. 0 \in G
  <2>1. ShiftLeft(r, 0) = r
    <3>1. \A b \in r : b + 0 = b
      BY <1>1
    <3> QED  BY <3>1 DEF ShiftLeft
  <2> QED  BY <2>1, TimesPowerZero
<1>3. ASSUME NEW i \in 0 .. k - 1, i \in G
      PROVE  i + 1 \in G
  <2>1. i \in Nat /\ i + 1 \in 0 .. k
    OBVIOUS
  <2>2. TimesPower(r, i) = ShiftLeft(r, i) /\ TimesPower(r, i) \in UnsignedT(8)
    BY <1>3, <2>1, TimesPowerType
  <2>3. CrcBits - 1 \notin ShiftLeft(r, i)
    <3>1. ASSUME NEW b \in r, b + i = CrcBits - 1
          PROVE  FALSE
      <4>1. b \in Int /\ b + k < CrcBits
        BY <1>1
      <4> QED  BY <3>1, <4>1, CrcBitsNat
    <3> QED  BY <3>1 DEF ShiftLeft
  <2>4. TimesX(ShiftLeft(r, i)) = ShiftLeft(ShiftLeft(r, i), 1)
    BY <2>2, <2>3, TimesXShifts
  <2>5. ShiftLeft(ShiftLeft(r, i), 1) = ShiftLeft(r, i + 1)
    <3>1. \A b \in r : (b + i) + 1 = b + (i + 1)
      BY <1>1
    <3> QED  BY <3>1 DEF ShiftLeft
  <2>6. TimesPower(r, i + 1) = TimesX(TimesPower(r, i))
    BY <2>1, TimesPowerNext
  <2> QED  BY <2>1, <2>2, <2>4, <2>5, <2>6
<1> HIDE DEF G
<1>4. \A i \in 0 .. k : i \in G
  BY <1>2, <1>3, UpTo
<1>5. k \in G
  BY <1>4
<1> QED  BY <1>5 DEF G

LEMMA ByteIsUnsigned ==
  ASSUME NEW byte \in ByteValue
  PROVE  byte \in UnsignedT(8) /\ \A b \in byte : b \in 0 .. ByteBits - 1
<1>1. \A b \in 0 .. ByteBits - 1 : b \in 0 .. CrcBits - 1
  BY CrcBitsNat, BinaryAssumption
<1> QED  BY <1>1, PolynomialIs DEF ByteValue

\* A byte at the top of a checksum.
LEMMA ByteOnTop ==
  ASSUME NEW byte \in ByteValue
  PROVE  /\ ShiftLeft(byte, CrcBits - ByteBits) \in UnsignedT(8)
         /\ ShiftLeft(byte, CrcBits - ByteBits) = TimesPower(byte, CrcBits - ByteBits)
<1>1. CrcBits - ByteBits \in Nat
  BY CrcBitsNat, BinaryAssumption
<1>2. \A b \in byte : b + (CrcBits - ByteBits) < CrcBits
  <2> TAKE b \in byte
  <2>1. b \in 0 .. ByteBits - 1
    BY ByteIsUnsigned
  <2> QED  BY <2>1, CrcBitsNat, BinaryAssumption
<1>3. ShiftLeft(byte, CrcBits - ByteBits) = TimesPower(byte, CrcBits - ByteBits)
  BY <1>1, <1>2, ByteIsUnsigned, TimesPowerShifts
<1> QED  BY <1>1, <1>3, ByteIsUnsigned, TimesPowerType

\* The table and the shift of the rest are one product with a byte's power of x.
LEMMA CrcByteIs ==
  ASSUME NEW crc \in UnsignedT(8), NEW byte \in ByteValue
  PROVE  CrcByte(crc, byte) =
           TimesPower(Xor(crc, ShiftLeft(byte, CrcBits - ByteBits)), ByteBits)
<1> DEFINE k == CrcBits - ByteBits
           high == {b \in crc : k <= b /\ b < k + ByteBits}
           low == {b \in crc : b < k}
           t == Xor(ByteAt(crc, k), byte)
<1>1. crc \subseteq 0 .. CrcBits - 1
  BY PolynomialIs
<1>2. k \in Nat /\ k + ByteBits = CrcBits /\ ByteBits \in Nat
  BY CrcBitsNat, BinaryAssumption
<1>3. ShiftLeft(ByteAt(crc, k), k) = high
  BY <1>2, ByteShiftedBack
<1>4. t \in ByteValue
  BY DEF ByteAt, ByteValue, Xor
<1>5. ShiftLeft(t, k) = Xor(high, ShiftLeft(byte, k))
  <2>1. \A a, b \in 0 .. ByteBits - 1 : a + k = b + k => a = b
    BY <1>2
  <2>2. ByteAt(crc, k) \subseteq 0 .. ByteBits - 1 /\ byte \subseteq 0 .. ByteBits - 1
    BY DEF ByteAt, ByteValue
  <2>3. ShiftLeft(t, k) = Xor(ShiftLeft(ByteAt(crc, k), k), ShiftLeft(byte, k))
    <3> HIDE DEF k
    <3> QED  BY ZenonT(60), <2>1, <2>2 DEF ShiftLeft, Xor
  <2> QED  BY <1>3, <2>3
<1>6. kCrc64Table[t] = TimesPower(ShiftLeft(t, k), ByteBits)
  BY <1>4 DEF kCrc64Table
<1>7. high \in UnsignedT(8) /\ low \in UnsignedT(8) /\ ShiftLeft(byte, k) \in UnsignedT(8)
  BY <1>1, PolynomialIs, ByteOnTop
<1>8. Xor(high, low) = crc
  <2>1. \A b \in crc : (k <= b /\ b < k + ByteBits) <=> ~(b < k)
    BY <1>1, <1>2
  <2>2. \A b : b \in high <=> b \in crc /\ ~(b < k)
    BY <2>1
  <2>3. \A b : b \in low <=> b \in crc /\ b < k
    OBVIOUS
  <2> HIDE DEF high, low, k
  <2>4. \A b : b \in Xor(high, low) <=> b \in crc
    BY <2>2, <2>3, XorMember
  <2> QED  BY <2>4
<1>9. U64(ShiftLeft(crc, ByteBits)) = TimesPower(low, ByteBits)
  <2>1. \A b \in low : b + ByteBits < CrcBits
    BY <1>1, <1>2
  <2>2. TimesPower(low, ByteBits) = ShiftLeft(low, ByteBits)
    BY <1>2, <1>7, <2>1, TimesPowerShifts
  <2>3. \A b \in crc : b + ByteBits \in 0 .. CrcBits - 1 <=> b < k
    BY <1>1, <1>2
  <2>4. U64(ShiftLeft(crc, ByteBits)) = ShiftLeft(low, ByteBits)
    BY <2>3 DEF U64, ShiftLeft
  <2> QED  BY <2>2, <2>4
<1> HIDE DEF high, low, k
<1> DEFINE s == ShiftLeft(byte, k)
<1>10. CrcByte(crc, byte) = Xor(TimesPower(Xor(high, s), ByteBits), TimesPower(low, ByteBits))
  <2>1. CrcByte(crc, byte) = Xor(kCrc64Table[t], U64(ShiftLeft(crc, ByteBits)))
    BY DEF CrcByte, k
  <2> QED  BY <1>5, <1>6, <1>9, <2>1
<1> HIDE DEF s
<1>11. s \in UnsignedT(8) /\ Xor(high, s) \in UnsignedT(8)
  BY <1>7, XorType DEF s
<1>12. CrcByte(crc, byte) = TimesPower(Xor(Xor(high, s), low), ByteBits)
  BY <1>2, <1>7, <1>10, <1>11, TimesPowerLinear
<1>13. Xor(Xor(high, s), low) = Xor(crc, s)
  <2>1. Xor(Xor(high, s), low) = Xor(Xor(high, low), s)
    BY DEF Xor
  <2> QED  BY <1>8, <2>1
<1> QED  BY <1>12, <1>13 DEF s, k

\* The division by the bit is the same for a byte at a time.
LEMMA DivideByteIs ==
  ASSUME NEW r \in UnsignedT(8), NEW byte \in ByteValue
  PROVE  DivideByte(r, byte) = Xor(TimesPower(r, ByteBits), byte)
<1> DEFINE bit(k) == IF ByteBits - k \in byte THEN {0} ELSE {}
           seen(k) == ShiftRight(byte, ByteBits - k)
           f == [k \in 0 .. ByteBits |-> Xor(TimesPower(r, k), seen(k))]
           g == CHOOSE q : q = [k \in 0 .. ByteBits |->
                                  IF k = 0 THEN r
                                  ELSE Xor(TimesX(q[k - 1]),
                                           IF ByteBits - k \in byte THEN {0} ELSE {})]
<1>1. ByteBits \in Nat /\ byte \subseteq 0 .. ByteBits - 1
  BY BinaryAssumption DEF ByteValue
<1>2. f[0] = r
  <2>1. seen(0) = {}
    BY <1>1 DEF ShiftRight
  <2>2. f[0] = Xor(TimesPower(r, 0), seen(0))
    BY <1>1
  <2> QED  BY <2>1, <2>2, TimesPowerZero, XorZero
<1>3. ASSUME NEW k \in 0 .. ByteBits - 1
      PROVE  f[k + 1] = Xor(TimesX(f[k]), bit(k + 1))
  <2>1. k \in Nat /\ k + 1 \in 0 .. ByteBits /\ k \in 0 .. ByteBits
    BY <1>1
  <2>2. \A c \in seen(k) : c \in 0 .. k - 1
    BY <1>1, <2>1 DEF ShiftRight
  <2>3. seen(k) \in UnsignedT(8) /\ CrcBits - 1 \notin seen(k)
    <3>1. \A c \in seen(k) : c \in 0 .. CrcBits - 1 /\ c # CrcBits - 1
      BY <2>1, <2>2, CrcBitsNat, <1>1
    <3> HIDE DEF seen
    <3> QED  BY <3>1, PolynomialIs
  <2>4. seen(k + 1) = Xor(ShiftLeft(seen(k), 1), bit(k + 1))
    <3>1. ASSUME NEW x
          PROVE  x \in seen(k + 1) <=> x \in ShiftLeft(seen(k), 1) \/ x \in bit(k + 1)
      <4>1. \A c \in byte : /\ c >= ByteBits - k => c - (ByteBits - k) + 1 = c - (ByteBits - (k + 1))
                            /\ c >= ByteBits - (k + 1) <=>
                                 c >= ByteBits - k \/ c = ByteBits - (k + 1)
        BY <1>1, <2>1
      <4>2. (ByteBits - (k + 1)) - (ByteBits - (k + 1)) = 0
        BY <1>1, <2>1
      <4> QED  BY <4>1, <4>2 DEF ShiftRight, ShiftLeft
    <3>2. 0 \notin ShiftLeft(seen(k), 1)
      BY <2>2 DEF ShiftLeft
    <3>3. \A x \in bit(k + 1) : x = 0
      OBVIOUS
    <3> HIDE DEF seen, bit
    <3> QED  BY <3>1, <3>2, <3>3 DEF Xor
  <2> HIDE DEF seen, bit
  <2>5. TimesX(seen(k)) = ShiftLeft(seen(k), 1)
    BY <2>3, TimesXShifts
  <2>6. f[k] = Xor(TimesPower(r, k), seen(k)) /\ f[k + 1] = Xor(TimesPower(r, k + 1), seen(k + 1))
    BY <2>1
  <2> HIDE DEF f
  <2>7. TimesX(f[k]) = Xor(TimesX(TimesPower(r, k)), TimesX(seen(k)))
    BY <2>1, <2>3, <2>6, TimesXLinear, TimesPowerType
  <2>8. TimesPower(r, k + 1) = TimesX(TimesPower(r, k))
    BY <2>1, TimesPowerNext
  <2>9. Xor(Xor(TimesX(TimesPower(r, k)), ShiftLeft(seen(k), 1)), bit(k + 1))
          = Xor(TimesX(TimesPower(r, k)), Xor(ShiftLeft(seen(k), 1), bit(k + 1)))
    BY XorAssociative
  <2> QED  BY <2>4, <2>5, <2>6, <2>7, <2>8, <2>9
<1>4. f = [k \in 0 .. ByteBits |-> IF k = 0 THEN r ELSE Xor(TimesX(f[k - 1]), bit(k))]
  <2>1. \A k \in 0 .. ByteBits : f[k] = IF k = 0 THEN r ELSE Xor(TimesX(f[k - 1]), bit(k))
    <3> TAKE k \in 0 .. ByteBits
    <3> HIDE DEF f, bit
    <3>1. CASE k = 0
      BY <1>2, <3>1
    <3>2. CASE k # 0
      <4>1. PICK j \in 0 .. ByteBits - 1 : j = k - 1
        BY <1>1, <3>2
      <4>2. j + 1 = k
        BY <4>1
      <4> QED  BY <1>3, <3>2, <4>1, <4>2
    <3> QED  BY <3>1, <3>2
  <2> HIDE DEF bit
  <2>2. f = [k \in 0 .. ByteBits |-> f[k]]
    OBVIOUS
  <2> HIDE DEF f
  <2> QED  BY <2>1, <2>2
<1> HIDE DEF f
<1>5. g = [k \in 0 .. ByteBits |-> IF k = 0 THEN r ELSE Xor(TimesX(g[k - 1]), bit(k))]
  BY <1>4
<1>6. DivideByte(r, byte) = g[ByteBits]
  BY DEF DivideByte
<1> HIDE DEF g, bit
<1>7. g[0] = r /\ \A k \in 0 .. ByteBits - 1 : g[k + 1] = Xor(TimesX(g[k]), bit(k + 1))
  <2>1. \A k \in 0 .. ByteBits : g[k] = IF k = 0 THEN r ELSE Xor(TimesX(g[k - 1]), bit(k))
    BY <1>5, Zenon
  <2>2. 0 \in 0 .. ByteBits
    BY <1>1
  <2>3. \A k \in 0 .. ByteBits - 1 : k + 1 \in 0 .. ByteBits /\ k + 1 # 0 /\ (k + 1) - 1 = k
    BY <1>1
  <2> QED  BY <2>1, <2>2, <2>3
<1>8. g[ByteBits] = f[ByteBits]
  <2> DEFINE G == {k \in 0 .. ByteBits : g[k] = f[k]}
  <2>1. 0 \in G
    BY <1>1, <1>2, <1>7
  <2>2. ASSUME NEW k \in 0 .. ByteBits - 1, k \in G PROVE k + 1 \in G
    <3>1. k + 1 \in 0 .. ByteBits
      BY <1>1
    <3> QED  BY <1>3, <1>7, <2>2, <3>1
  <2> HIDE DEF G
  <2>3. \A k \in 0 .. ByteBits : k \in G
    BY <1>1, <2>1, <2>2, UpTo
  <2>4. ByteBits \in 0 .. ByteBits
    BY <1>1
  <2> QED  BY <2>3, <2>4 DEF G
<1>9. f[ByteBits] = Xor(TimesPower(r, ByteBits), byte)
  <2>1. seen(ByteBits) = byte
    <3>1. ByteBits - ByteBits = 0 /\ \A c \in byte : c >= 0 /\ c - 0 = c
      BY <1>1
    <3> QED  BY <3>1 DEF ShiftRight
  <2>2. ByteBits \in 0 .. ByteBits
    BY <1>1
  <2> HIDE DEF seen
  <2>3. f[ByteBits] = Xor(TimesPower(r, ByteBits), seen(ByteBits))
    BY <2>2 DEF f
  <2> QED  BY <2>1, <2>3
<1> QED  BY <1>6, <1>8, <1>9

\* What a checksum or a division is at each place of a message, byte by byte.
Loop(step, seed, bytes) ==
  LET loop[i \in 0 .. Len(bytes)] ==
        IF i = 0 THEN seed ELSE step[loop[i - 1]][bytes[i]]
  IN  loop

LEMMA LoopIs ==
  ASSUME NEW step \in [UnsignedT(8) -> [ByteValue -> UnsignedT(8)]],
         NEW seed \in UnsignedT(8), NEW bytes \in Seq(ByteValue)
  PROVE  /\ Loop(step, seed, bytes)[0] = seed
         /\ \A i \in 1 .. Len(bytes) :
              Loop(step, seed, bytes)[i] = step[Loop(step, seed, bytes)[i - 1]][bytes[i]]
         /\ \A i \in 0 .. Len(bytes) : Loop(step, seed, bytes)[i] \in UnsignedT(8)
<1> DEFINE next == [i \in 1 .. Len(bytes) |-> [q \in UnsignedT(8) |-> step[q][bytes[i]]]]
           g == Loop(step, seed, bytes)
<1>1. Len(bytes) \in Nat /\ \A i \in 1 .. Len(bytes) : bytes[i] \in ByteValue
  OBVIOUS
<1> DEFINE n == Len(bytes)
<1>2. next \in [1 .. n -> [UnsignedT(8) -> UnsignedT(8)]]
  BY <1>1
<1>3. \A i \in 1 .. n, q \in UnsignedT(8) : next[i][q] = step[q][bytes[i]]
  OBVIOUS
<1> HIDE DEF next
<1>4. PICK f \in [0 .. n -> UnsignedT(8)] :
        f[0] = seed /\ \A i \in 1 .. n : f[i] = next[i][f[i - 1]]
  <2>1. Recursions(n, UnsignedT(8), seed, next) # {}
    BY <1>1, <1>2, RecursionExists
  <2> QED  BY <2>1 DEF Recursions
<1>5. f = [i \in 0 .. n |-> IF i = 0 THEN seed ELSE step[f[i - 1]][bytes[i]]]
  <2>1. \A i \in 0 .. n : f[i] = IF i = 0 THEN seed ELSE step[f[i - 1]][bytes[i]]
    <3> TAKE i \in 0 .. n
    <3>1. i # 0 => i \in 1 .. n /\ i - 1 \in 0 .. n
      BY <1>1
    <3> QED  BY <1>3, <1>4, <3>1
  <2> QED  BY <1>4, <2>1
<1>6. g = [i \in 0 .. n |-> IF i = 0 THEN seed ELSE step[g[i - 1]][bytes[i]]]
  BY <1>5 DEF Loop
<1> HIDE DEF g
<1>7. \A i \in 0 .. n : g[i] = IF i = 0 THEN seed ELSE step[g[i - 1]][bytes[i]]
  BY <1>6, Zenon
<1>8. g[0] = seed /\ \A i \in 1 .. n : g[i] = step[g[i - 1]][bytes[i]]
  <2>1. 0 \in 0 .. n /\ \A i \in 1 .. n : i \in 0 .. n /\ i # 0
    BY <1>1
  <2> QED  BY <1>7, <2>1
<1>9. \A i \in 0 .. n : g[i] \in UnsignedT(8)
  <2> DEFINE G == {i \in 0 .. n : g[i] \in UnsignedT(8)}
  <2>1. 0 \in G
    <3>1. 0 \in 0 .. n /\ g[0] \in UnsignedT(8)
      BY <1>1, <1>8
    <3> QED  BY <3>1
  <2>2. ASSUME NEW i \in 0 .. n - 1, i \in G PROVE i + 1 \in G
    <3>1. i + 1 \in 1 .. n /\ (i + 1) - 1 = i /\ i + 1 \in 0 .. n
      BY <1>1
    <3>2. bytes[i + 1] \in ByteValue
      BY <1>1, <3>1
    <3>3. g[i + 1] = step[g[i]][bytes[i + 1]]
      BY <1>8, <3>1
    <3>4. g[i] \in UnsignedT(8)
      BY <2>2
    <3> HIDE DEF n
    <3> QED  BY <3>1, <3>2, <3>3, <3>4
  <2> HIDE DEF G
  <2>3. \A i \in 0 .. n : i \in G
    BY <1>1, <2>1, <2>2, UpTo
  <2> QED  BY <2>3 DEF G
<1> QED  BY <1>8, <1>9 DEF g

CrcStep == [crc \in UnsignedT(8) |-> [byte \in ByteValue |-> CrcByte(crc, byte)]]
DivideStep == [r \in UnsignedT(8) |-> [byte \in ByteValue |-> DivideByte(r, byte)]]

LEMMA StepTypes ==
  /\ CrcStep \in [UnsignedT(8) -> [ByteValue -> UnsignedT(8)]]
  /\ DivideStep \in [UnsignedT(8) -> [ByteValue -> UnsignedT(8)]]
  /\ \A r \in UnsignedT(8), byte \in ByteValue :
       /\ CrcStep[r][byte] = TimesPower(Xor(r, ShiftLeft(byte, CrcBits - ByteBits)), ByteBits)
       /\ DivideStep[r][byte] = Xor(TimesPower(r, ByteBits), byte)
<1>1. ASSUME NEW r \in UnsignedT(8), NEW byte \in ByteValue
      PROVE  /\ CrcByte(r, byte) \in UnsignedT(8)
             /\ DivideByte(r, byte) \in UnsignedT(8)
  <2>1. ByteBits \in Nat /\ byte \in UnsignedT(8)
        /\ ShiftLeft(byte, CrcBits - ByteBits) \in UnsignedT(8)
    BY BinaryAssumption, ByteIsUnsigned, ByteOnTop
  <2>2. Xor(r, ShiftLeft(byte, CrcBits - ByteBits)) \in UnsignedT(8)
    BY <2>1, XorType
  <2>3. CrcByte(r, byte) \in UnsignedT(8)
    BY <2>1, <2>2, CrcByteIs, TimesPowerType
  <2>4. TimesPower(r, ByteBits) \in UnsignedT(8)
    BY <2>1, TimesPowerType
  <2> QED  BY <2>1, <2>3, <2>4, DivideByteIs, XorType
<1>2. \A r \in UnsignedT(8), byte \in ByteValue :
        CrcStep[r][byte] = CrcByte(r, byte) /\ DivideStep[r][byte] = DivideByte(r, byte)
  BY DEF CrcStep, DivideStep
<1>3. CrcStep \in [UnsignedT(8) -> [ByteValue -> UnsignedT(8)]]
  BY <1>1 DEF CrcStep
<1>4. DivideStep \in [UnsignedT(8) -> [ByteValue -> UnsignedT(8)]]
  BY <1>1 DEF DivideStep
<1> QED  BY <1>2, <1>3, <1>4, CrcByteIs, DivideByteIs

\* The remainder of a message, its last bit standing for 1, at each place.
LEMMA DivideLoop ==
  ASSUME NEW bytes \in Seq(ByteValue)
  PROVE  /\ Divide(bytes) = Loop(DivideStep, {}, bytes)[Len(bytes)]
         /\ Loop(DivideStep, {}, bytes)[0] = {}
         /\ \A i \in 1 .. Len(bytes) :
              Loop(DivideStep, {}, bytes)[i] =
                Xor(TimesPower(Loop(DivideStep, {}, bytes)[i - 1], ByteBits), bytes[i])
         /\ \A i \in 0 .. Len(bytes) : Loop(DivideStep, {}, bytes)[i] \in UnsignedT(8)
<1> DEFINE r == Loop(DivideStep, {}, bytes)
<1>1. Divide(bytes) = r[Len(bytes)]
  BY DEF Divide, Loop, DivideStep
<1>2. /\ r[0] = {}
      /\ \A i \in 1 .. Len(bytes) : r[i] = DivideStep[r[i - 1]][bytes[i]]
      /\ \A i \in 0 .. Len(bytes) : r[i] \in UnsignedT(8)
  BY StepTypes, LoopIs, UnsignedNonEmpty
<1> HIDE DEF r
<1>3. ASSUME NEW i \in 1 .. Len(bytes)
      PROVE  r[i] = Xor(TimesPower(r[i - 1], ByteBits), bytes[i])
  <2>1. i - 1 \in 0 .. Len(bytes) /\ bytes[i] \in ByteValue
    OBVIOUS
  <2> QED  BY <1>2, <2>1, StepTypes
<1> QED  BY <1>1, <1>2, <1>3 DEF r

LEMMA CrcLoop ==
  ASSUME NEW bytes \in Seq(ByteValue)
  PROVE  /\ crc64_be({}, bytes) = Loop(CrcStep, {}, bytes)[Len(bytes)]
         /\ Loop(CrcStep, {}, bytes)[0] = {}
         /\ \A i \in 1 .. Len(bytes) :
              Loop(CrcStep, {}, bytes)[i] =
                TimesPower(Xor(Loop(CrcStep, {}, bytes)[i - 1],
                               ShiftLeft(bytes[i], CrcBits - ByteBits)), ByteBits)
         /\ \A i \in 0 .. Len(bytes) : Loop(CrcStep, {}, bytes)[i] \in UnsignedT(8)
<1> DEFINE c == Loop(CrcStep, {}, bytes)
<1>1. crc64_be({}, bytes) = c[Len(bytes)]
  BY DEF crc64_be, Loop, CrcStep
<1>2. /\ c[0] = {}
      /\ \A i \in 1 .. Len(bytes) : c[i] = CrcStep[c[i - 1]][bytes[i]]
      /\ \A i \in 0 .. Len(bytes) : c[i] \in UnsignedT(8)
  BY StepTypes, LoopIs, UnsignedNonEmpty
<1> HIDE DEF c
<1>3. ASSUME NEW i \in 1 .. Len(bytes)
      PROVE  c[i] = TimesPower(Xor(c[i - 1], ShiftLeft(bytes[i], CrcBits - ByteBits)), ByteBits)
  <2>1. i - 1 \in 0 .. Len(bytes) /\ bytes[i] \in ByteValue
    OBVIOUS
  <2> QED  BY <1>2, <2>1, StepTypes
<1> QED  BY <1>1, <1>2, <1>3 DEF c

\* The checksum of a message is its remainder times x^CrcBits, at each place.
LEMMA CrcIsPower ==
  ASSUME NEW bytes \in Seq(ByteValue)
  PROVE  crc64_be({}, bytes) = TimesPower(Divide(bytes), CrcBits)
<1> DEFINE r == Loop(DivideStep, {}, bytes)
           c == Loop(CrcStep, {}, bytes)
           G == {i \in 0 .. Len(bytes) : c[i] = TimesPower(r[i], CrcBits)}
<1>1. Len(bytes) \in Nat /\ CrcBits \in Nat /\ ByteBits \in Nat /\ CrcBits - ByteBits \in Nat
  BY CrcBitsNat, BinaryAssumption
<1>2. /\ Divide(bytes) = r[Len(bytes)] /\ r[0] = {}
      /\ \A i \in 1 .. Len(bytes) : r[i] = Xor(TimesPower(r[i - 1], ByteBits), bytes[i])
      /\ \A i \in 0 .. Len(bytes) : r[i] \in UnsignedT(8)
  BY DivideLoop
<1>3. /\ crc64_be({}, bytes) = c[Len(bytes)] /\ c[0] = {}
      /\ \A i \in 1 .. Len(bytes) :
           c[i] = TimesPower(Xor(c[i - 1], ShiftLeft(bytes[i], CrcBits - ByteBits)), ByteBits)
  BY CrcLoop
<1> HIDE DEF r, c
<1>4. 0 \in G
  <2>1. TimesPower({}, CrcBits) = ShiftLeft({}, CrcBits)
    BY <1>1, UnsignedNonEmpty, TimesPowerShifts
  <2>2. TimesPower({}, CrcBits) = {}
    BY <2>1 DEF ShiftLeft
  <2>3. c[0] = TimesPower(r[0], CrcBits)
    BY <1>2, <1>3, <2>2
  <2>4. 0 \in 0 .. Len(bytes)
    BY <1>1
  <2> QED  BY <2>3, <2>4
<1>5. ASSUME NEW i \in 0 .. Len(bytes) - 1, i \in G
      PROVE  i + 1 \in G
  <2>1. i + 1 \in 1 .. Len(bytes) /\ (i + 1) - 1 = i /\ i \in 0 .. Len(bytes)
        /\ i + 1 \in 0 .. Len(bytes)
    BY <1>1
  <2>2. bytes[i + 1] \in ByteValue
    BY <2>1
  <2> DEFINE b == bytes[i + 1]
             top == ShiftLeft(b, CrcBits - ByteBits)
             p == r[i]
  <2>3. b \in ByteValue /\ b \in UnsignedT(8) /\ top \in UnsignedT(8)
        /\ top = TimesPower(b, CrcBits - ByteBits)
    BY <2>2, ByteIsUnsigned, ByteOnTop
  <2>4. c[i] = TimesPower(p, CrcBits) /\ p \in UnsignedT(8)
    BY <1>2, <1>5, <2>1
  <2>5. c[i + 1] = TimesPower(Xor(TimesPower(p, CrcBits), top), ByteBits)
    BY <1>3, <2>1, <2>4
  <2>6. r[i + 1] = Xor(TimesPower(p, ByteBits), b)
    BY <1>2, <2>1
  <2> HIDE DEF b, top, p
  <2>7. c[i + 1] = Xor(TimesPower(TimesPower(p, CrcBits), ByteBits), TimesPower(top, ByteBits))
    BY <1>1, <2>3, <2>4, <2>5, TimesPowerLinear, TimesPowerType
  <2>8. TimesPower(r[i + 1], CrcBits) =
          Xor(TimesPower(TimesPower(p, ByteBits), CrcBits), TimesPower(b, CrcBits))
    BY <1>1, <2>3, <2>4, <2>6, TimesPowerLinear, TimesPowerType
  <2>9. TimesPower(TimesPower(p, CrcBits), ByteBits) = TimesPower(TimesPower(p, ByteBits), CrcBits)
    <3>1. CrcBits + ByteBits = ByteBits + CrcBits
      BY <1>1
    <3> QED  BY <1>1, <2>4, <3>1, TimesPowerAdds
  <2>10. TimesPower(top, ByteBits) = TimesPower(b, CrcBits)
    <3>1. (CrcBits - ByteBits) + ByteBits = CrcBits
      BY <1>1
    <3> QED  BY <1>1, <2>3, <3>1, TimesPowerAdds
  <2>11. c[i + 1] = TimesPower(r[i + 1], CrcBits)
    BY <2>7, <2>8, <2>9, <2>10
  <2> QED  BY <2>1, <2>11
<1> HIDE DEF G
<1>6. \A i \in 0 .. Len(bytes) : i \in G
  BY <1>1, <1>4, <1>5, UpTo
<1>7. Len(bytes) \in 0 .. Len(bytes)
  BY <1>1
<1> QED  BY <1>2, <1>3, <1>6, <1>7 DEF G

LEMMA BigEndianMember ==
  ASSUME NEW bytes, NEW k, NEW x
  PROVE  x \in Uint("big", bytes, k) <=>
           \E i \in 1 .. k : \E c \in bytes[i] : x = c + ByteBits * (k - i)
<1>1. Uint("big", bytes, k) = UNION {ShiftLeft(bytes[i], ByteBits * (k - i)) : i \in 1 .. k}
  BY DEF Uint, Shift, BigEndian
<1>2. x \in Uint("big", bytes, k) <=>
        \E i \in 1 .. k : x \in ShiftLeft(bytes[i], ByteBits * (k - i))
  BY <1>1, Zenon
<1> QED  BY <1>2 DEF ShiftLeft

\* The bits of the big endian integer in the first j of eight bytes.
LEMMA BigEndianBits ==
  ASSUME NEW bytes \in Seq(ByteValue), NEW j \in 0 .. 7, Len(bytes) = 8
  PROVE  /\ Uint("big", bytes, 0) = {}
         /\ \A b \in Uint("big", bytes, j) : b \in Nat /\ b < ByteBits * j
         /\ Uint("big", bytes, j + 1) =
              ShiftLeft(Uint("big", bytes, j), ByteBits) \cup bytes[j + 1]
<1>1. ByteBits \in Nat /\ \A i \in 1 .. 8 : bytes[i] \subseteq 0 .. ByteBits - 1
  <2>1. \A i \in 1 .. 8 : bytes[i] \in ByteValue
    BY ElementOfSeq, Zenon
  <2> QED  BY <2>1, BinaryAssumption DEF ByteValue
<1>3. Uint("big", bytes, 0) = {}
  <2>1. ~ \E b : b \in Uint("big", bytes, 0)
    BY BigEndianMember
  <2> QED  BY <2>1
<1>4. ASSUME NEW b \in Uint("big", bytes, j)
      PROVE  b \in Nat /\ b < ByteBits * j
  <2>1. PICK i \in 1 .. j : \E c \in bytes[i] : b = c + ByteBits * (j - i)
    <3>1. b \in Uint("big", bytes, j) <=>
            \E i \in 1 .. j : \E c \in bytes[i] : b = c + ByteBits * (j - i)
      BY BigEndianMember
    <3> QED  BY <3>1
  <2>2. PICK c \in bytes[i] : b = c + ByteBits * (j - i)
    BY <2>1
  <2>3. c \in 0 .. ByteBits - 1
    BY SMTT(40), <1>1, <2>2
  <2>4. PICK d \in Nat : d = j - i
    BY <2>1
  <2>5. ByteBits * d \in Nat
    BY <1>1
  <2>6. ByteBits * (d + 1) = ByteBits * d + ByteBits /\ ByteBits * (d + 1) <= ByteBits * j
    <3>1. d + 1 <= j
      BY <2>4
    <3>2. \A x, y, z \in Nat : y <= z => x * y <= x * z
      OBVIOUS
    <3> QED  BY <1>1, <3>1, <3>2
  <2> QED  BY <1>1, <2>2, <2>3, <2>4, <2>5, <2>6
<1>5. ASSUME NEW x
      PROVE  x \in Uint("big", bytes, j + 1) <=>
               x \in ShiftLeft(Uint("big", bytes, j), ByteBits) \/ x \in bytes[j + 1]
  <2>1. ASSUME NEW i \in 1 .. j, NEW c \in bytes[i]
        PROVE  c + ByteBits * ((j + 1) - i) = (c + ByteBits * (j - i)) + ByteBits
    <3>1. ByteBits * ((j + 1) - i) = ByteBits * (j - i) + ByteBits
      <4>1. (j + 1) - i = (j - i) + 1
        OBVIOUS
      <4> QED  BY SMTT(40), <1>1, <4>1
    <3>2. c \in Int /\ ByteBits * (j - i) \in Int
      BY SMTT(40), <1>1, <2>1
    <3> QED  BY <1>1, <3>1, <3>2
  <2>2. ShiftLeft(bytes[j + 1], ByteBits * ((j + 1) - (j + 1))) = bytes[j + 1]
    <3>1. ByteBits * ((j + 1) - (j + 1)) = 0 /\ j + 1 \in 1 .. 8
      BY <1>1
    <3>2. \A c \in bytes[j + 1] : c + 0 = c
      BY <1>1, <3>1
    <3> QED  BY <3>1, <3>2 DEF ShiftLeft
  <2>3. \A i \in 1 .. j + 1 : i \in 1 .. j \/ i = j + 1
    OBVIOUS
  <2>4. ASSUME x \in Uint("big", bytes, j + 1)
        PROVE  x \in ShiftLeft(Uint("big", bytes, j), ByteBits) \/ x \in bytes[j + 1]
    <3>1. PICK i \in 1 .. j + 1 : \E c \in bytes[i] : x = c + ByteBits * ((j + 1) - i)
      <4>1. x \in Uint("big", bytes, j + 1) <=>
              \E i \in 1 .. j + 1 : \E c \in bytes[i] : x = c + ByteBits * ((j + 1) - i)
        BY SMTT(40), BigEndianMember
      <4> QED  BY <2>4, <4>1
    <3>2. CASE i = j + 1
      BY <2>2, <3>1, <3>2 DEF ShiftLeft
    <3>3. CASE i \in 1 .. j
      <4>1. PICK c \in bytes[i] : x = c + ByteBits * ((j + 1) - i)
        BY <3>1
      <4>2. x = (c + ByteBits * (j - i)) + ByteBits
        BY <2>1, <3>3, <4>1
      <4>3. c + ByteBits * (j - i) \in Uint("big", bytes, j)
        BY <3>3, <4>1, BigEndianMember, Zenon
      <4> QED  BY <4>2, <4>3 DEF ShiftLeft
    <3> QED  BY <2>3, <3>2, <3>3
  <2>5. ASSUME x \in bytes[j + 1]
        PROVE  x \in Uint("big", bytes, j + 1)
    <3>1. j + 1 \in 1 .. j + 1
      OBVIOUS
    <3>2. \E c \in bytes[j + 1] : x = c + ByteBits * ((j + 1) - (j + 1))
      BY <2>2, <2>5 DEF ShiftLeft
    <3> QED  BY <3>1, <3>2, BigEndianMember, Zenon
  <2>6. ASSUME x \in ShiftLeft(Uint("big", bytes, j), ByteBits)
        PROVE  x \in Uint("big", bytes, j + 1)
    <3>1. PICK y \in Uint("big", bytes, j) : x = y + ByteBits
      BY <2>6 DEF ShiftLeft
    <3>2. PICK i \in 1 .. j : \E c \in bytes[i] : y = c + ByteBits * (j - i)
      <4>1. y \in Uint("big", bytes, j) <=>
              \E i \in 1 .. j : \E c \in bytes[i] : y = c + ByteBits * (j - i)
        BY BigEndianMember
      <4> QED  BY <3>1, <4>1
    <3>3. PICK c \in bytes[i] : y = c + ByteBits * (j - i)
      BY <3>2
    <3>4. x = c + ByteBits * ((j + 1) - i)
      BY <2>1, <3>1, <3>3
    <3>5. i \in 1 .. j + 1
      OBVIOUS
    <3> QED  BY <3>3, <3>4, <3>5, BigEndianMember, Zenon
  <2> QED  BY <2>4, <2>5, <2>6
<1> QED  BY <1>3, <1>4, <1>5

\* Eight bytes behind a message: its remainder moves up by a checksum's width, and
\* they are what is below.
LEMMA DivideTail ==
  ASSUME NEW head \in Seq(ByteValue), NEW tail \in Seq(ByteValue), Len(tail) = 8
  PROVE  Divide(head \o tail) = Xor(TimesPower(Divide(head), CrcBits), Uint("big", tail, 8))
<1> DEFINE m == head \o tail
           n == Len(head)
           r == Loop(DivideStep, {}, head)
           s == Loop(DivideStep, {}, m)
           v(j) == Uint("big", tail, j)
<1>1. /\ m \in Seq(ByteValue) /\ n \in Nat /\ Len(m) = n + 8
      /\ \A i \in 1 .. n : m[i] = head[i]
      /\ \A j \in 1 .. 8 : m[n + j] = tail[j] /\ tail[j] \in ByteValue
  <2>1. m \in Seq(ByteValue) /\ n \in Nat /\ Len(m) = n + 8
    <3>1. m \in Seq(ByteValue) /\ Len(m) = n + Len(tail)
      BY ConcatProperties
    <3>2. n \in Nat
      BY LenProperties
    <3> HIDE DEF m, n
    <3> QED  BY <3>1, <3>2
  <2>2. \A i \in 1 .. n : m[i] = head[i]
    OBVIOUS
  <2>3. \A j \in 1 .. 8 : tail[j] \in ByteValue
    BY ElementOfSeq, Zenon
  <2>4. \A j \in 1 .. 8 : m[n + j] = tail[j]
    <3> TAKE j \in 1 .. 8
    <3>1. j \in 1 .. Len(tail) /\ n \in Nat
      BY LenProperties
    <3> HIDE DEF n
    <3>2. n + j \in 1 .. n + Len(tail) /\ n + j > n /\ (n + j) - n = j
      BY <3>1
    <3>3. m[n + j] = IF n + j <= n THEN head[n + j] ELSE tail[(n + j) - n]
      BY <3>2, ConcatProperties DEF n
    <3>4. ~(n + j <= n)
      BY <3>1
    <3> QED  BY <3>2, <3>3, <3>4
  <2> QED  BY <2>1, <2>2, <2>3, <2>4
<1>2. /\ Divide(head) = r[n] /\ r[0] = {}
      /\ \A i \in 1 .. n : r[i] = Xor(TimesPower(r[i - 1], ByteBits), head[i])
      /\ \A i \in 0 .. n : r[i] \in UnsignedT(8)
  BY DivideLoop
<1>3. /\ Divide(m) = s[n + 8] /\ s[0] = {}
      /\ \A i \in 1 .. n + 8 : s[i] = Xor(TimesPower(s[i - 1], ByteBits), m[i])
      /\ \A i \in 0 .. n + 8 : s[i] \in UnsignedT(8)
  BY ZenonT(60), <1>1, DivideLoop
<1>4. ByteBits \in Nat /\ CrcBits = ByteBits * 8 /\ CrcBits \in Nat
  BY BinaryAssumption DEF CrcBits
<1> HIDE DEF m, n, r, s
<1>5. s[n] = r[n]
  <2> DEFINE G == {i \in 0 .. n : s[i] = r[i]}
  <2>1. 0 \in G
    <3>1. 0 \in 0 .. n /\ s[0] = r[0]
      BY <1>1, <1>2, <1>3
    <3> QED  BY <3>1
  <2>2. ASSUME NEW i \in 0 .. n - 1, i \in G PROVE i + 1 \in G
    <3>1. i + 1 \in 1 .. n /\ (i + 1) - 1 = i /\ i + 1 \in 0 .. n /\ i + 1 \in 1 .. n + 8
      BY <1>1
    <3>2. s[i + 1] = Xor(TimesPower(s[i], ByteBits), m[i + 1])
      BY <1>3, <3>1
    <3>3. r[i + 1] = Xor(TimesPower(r[i], ByteBits), head[i + 1])
      BY <1>2, <3>1
    <3> QED  BY <1>1, <2>2, <3>1, <3>2, <3>3
  <2> HIDE DEF G
  <2>3. \A i \in 0 .. n : i \in G
    BY <1>1, <2>1, <2>2, UpTo
  <2>4. n \in 0 .. n
    BY <1>1
  <2> QED  BY <2>3, <2>4 DEF G
<1> DEFINE p == r[n]
           G == {j \in 0 .. 8 : s[n + j] = Xor(TimesPower(p, ByteBits * j), v(j))}
<1>6. p \in UnsignedT(8)
  <2>1. n \in 0 .. n
    BY <1>1
  <2> QED  BY <1>2, <2>1
<1> HIDE DEF p
<1>7. 0 \in G
  <2>1. v(0) = {}
    BY BigEndianBits
  <2>2. ByteBits * 0 = 0 /\ n + 0 = n
    BY <1>1, <1>4
  <2>3. Xor(TimesPower(p, 0), {}) = p
    BY <1>6, TimesPowerZero, XorZero
  <2> HIDE DEF v
  <2>4. s[n + 0] = Xor(TimesPower(p, ByteBits * 0), v(0))
    BY <1>5, <2>1, <2>2, <2>3 DEF p
  <2> QED  BY <2>4
<1>8. ASSUME NEW j \in 0 .. 7, j \in G
      PROVE  j + 1 \in G
  <2>1. j + 1 \in 1 .. 8 /\ n + (j + 1) \in 1 .. n + 8 /\ (n + (j + 1)) - 1 = n + j
        /\ j + 1 \in 0 .. 8
    BY SMTT(40), <1>1
  <2>2. s[n + (j + 1)] = Xor(TimesPower(s[n + j], ByteBits), tail[j + 1])
    BY ZenonT(60), <1>1, <1>3, <2>1
  <2>3. v(j + 1) = ShiftLeft(v(j), ByteBits) \cup tail[j + 1]
    BY BigEndianBits
  <2>4. \A b \in v(j) : b \in Nat /\ b < ByteBits * j
    BY BigEndianBits
  <2> HIDE DEF v
  <2>5. \A b \in v(j) : b \in 0 .. CrcBits - 1 /\ b + ByteBits < CrcBits
    <3> TAKE b \in v(j)
    <3>1. ByteBits * j + ByteBits <= CrcBits /\ ByteBits * j \in Nat
      <4>1. \A x, y \in Nat : y <= 7 => x * y + x <= x * 8
        <5> TAKE x, y \in Nat
        <5> HAVE y <= 7
        <5>1. y + 1 <= 8 /\ y + 1 \in Nat
          OBVIOUS
        <5>2. \A a, b1, c \in Nat : b1 <= c => a * b1 <= a * c
          OBVIOUS
        <5>3. x * (y + 1) <= x * 8
          BY <5>1, <5>2
        <5> QED  BY <5>3
      <4> QED  BY <1>4, <4>1
    <3> QED  BY <1>4, <2>4, <3>1
  <2>6. v(j) \in UnsignedT(8)
    BY <2>5, PolynomialIs
  <2>7. TimesPower(v(j), ByteBits) = ShiftLeft(v(j), ByteBits)
    BY <1>4, <2>5, <2>6, TimesPowerShifts
  <2>8. Xor(ShiftLeft(v(j), ByteBits), tail[j + 1]) = v(j + 1)
    <3>1. \A b \in ShiftLeft(v(j), ByteBits) : b >= ByteBits
      BY <1>4, <2>4 DEF ShiftLeft
    <3>2. \A b \in tail[j + 1] : b \in Int /\ b < ByteBits
      <4>1. tail[j + 1] \in ByteValue
        BY <1>1, <2>1
      <4> QED  BY <1>4, <4>1 DEF ByteValue
    <3>3. \A b \in tail[j + 1] : b \notin ShiftLeft(v(j), ByteBits)
      BY <1>4, <3>1, <3>2
    <3> QED  BY <2>3, <3>3 DEF Xor
  <2>9. ByteBits * j \in Nat /\ ByteBits * j + ByteBits = ByteBits * (j + 1)
    BY <1>4
  <2>10. TimesPower(p, ByteBits * j) \in UnsignedT(8)
    BY <1>6, <2>9, TimesPowerType
  <2>11. TimesPower(s[n + j], ByteBits) =
           Xor(TimesPower(TimesPower(p, ByteBits * j), ByteBits), TimesPower(v(j), ByteBits))
    BY <1>4, <1>8, <2>6, <2>10, TimesPowerLinear
  <2>12. TimesPower(TimesPower(p, ByteBits * j), ByteBits) = TimesPower(p, ByteBits * (j + 1))
    <3>1. PICK a \in Nat : a = ByteBits * j
      BY <2>9
    <3>2. TimesPower(TimesPower(p, a), ByteBits) = TimesPower(p, a + ByteBits)
      BY <1>4, <1>6, TimesPowerAdds
    <3> QED  BY <2>9, <3>1, <3>2
  <2>13. s[n + (j + 1)] = Xor(TimesPower(p, ByteBits * (j + 1)), v(j + 1))
    BY <2>2, <2>7, <2>8, <2>11, <2>12, XorAssociative
  <2> QED  BY <2>1, <2>13
<1> HIDE DEF G
<1>9. \A j \in 0 .. 8 : j \in G
  <2>1. 8 - 1 = 7
    OBVIOUS
  <2> QED  BY <1>7, <1>8, <2>1, UpTo
<1>10. s[n + 8] = Xor(TimesPower(p, ByteBits * 8), v(8))
  BY <1>9 DEF G
<1> QED  BY <1>2, <1>3, <1>4, <1>10 DEF p, m

\* crc64_be computes the remainder of every slice.
LEMMA CrcIsRemainder ==
  ASSUME NEW bytes \in Seq(ByteValue)
  PROVE  crc64_be({}, bytes) = Remainder(bytes)
<1> DEFINE zeros == [i \in 1 .. 8 |-> {}]
<1>1. zeros \in Seq(ByteValue) /\ Len(zeros) = 8 /\ \A i \in 1 .. 8 : zeros[i] = {}
  BY DEF ByteValue
<1> HIDE DEF zeros
<1>2. Uint("big", zeros, 8) = {}
  BY <1>1 DEF Uint, ShiftLeft
<1>3. Divide(bytes \o zeros) = Xor(TimesPower(Divide(bytes), CrcBits), {})
  BY <1>1, <1>2, DivideTail
<1> QED  BY <1>3, CrcIsPower, XorZero DEF Remainder, zeros

-----------------------------------------------------------------------------
(* The fields of a meta page, one behind the other.                           *)

\* q is s with the n bytes of v behind it.
Grows(order, s, v, n, q) ==
  /\ q \in Seq(ByteValue)
  /\ Len(q) = Len(s) + n
  /\ \A j \in 1 .. Len(s) : q[j] = s[j]
  /\ \A j \in 1 .. n : q[Len(s) + j] = ByteAt(v, Shift(order, j, n))

LEMMA AppendUintIs ==
  ASSUME NEW order, NEW s \in Seq(ByteValue), NEW v, NEW n \in Nat
  PROVE  /\ AppendUint(order, s, v, n) \in Seq(ByteValue)
         /\ Len(AppendUint(order, s, v, n)) = Len(s) + n
         /\ \A j \in 1 .. Len(s) : AppendUint(order, s, v, n)[j] = s[j]
         /\ \A j \in 1 .. n : AppendUint(order, s, v, n)[Len(s) + j] = ByteAt(v, Shift(order, j, n))
<1> DEFINE t == [j \in 1 .. n |-> ByteAt(v, Shift(order, j, n))]
<1>1. \A j \in 1 .. n : ByteAt(v, Shift(order, j, n)) \in ByteValue
  BY DEF ByteAt, ByteValue
<1>2. t \in Seq(ByteValue) /\ Len(t) = n /\ \A j \in 1 .. n : t[j] = ByteAt(v, Shift(order, j, n))
  BY <1>1
<1>3. AppendUint(order, s, v, n) = s \o t
  BY DEF AppendUint
<1> HIDE DEF t
<1>4. /\ s \o t \in Seq(ByteValue) /\ Len(s \o t) = Len(s) + Len(t)
      /\ \A i \in 1 .. Len(s) + Len(t) : (s \o t)[i] = IF i <= Len(s) THEN s[i] ELSE t[i - Len(s)]
  BY <1>2, ConcatProperties
<1>5. PICK l \in Nat : l = Len(s)
  BY LenProperties
<1>6. ASSUME NEW j \in 1 .. n
      PROVE  (s \o t)[l + j] = t[j]
  <2>1. l + j \in 1 .. l + n /\ ~(l + j <= l) /\ (l + j) - l = j
    OBVIOUS
  <2> QED  BY <1>2, <1>4, <1>5, <2>1
<1>7. ASSUME NEW j \in 1 .. l
      PROVE  (s \o t)[j] = s[j]
  <2>1. j \in 1 .. l + n /\ j <= l
    OBVIOUS
  <2> QED  BY <1>2, <1>4, <1>5, <2>1
<1> QED  BY <1>2, <1>3, <1>4, <1>5, <1>6, <1>7

LEMMA AppendUintGrows ==
  ASSUME NEW order, NEW s \in Seq(ByteValue), NEW v, NEW n \in Nat
  PROVE  Grows(order, s, v, n, AppendUint(order, s, v, n))
BY ZenonT(60), AppendUintIs DEF Grows

\* What append_variadic_uint has after each integer.
Appended(order, slice, integers) ==
  LET appended[i \in 0 .. Len(integers)] ==
        IF i = 0 THEN slice
        ELSE AppendUint(order, appended[i - 1], integers[i].value, integers[i].size)
  IN  appended

OneByOne(order, slice, integers, n, appended) ==
  /\ AppendVariadicUint(order, slice, integers) = appended[n]
  /\ appended[0] = slice
  /\ \A i \in 1 .. n : appended[i] =
       AppendUint(order, appended[i - 1], integers[i].value, integers[i].size)
  /\ \A i \in 0 .. n : appended[i] \in Seq(ByteValue)

LEMMA AppendedIs ==
  ASSUME NEW order, NEW slice \in Seq(ByteValue), NEW integers, NEW n \in Nat,
         Len(integers) = n, \A i \in 1 .. n : integers[i].size \in Nat
  PROVE  OneByOne(order, slice, integers, n, Appended(order, slice, integers))
<1> DEFINE S == Seq(ByteValue)
           put(q, i) == AppendUint(order, q, integers[i].value, integers[i].size)
           next == [i \in 1 .. n |-> [q \in S |-> put(q, i)]]
           g == Appended(order, slice, integers)
<1>1. \A i \in 1 .. n, q \in S : put(q, i) \in S
  BY AppendUintIs
<1>2. g = CHOOSE f : f = [i \in 0 .. n |-> IF i = 0 THEN slice ELSE put(f[i - 1], i)]
  BY DEF Appended
<1>3. AppendVariadicUint(order, slice, integers) = g[n]
  BY DEF AppendVariadicUint, Appended
<1> HIDE DEF S, put, g
<1>4. next \in [1 .. n -> [S -> S]]
  BY <1>1
<1>5. \A i \in 1 .. n, q \in S : next[i][q] = put(q, i)
  OBVIOUS
<1> HIDE DEF next
<1>6. slice \in S
  BY DEF S
<1>7. PICK f \in [0 .. n -> S] : f[0] = slice /\ \A i \in 1 .. n : f[i] = next[i][f[i - 1]]
  <2>1. Recursions(n, S, slice, next) # {}
    BY <1>4, <1>6, RecursionExists
  <2> QED  BY <2>1 DEF Recursions
<1>8. f = [i \in 0 .. n |-> IF i = 0 THEN slice ELSE put(f[i - 1], i)]
  <2>1. \A i \in 0 .. n : f[i] = IF i = 0 THEN slice ELSE put(f[i - 1], i)
    <3> TAKE i \in 0 .. n
    <3>1. i # 0 => i \in 1 .. n /\ i - 1 \in 0 .. n
      OBVIOUS
    <3> QED  BY <1>5, <1>7, <3>1
  <2> QED  BY <1>7, <2>1
<1>9. g = [i \in 0 .. n |-> IF i = 0 THEN slice ELSE put(g[i - 1], i)]
  BY <1>2, <1>8
<1>10. \A i \in 0 .. n : g[i] = IF i = 0 THEN slice ELSE put(g[i - 1], i)
  BY <1>9, Zenon
<1>11. g[0] = slice /\ \A i \in 1 .. n : g[i] = put(g[i - 1], i)
  <2>1. 0 \in 0 .. n /\ \A i \in 1 .. n : i \in 0 .. n /\ i # 0
    OBVIOUS
  <2> QED  BY <1>10, <2>1
<1>12. \A i \in 0 .. n : g[i] \in S
  <2> DEFINE G == {i \in 0 .. n : g[i] \in S}
  <2>1. 0 \in G
    <3>1. 0 \in 0 .. n /\ g[0] \in S
      BY <1>6, <1>11
    <3> QED  BY <3>1
  <2>2. ASSUME NEW i \in 0 .. n - 1, i \in G PROVE i + 1 \in G
    <3>1. i + 1 \in 1 .. n /\ (i + 1) - 1 = i /\ i + 1 \in 0 .. n
      OBVIOUS
    <3>2. g[i + 1] = put(g[i], i + 1) /\ g[i] \in S
      BY <1>11, <2>2, <3>1
    <3> QED  BY <1>1, <3>1, <3>2
  <2> HIDE DEF G
  <2>3. \A i \in 0 .. n : i \in G
    BY <2>1, <2>2, UpTo
  <2> QED  BY <2>3 DEF G
<1> QED  BY <1>3, <1>11, <1>12 DEF g, put, S, OneByOne

AllFields == {Fields[i] : i \in 1 .. 10}

\* How many bytes the first i fields take.
Offset(i) == IF i <= 4 THEN 4 * i ELSE 16 + 8 * (i - 4)
Size(i) == SizeOf(Fields[i])

LEMMA FieldsShape ==
  /\ Len(Fields) = 10 /\ DOMAIN Fields = 1 .. 10
  /\ Len(Front(Fields)) = 9 /\ DOMAIN Front(Fields) = 1 .. 9
  /\ \A i \in 1 .. 9 : Front(Fields)[i] = Fields[i]
  /\ \A i, j \in 1 .. 10 : Fields[i] = Fields[j] => i = j
  /\ Fields[10] = "checksum"
<1>1. Len(Fields) = 10 /\ DOMAIN Fields = 1 .. 10
  BY DEF Fields
<1>2. Len(Front(Fields)) = 9 /\ DOMAIN Front(Fields) = 1 .. 9
      /\ \A i \in 1 .. 9 : Front(Fields)[i] = Fields[i]
  BY <1>1 DEF Front
<1>3. \A i, j \in 1 .. 10 : Fields[i] = Fields[j] => i = j
  BY DEF Fields
<1>4. Fields[10] = "checksum"
  BY DEF Fields
<1> QED  BY <1>1, <1>2, <1>3, <1>4

LEMMA Offsets ==
  /\ Offset(0) = 0 /\ Offset(9) = 56 /\ Offset(10) = 64 /\ Size(10) = 8
  /\ \A i \in 1 .. 10 : /\ Size(i) \in {4, 8} /\ Offset(i - 1) \in Nat
                        /\ Offset(i) = Offset(i - 1) + Size(i)
  /\ \A i, k \in 0 .. 10 : i <= k => Offset(i) <= Offset(k)
<1>1. \A i \in 1 .. 10 : Size(i) = IF i <= 4 THEN 4 ELSE 8
  BY DEF Size, SizeOf, Fields
<1>2. \A i \in 1 .. 10 : Offset(i) = Offset(i - 1) + IF i <= 4 THEN 4 ELSE 8
  BY DEF Offset
<1>3. \A i, k \in 0 .. 10 : i <= k => Offset(i) <= Offset(k)
  BY DEF Offset
<1>4. Offset(0) = 0 /\ Offset(9) = 56 /\ Offset(10) = 64
  BY DEF Offset
<1>5. \A i \in 1 .. 10 : Offset(i - 1) \in Nat
  BY DEF Offset
<1> QED  BY <1>1, <1>2, <1>3, <1>4, <1>5

LEMMA OffsetAt ==
  ASSUME NEW i \in 1 .. 10
  PROVE  /\ Size(i) \in Nat /\ 0 < Size(i) /\ Size(i) <= 8
         /\ Offset(i - 1) \in Nat /\ Offset(i) = Offset(i - 1) + Size(i)
         /\ Offset(i) <= 64
<1>1. Size(i) \in {4, 8} /\ Offset(i - 1) \in Nat /\ Offset(i) = Offset(i - 1) + Size(i)
  BY Offsets
<1>2. Offset(i) <= 64
  BY DEF Offset
<1> QED  BY <1>1, <1>2

LEMMA OffsetNat ==
  ASSUME NEW i \in 0 .. 10
  PROVE  Offset(i) \in Nat /\ Offset(i) <= 64
BY DEF Offset

\* Every byte of a serialised meta belongs to one field.
LEMMA OffsetsCover ==
  ASSUME NEW k \in {9, 10}, NEW x \in 1 .. Offset(k)
  PROVE  \E i \in 1 .. k : \E j \in 1 .. Size(i) : x = Offset(i - 1) + j
<1>1. PICK i \in 1 .. k : Offset(i - 1) < x /\ x <= Offset(i)
  <2> DEFINE i == IF x <= 16 THEN (x + 3) \div 4 ELSE (x - 16 + 7) \div 8 + 4
  <2>1. x \in Nat /\ x <= 64 /\ (k = 9 => x <= 56)
    BY Offsets
  <2>2. CASE x <= 16
    <3>1. i \in 1 .. 4 /\ 4 * (i - 1) < x /\ x <= 4 * i
      BY <2>1, <2>2
    <3> QED  BY <3>1 DEF Offset
  <2>3. CASE ~(x <= 16)
    <3>1. i \in 5 .. 10 /\ 16 + 8 * (i - 5) < x /\ x <= 16 + 8 * (i - 4)
      BY <2>1, <2>3
    <3>2. i \in 1 .. k
      BY <2>1, <2>3
    <3>3. \A l \in 5 .. 10 : Offset(l - 1) = 16 + 8 * (l - 5) /\ Offset(l) = 16 + 8 * (l - 4)
      BY DEF Offset
    <3> HIDE DEF i
    <3> QED  BY <3>1, <3>2, <3>3
  <2> QED  BY <2>2, <2>3
<1>2. PICK j \in Int : j = x - Offset(i - 1)
  BY <1>1, Offsets
<1>3. i \in 1 .. 10
  OBVIOUS
<1>4. Offset(i - 1) \in Nat /\ Size(i) \in {4, 8} /\ Offset(i) = Offset(i - 1) + Size(i)
  BY <1>3, Offsets
<1>5. j \in 1 .. Size(i) /\ x = Offset(i - 1) + j
  BY <1>1, <1>2, <1>4
<1> QED  BY <1>5

\* The bytes of the first k fields, as order puts them.
Holds(bytes, order, meta, k) ==
  \A i \in 1 .. k : \A j \in 1 .. Size(i) :
    bytes[Offset(i - 1) + j] = ByteAt(meta[Fields[i]], Shift(order, j, Size(i)))

\* A slice of nothing else.
HoldsOnly(bytes, order, meta, k) ==
  bytes \in Seq(ByteValue) /\ Len(bytes) = Offset(k) /\ Holds(bytes, order, meta, k)

LEMMA FieldsWritten ==
  ASSUME NEW order, NEW meta, NEW fields, NEW k \in {9, 10}, NEW empty, empty = <<>>,
         Len(fields) = k, DOMAIN fields = 1 .. k, \A i \in 1 .. k : fields[i] = Fields[i]
  PROVE  HoldsOnly(AppendVariadicUint(order, empty, IntegersOf(meta, fields)), order, meta, k)
<1> DEFINE ints == IntegersOf(meta, fields)
           a == Appended(order, empty, ints)
<1>1. /\ Len(ints) = k /\ k \in Nat
      /\ \A i \in 1 .. k : ints[i].size = Size(i) /\ ints[i].value = meta[Fields[i]]
  BY DEF IntegersOf, Size
<1> HIDE DEF ints
<1>2. \A i \in 1 .. k : ints[i].size \in Nat
  <2> TAKE i \in 1 .. k
  <2>1. i \in 1 .. 10
    OBVIOUS
  <2> QED  BY <1>1, <2>1, OffsetAt
<1>3. empty \in Seq(ByteValue) /\ Len(empty) = 0
  OBVIOUS
<1>4. /\ AppendVariadicUint(order, empty, ints) = a[k] /\ a[0] = empty
      /\ \A i \in 1 .. k : a[i] = AppendUint(order, a[i - 1], ints[i].value, ints[i].size)
      /\ \A i \in 0 .. k : a[i] \in Seq(ByteValue)
  <2>1. k \in Nat /\ Len(ints) = k
    BY <1>1
  <2>2. OneByOne(order, empty, ints, k, a)
    BY ONLY <1>2, <1>3, <2>1, AppendedIs
  <2> HIDE DEF a
  <2> QED  BY <2>2 DEF OneByOne
<1> HIDE DEF a
<1> DEFINE G == {l \in 0 .. k : Len(a[l]) = Offset(l) /\ Holds(a[l], order, meta, l)}
<1>5. 0 \in G
  <2>1. Len(a[0]) = Offset(0)
    BY <1>3, <1>4, Offsets
  <2>2. Holds(a[0], order, meta, 0)
    BY DEF Holds
  <2>3. 0 \in 0 .. k
    OBVIOUS
  <2> QED  BY <2>1, <2>2, <2>3
<1>6. ASSUME NEW l \in 0 .. k - 1, l \in G
      PROVE  l + 1 \in G
  <2>1. l + 1 \in 1 .. k /\ (l + 1) - 1 = l /\ l + 1 \in 0 .. k /\ l \in 0 .. k
        /\ l + 1 \in 1 .. 10
    OBVIOUS
  <2> DEFINE i == l + 1
             z == Size(i)
             v == meta[Fields[i]]
  <2>2. a[i] = AppendUint(order, a[l], v, z) /\ a[l] \in Seq(ByteValue) /\ z \in Nat
    <3>1. z \in Nat
      BY <2>1, OffsetAt
    <3>2. a[i] = AppendUint(order, a[i - 1], ints[i].value, ints[i].size) /\ a[l] \in Seq(ByteValue)
      BY <1>4, <2>1
    <3>3. ints[i].value = v /\ ints[i].size = z /\ i - 1 = l
      BY <1>1, <2>1
    <3> HIDE DEF i, z, v
    <3> QED  BY <3>1, <3>2, <3>3
  <2>3. Len(a[l]) = Offset(l) /\ Holds(a[l], order, meta, l)
    BY <1>6
  <2>4. Offset(i) = Offset(l) + z /\ Offset(l) \in Nat
    BY <2>1, OffsetAt
  <2>5. /\ Len(a[i]) = Offset(l) + z
        /\ \A j \in 1 .. Offset(l) : a[i][j] = a[l][j]
        /\ \A j \in 1 .. z : a[i][Offset(l) + j] = ByteAt(v, Shift(order, j, z))
    <3> HIDE DEF i, z, v
    <3> DEFINE q == AppendUint(order, a[l], v, z)
    <3>1. /\ Len(q) = Len(a[l]) + z
          /\ \A j \in 1 .. Len(a[l]) : q[j] = a[l][j]
          /\ \A j \in 1 .. z : q[Len(a[l]) + j] = ByteAt(v, Shift(order, j, z))
      <4>1. Grows(order, a[l], v, z, q)
        BY ONLY <2>2, AppendUintGrows
      <4> HIDE DEF q
      <4> QED  BY <4>1 DEF Grows
    <3> HIDE DEF q
    <3>2. a[i] = q
      BY <2>2 DEF q
    <3> QED  BY <2>3, <3>1, <3>2
  <2>6. ASSUME NEW m \in 1 .. i, NEW j \in 1 .. Size(m)
        PROVE  a[i][Offset(m - 1) + j] = ByteAt(meta[Fields[m]], Shift(order, j, Size(m)))
    <3>1. CASE m = i
      <4>1. m - 1 = l
        BY <3>1
      <4> QED  BY <2>5, <3>1, <4>1
    <3>2. CASE m # i
      <4>1. m \in 1 .. l /\ m \in 1 .. 10 /\ m \in 0 .. 10 /\ l \in 0 .. 10 /\ m <= l
        BY <3>2
      <4>2. a[l][Offset(m - 1) + j] = ByteAt(meta[Fields[m]], Shift(order, j, Size(m)))
        BY <2>3, <4>1 DEF Holds
      <4>3. /\ Offset(m - 1) \in Nat /\ Offset(m) = Offset(m - 1) + Size(m)
            /\ Offset(m) <= Offset(l) /\ Size(m) \in Nat
        BY ZenonT(60), <4>1, Offsets, OffsetAt
      <4>4. Offset(m - 1) + j \in 1 .. Offset(l)
        BY SMTT(40), <2>4, <4>3
      <4> QED  BY <2>5, <4>2, <4>4
    <3> QED  BY <3>1, <3>2
  <2>7. Holds(a[i], order, meta, i)
    BY <2>6 DEF Holds
  <2> QED  BY <2>1, <2>4, <2>5, <2>7
<1> HIDE DEF G
<1>7. \A l \in 0 .. k : l \in G
  BY <1>1, <1>5, <1>6, UpTo
<1>8. k \in 0 .. k
  OBVIOUS
<1>9. Len(a[k]) = Offset(k) /\ Holds(a[k], order, meta, k)
  BY <1>7, <1>8 DEF G
<1> QED  BY <1>4, <1>8, <1>9 DEF ints, HoldsOnly

\* What is left of a slice behind its first i fields, and the field f of a slice.
Rest(s, i) == SubSeq(s, Offset(i) + 1, Len(s))
IndexOf(f) == CHOOSE i \in 1 .. 10 : Fields[i] = f
FieldAt(order, s, f) == Uint(order, Rest(s, IndexOf(f) - 1), SizeOf(f))

LEMMA RestIs ==
  ASSUME NEW s \in Seq(ByteValue), NEW i \in 0 .. 10, Len(s) >= 64
  PROVE  /\ Rest(s, i) \in Seq(ByteValue)
         /\ Len(Rest(s, i)) = Len(s) - Offset(i)
         /\ \A j \in 1 .. Len(s) - Offset(i) : Rest(s, i)[j] = s[Offset(i) + j]
<1>1. PICK l \in Nat : l = Len(s)
  BY LenProperties
<1>2. PICK o \in Nat : o = Offset(i)
  BY DEF Offset
<1>3. o <= 64 /\ 64 <= l
  BY <1>1, <1>2, OffsetNat
<1>4. \A j \in o + 1 .. l : s[j] \in ByteValue
  <2> TAKE j \in o + 1 .. l
  <2>1. j \in 1 .. Len(s)
    BY <1>1, <1>2
  <2> QED  BY <2>1, ElementOfSeq
<1>5. o + 1 \in Int /\ l \in Int
  OBVIOUS
<1>6. /\ SubSeq(s, o + 1, l) \in Seq(ByteValue)
      /\ Len(SubSeq(s, o + 1, l)) = IF o + 1 <= l THEN l - (o + 1) + 1 ELSE 0
      /\ \A j \in 1 .. l - (o + 1) + 1 : SubSeq(s, o + 1, l)[j] = s[o + 1 + j - 1]
  <2>1. PICK p \in Int : p = o + 1
    OBVIOUS
  <2> QED  BY SMTT(40), <1>4, <2>1, SubSeqProperties
<1>7. l - (o + 1) + 1 = l - o /\ (~(o + 1 <= l) => l - o = 0)
      /\ \A j \in 1 .. l - o : o + 1 + j - 1 = o + j
  BY <1>3
<1>8. Rest(s, i) = SubSeq(s, o + 1, l)
  BY <1>1, <1>2 DEF Rest
<1> QED  BY ZenonT(60), <1>1, <1>2, <1>6, <1>7, <1>8

LEMMA RestOfRest ==
  ASSUME NEW s \in Seq(ByteValue), NEW i \in 1 .. 10, Len(s) >= 64
  PROVE  SubSeq(Rest(s, i - 1), SizeOf(Fields[i]) + 1, Len(Rest(s, i - 1))) = Rest(s, i)
<1>1. i - 1 \in 0 .. 10 /\ i \in 0 .. 10
  OBVIOUS
<1>2. PICK o \in Nat : o = Offset(i - 1)
  BY OffsetAt
<1>3. PICK z \in Nat : z = Size(i)
  BY OffsetAt
<1>4. PICK l \in Nat : l = Len(s)
  BY LenProperties
<1>5. Offset(i) = o + z /\ o + z <= l
  <2>1. Offset(i) <= 64 /\ Offset(i) = o + z
    BY <1>2, <1>3, OffsetAt
  <2> QED  BY <1>4, <2>1
<1> DEFINE r == Rest(s, i - 1)
<1>6. /\ r \in Seq(ByteValue) /\ Len(r) = l - o
      /\ \A j \in 1 .. l - o : r[j] = s[o + j]
  BY <1>1, <1>2, <1>4, RestIs
<1>7. /\ Rest(s, i) \in Seq(ByteValue) /\ Len(Rest(s, i)) = l - (o + z)
      /\ \A j \in 1 .. l - (o + z) : Rest(s, i)[j] = s[(o + z) + j]
  <2>1. /\ Rest(s, i) \in Seq(ByteValue) /\ Len(Rest(s, i)) = Len(s) - Offset(i)
        /\ \A j \in 1 .. Len(s) - Offset(i) : Rest(s, i)[j] = s[Offset(i) + j]
    BY <1>1, RestIs
  <2> QED  BY <1>4, <1>5, <2>1
<1> HIDE DEF r
<1> DEFINE t == SubSeq(r, z + 1, l - o)
<1>8. /\ t \in Seq(ByteValue) /\ Len(t) = l - (o + z)
      /\ \A j \in 1 .. l - (o + z) : t[j] = r[z + j]
  <2>1. \A j \in z + 1 .. l - o : r[j] \in ByteValue
    <3> TAKE j \in z + 1 .. l - o
    <3>1. j \in 1 .. Len(r)
      BY <1>6
    <3> QED  BY <1>6, <3>1, ElementOfSeq
  <2>2. PICK p \in Int : p = z + 1
    OBVIOUS
  <2>3. PICK q \in Int : q = l - o
    OBVIOUS
  <2>4. /\ t \in Seq(ByteValue) /\ Len(t) = IF p <= q THEN q - p + 1 ELSE 0
        /\ \A j \in 1 .. q - p + 1 : t[j] = r[p + j - 1]
    BY <2>1, <2>2, <2>3, SubSeqProperties
  <2>5. q - p + 1 = l - (o + z) /\ (~(p <= q) => l - (o + z) = 0)
        /\ \A j \in 1 .. l - (o + z) : p + j - 1 = z + j
    BY <1>5, <2>2, <2>3
  <2> HIDE DEF t
  <2> QED  BY <2>4, <2>5
<1> HIDE DEF t
<1>9. ASSUME NEW j \in 1 .. l - (o + z)
      PROVE  t[j] = Rest(s, i)[j]
  <2>1. z + j \in 1 .. l - o /\ o + (z + j) = (o + z) + j
    OBVIOUS
  <2> QED  BY <1>6, <1>7, <1>8, <2>1
<1>10. t = Rest(s, i)
  BY <1>7, <1>8, <1>9, SeqEqual
<1> QED  BY <1>3, <1>6, <1>10 DEF t, r, Size

\* A slice that is long enough is read field by field.
LEMMA FieldsRead ==
  ASSUME NEW order, NEW s \in Seq(ByteValue), Len(s) >= 64
  PROVE  ReadFields(order, s) = [f \in AllFields |-> FieldAt(order, s, f)]
<1> DEFINE Names(i) == {Fields[k] : k \in 1 .. i}
           fields == [f \in AllFields |-> FieldAt(order, s, f)]
           part(i) == [f \in Names(i) |-> fields[f]]
           acc == [i \in 0 .. 10 |-> [rest |-> Rest(s, i), meta |-> part(i)]]
           start == [rest |-> s, meta |-> <<>>]
           g == CHOOSE h : h = [i \in 0 .. 10 |->
                                  IF i = 0 THEN start ELSE DeserializeAux(order, h[i - 1], Fields[i])]
<1>1. acc[0] = start
  <2>1. Rest(s, 0) = s
    <3>1. 0 \in 0 .. 10
      OBVIOUS
    <3>2. Len(s) \in Nat /\ Offset(0) = 0
      BY Offsets, LenProperties
    <3>3. /\ Rest(s, 0) \in Seq(ByteValue) /\ Len(Rest(s, 0)) = Len(s) - Offset(0)
          /\ \A j \in 1 .. Len(s) - Offset(0) : Rest(s, 0)[j] = s[Offset(0) + j]
      BY <3>1, RestIs
    <3>4. Len(s) - Offset(0) = Len(s) /\ \A j \in 1 .. Len(s) : Offset(0) + j = j
      BY <3>2
    <3>5. Len(Rest(s, 0)) = Len(s) /\ \A j \in 1 .. Len(s) : Rest(s, 0)[j] = s[j]
      BY <3>3, <3>4
    <3> QED  BY <3>3, <3>5, SeqEqual
  <2>2. Names(0) = {}
    OBVIOUS
  <2>3. part(0) = <<>>
    BY <2>2
  <2>4. acc[0] = [rest |-> Rest(s, 0), meta |-> part(0)]
    OBVIOUS
  <2> QED  BY <2>1, <2>3, <2>4
<1>2. ASSUME NEW i \in 1 .. 10
      PROVE  acc[i] = DeserializeAux(order, acc[i - 1], Fields[i])
  <2>1. i - 1 \in 0 .. 10 /\ i \in 0 .. 10
    OBVIOUS
  <2>2. acc[i - 1] = [rest |-> Rest(s, i - 1), meta |-> part(i - 1)]
        /\ acc[i] = [rest |-> Rest(s, i), meta |-> part(i)]
    BY <2>1
  <2>3. IndexOf(Fields[i]) = i
    BY FieldsShape DEF IndexOf
  <2>4. FieldAt(order, s, Fields[i]) = Uint(order, Rest(s, i - 1), SizeOf(Fields[i]))
    BY <2>3 DEF FieldAt
  <2>5. Names(i) = Names(i - 1) \cup {Fields[i]}
    <3>1. \A k \in 1 .. i : k \in 1 .. i - 1 \/ k = i
      OBVIOUS
    <3>2. \A k \in 1 .. i - 1 : k \in 1 .. i
      OBVIOUS
    <3> QED  BY SMTT(40), <3>1, <3>2
  <2>6. WithField(part(i - 1), Fields[i], Uint(order, Rest(s, i - 1), SizeOf(Fields[i]))) = part(i)
    <3>1. fields[Fields[i]] = Uint(order, Rest(s, i - 1), SizeOf(Fields[i]))
      BY <2>4 DEF AllFields
    <3> HIDE DEF Names, fields
    <3>2. WithField([f \in Names(i - 1) |-> fields[f]], Fields[i], fields[Fields[i]])
            = [f \in Names(i - 1) \cup {Fields[i]} |-> fields[f]]
      BY DEF WithField
    <3> QED  BY <2>5, <3>1, <3>2
  <2> HIDE DEF acc, part
  <2>7. DeserializeAux(order, acc[i - 1], Fields[i]) =
          [rest |-> SubSeq(Rest(s, i - 1), SizeOf(Fields[i]) + 1, Len(Rest(s, i - 1))),
           meta |-> WithField(part(i - 1), Fields[i], Uint(order, Rest(s, i - 1), SizeOf(Fields[i])))]
    BY <2>2 DEF DeserializeAux
  <2> QED  BY <2>2, <2>6, <2>7, RestOfRest
<1>3. acc = [i \in 0 .. 10 |-> IF i = 0 THEN start ELSE DeserializeAux(order, acc[i - 1], Fields[i])]
  <2> HIDE DEF start, part
  <2>1. \A i \in 0 .. 10 :
          acc[i] = IF i = 0 THEN start ELSE DeserializeAux(order, acc[i - 1], Fields[i])
    <3> HIDE DEF acc
    <3> TAKE i \in 0 .. 10
    <3>1. i # 0 => i \in 1 .. 10
      OBVIOUS
    <3> QED  BY <1>1, <1>2, <3>1
  <2>2. acc = [i \in 0 .. 10 |-> acc[i]]
    OBVIOUS
  <2> HIDE DEF acc
  <2> QED  BY <2>1, <2>2
<1>4. ReadFields(order, s) = g[10].meta
  BY FieldsShape DEF ReadFields
<1> HIDE DEF acc, start
<1>5. g = [i \in 0 .. 10 |-> IF i = 0 THEN start ELSE DeserializeAux(order, g[i - 1], Fields[i])]
  BY <1>3
<1> HIDE DEF g
<1>6. \A i \in 0 .. 10 : g[i] = IF i = 0 THEN start ELSE DeserializeAux(order, g[i - 1], Fields[i])
  BY <1>5, Zenon
<1>7. g[10] = acc[10]
  <2> DEFINE G == {i \in 0 .. 10 : g[i] = acc[i]}
  <2>1. 0 \in G
    <3>1. 0 \in 0 .. 10
      OBVIOUS
    <3> QED  BY <1>1, <1>6, <3>1
  <2>2. ASSUME NEW i \in 0 .. 10 - 1, i \in G PROVE i + 1 \in G
    <3>1. i + 1 \in 1 .. 10 /\ (i + 1) - 1 = i /\ i + 1 \in 0 .. 10 /\ i + 1 # 0
      OBVIOUS
    <3>2. g[i + 1] = DeserializeAux(order, g[i], Fields[i + 1])
      BY <1>6, <3>1
    <3>3. acc[i + 1] = DeserializeAux(order, acc[i], Fields[i + 1])
      BY <1>2, <3>1
    <3>4. g[i] = acc[i]
      BY <2>2
    <3> QED  BY <3>1, <3>2, <3>3, <3>4
  <2> HIDE DEF G
  <2>3. \A i \in 0 .. 10 : i \in G
    BY <2>1, <2>2, UpTo
  <2> QED  BY <2>3 DEF G
<1>8. acc[10].meta = part(10)
  <2>1. 10 \in 0 .. 10
    OBVIOUS
  <2> HIDE DEF part
  <2> QED  BY <2>1 DEF acc
<1> HIDE DEF acc
<1>9. part(10) = [f \in AllFields |-> FieldAt(order, s, f)]
  <2>1. Names(10) = AllFields /\ \A f \in AllFields : fields[f] = FieldAt(order, s, f)
    BY DEF AllFields
  <2> HIDE DEF Names, fields
  <2> QED  BY <2>1
<1> HIDE DEF part
<1> QED  BY <1>4, <1>7, <1>8, <1>9

-----------------------------------------------------------------------------
(* A meta that was written is read back.                                      *)

\* The object has these fields and no others, and each fits.
Whole(meta) ==
  /\ meta = [f \in AllFields |-> meta[f]]
  /\ \A i \in 1 .. 10 : meta[Fields[i]] \in UnsignedT(Size(i))

LEMMA WriteAuxIs ==
  ASSUME NEW meta
  PROVE  HoldsOnly(WriteAux(<<>>, meta), "big", meta, 9)
BY FieldsShape, FieldsWritten DEF WriteAux

LEMMA SerializeIs ==
  ASSUME NEW meta
  PROVE  HoldsOnly(Serialize(meta), "big", meta, 10)
<1> DEFINE a == WriteAux(<<>>, meta)
           b == AppendUint("big", a, meta.checksum, 8)
<1>1. HoldsOnly(a, "big", meta, 9)
  BY WriteAuxIs
<1> HIDE DEF a
<1>2. a \in Seq(ByteValue) /\ Len(a) = 56 /\ Holds(a, "big", meta, 9)
  BY <1>1, Offsets DEF HoldsOnly
<1>3. Grows("big", a, meta.checksum, 8, b)
  BY <1>2, AppendUintGrows
<1> HIDE DEF b
<1>4. /\ b \in Seq(ByteValue) /\ Len(b) = 64
      /\ \A j \in 1 .. 56 : b[j] = a[j]
      /\ \A j \in 1 .. 8 : b[56 + j] = ByteAt(meta.checksum, Shift("big", j, 8))
  BY <1>2, <1>3 DEF Grows
<1>5. ASSUME NEW i \in 1 .. 10, NEW j \in 1 .. Size(i)
      PROVE  b[Offset(i - 1) + j] = ByteAt(meta[Fields[i]], Shift("big", j, Size(i)))
  <2>1. CASE i = 10
    <3>1. Offset(i - 1) = 56 /\ Size(i) = 8 /\ meta[Fields[i]] = meta.checksum
      BY <2>1, Offsets, FieldsShape
    <3> QED  BY ZenonT(60), <1>4, <3>1
  <2>2. CASE i # 10
    <3>1. i \in 1 .. 9 /\ i \in 0 .. 10 /\ 9 \in 0 .. 10 /\ i <= 9
      BY <2>2
    <3>2. Offset(i - 1) \in Nat /\ Offset(i) = Offset(i - 1) + Size(i) /\ Offset(i) <= 56
          /\ Size(i) \in Nat
      BY <3>1, Offsets, OffsetAt
    <3>3. Offset(i - 1) + j \in 1 .. 56
      BY <3>2
    <3>4. a[Offset(i - 1) + j] = ByteAt(meta[Fields[i]], Shift("big", j, Size(i)))
      BY ZenonT(60), <1>2, <3>1 DEF Holds
    <3> QED  BY <1>4, <3>3, <3>4
  <2> QED  BY <2>1, <2>2
<1>6. Len(b) = Offset(10) /\ Holds(b, "big", meta, 10)
  BY <1>4, <1>5, Offsets DEF Holds
<1> QED  BY <1>4, <1>6 DEF HoldsOnly, Serialize, a, b

LEMMA FieldsReadBack ==
  ASSUME NEW order \in Order, NEW s \in Seq(ByteValue), Len(s) >= 64, NEW meta,
         Whole(meta), Holds(s, order, meta, 10)
  PROVE  ReadFields(order, s) = meta
<1>1. ASSUME NEW i \in 1 .. 10
      PROVE  FieldAt(order, s, Fields[i]) = meta[Fields[i]]
  <2>1. IndexOf(Fields[i]) = i
    BY FieldsShape DEF IndexOf
  <2>2. PICK z \in Nat : z = Size(i)
    BY OffsetAt
  <2>3. PICK o \in Nat : o = Offset(i - 1)
    BY OffsetAt
  <2>4. Offset(i) = o + z /\ Offset(i) <= 64 /\ i - 1 \in 0 .. 10
    <3>1. Offset(i) = Offset(i - 1) + Size(i) /\ Offset(i) <= 64
      BY ONLY OffsetAt
    <3> QED  BY <2>2, <2>3, <3>1
  <2>5. Len(s) \in Nat
    BY LenProperties
  <2>6. \A j \in 1 .. Len(s) - o : Rest(s, i - 1)[j] = s[o + j]
    BY <2>3, <2>4, RestIs
  <2>7. \A j \in 1 .. z : Rest(s, i - 1)[j] = ByteAt(meta[Fields[i]], Shift(order, j, z))
    <3> TAKE j \in 1 .. z
    <3>1. j \in 1 .. Len(s) - o
      BY <2>4, <2>5
    <3>2. s[o + j] = ByteAt(meta[Fields[i]], Shift(order, j, z))
      BY <2>2, <2>3 DEF Holds
    <3> QED  BY <2>6, <3>1, <3>2
  <2>8. meta[Fields[i]] \in UnsignedT(z)
    BY <2>2 DEF Whole
  <2>9. Uint(order, Rest(s, i - 1), z) = meta[Fields[i]]
    BY <2>7, <2>8, BytesDecoded
  <2> QED  BY <2>1, <2>2, <2>9 DEF FieldAt, Size
<1>2. \A f \in AllFields : FieldAt(order, s, f) = meta[f]
  BY <1>1 DEF AllFields
<1>3. ReadFields(order, s) = [f \in AllFields |-> FieldAt(order, s, f)]
  BY FieldsRead
<1>4. meta = [f \in AllFields |-> meta[f]]
  BY DEF Whole
<1> QED  BY <1>2, <1>3, <1>4

LEMMA SerializedIsReadBack ==
  ASSUME NEW meta, Whole(meta)
  PROVE  Deserialize(Serialize(meta)) = meta
<1> DEFINE s == Serialize(meta)
<1>1. HoldsOnly(s, "big", meta, 10)
  BY SerializeIs
<1> HIDE DEF s
<1>2. s \in Seq(ByteValue) /\ Len(s) >= 64 /\ Holds(s, "big", meta, 10)
  BY <1>1, Offsets DEF HoldsOnly
<1>3. "big" \in Order
  BY DEF Order
<1>4. ReadFields("big", s) = meta
  BY <1>2, <1>3, FieldsReadBack
<1> QED  BY <1>4 DEF Deserialize, s

\* The header of a page is of the size that open_db and Page::cast skip.
LEMMA PageHeaderIs ==
  ASSUME NEW pgid
  PROVE  /\ PageHeader(pgid) \in Seq(ByteValue) /\ Len(PageHeader(pgid)) = HeaderSize
         /\ \A j \in 1 .. 8 : PageHeader(pgid)[j] = ByteAt(pgid, Shift("little", j, 8))
<1> DEFINE ints == << [value |-> pgid, size |-> 8], [value |-> {2}, size |-> 2],
                      [value |-> {}, size |-> 2], [value |-> {}, size |-> 4] >>
<1>1. Len(ints) = 4 /\ 4 \in Nat
      /\ ints[1].size = 8 /\ ints[2].size = 2 /\ ints[3].size = 2 /\ ints[4].size = 4
      /\ ints[1].value = pgid
  OBVIOUS
<1> HIDE DEF ints
<1>2. \A i \in 1 .. 4 : ints[i].size \in Nat
  <2> TAKE i \in 1 .. 4
  <2>1. i = 1 \/ i = 2 \/ i = 3 \/ i = 4
    OBVIOUS
  <2> QED  BY <1>1, <2>1
<1>3. PICK empty : empty = <<>>
  OBVIOUS
<1> DEFINE a == Appended("little", empty, ints)
<1>4. empty \in Seq(ByteValue) /\ Len(empty) = 0 /\ OneByOne("little", empty, ints, 4, a)
  <2>1. empty \in Seq(ByteValue) /\ Len(empty) = 0
    BY <1>3
  <2> QED  BY ONLY <1>1, <1>2, <2>1, AppendedIs
<1> HIDE DEF a
<1>5. /\ AppendVariadicUint("little", empty, ints) = a[4] /\ a[0] = empty
      /\ \A i \in 1 .. 4 : a[i] = AppendUint("little", a[i - 1], ints[i].value, ints[i].size)
      /\ \A i \in 0 .. 4 : a[i] \in Seq(ByteValue)
  BY <1>4 DEF OneByOne
<1>6. ASSUME NEW i \in 1 .. 4
      PROVE  Grows("little", a[i - 1], ints[i].value, ints[i].size, a[i])
  <2>1. PICK s \in Seq(ByteValue) : s = a[i - 1]
    <3>1. i - 1 \in 0 .. 4
      OBVIOUS
    <3> QED  BY <1>5, <3>1
  <2>2. PICK n \in Nat : n = ints[i].size
    BY <1>2
  <2> DEFINE q == AppendUint("little", s, ints[i].value, n)
  <2>3. Grows("little", s, ints[i].value, n, q)
    BY ONLY AppendUintGrows
  <2>4. a[i] = q
    BY <1>5, <2>1, <2>2
  <2> HIDE DEF q
  <2> QED  BY <2>1, <2>2, <2>3, <2>4
<1>7. Len(a[1]) = Len(a[0]) + 8 /\ Len(a[2]) = Len(a[1]) + 2
      /\ Len(a[3]) = Len(a[2]) + 2 /\ Len(a[4]) = Len(a[3]) + 4
  <2>1. 1 \in 1 .. 4 /\ 2 \in 1 .. 4 /\ 3 \in 1 .. 4 /\ 4 \in 1 .. 4
        /\ 1 - 1 = 0 /\ 2 - 1 = 1 /\ 3 - 1 = 2 /\ 4 - 1 = 3
    OBVIOUS
  <2>2. Len(a[1]) = Len(a[1 - 1]) + ints[1].size /\ Len(a[2]) = Len(a[2 - 1]) + ints[2].size
        /\ Len(a[3]) = Len(a[3 - 1]) + ints[3].size /\ Len(a[4]) = Len(a[4 - 1]) + ints[4].size
    BY <1>6, <2>1 DEF Grows
  <2> QED  BY <1>1, <2>1, <2>2
<1>8. Len(a[4]) = 16 /\ a[4] \in Seq(ByteValue)
  BY <1>4, <1>5, <1>7
<1>9. ASSUME NEW j \in 1 .. 8
      PROVE  a[4][j] = ByteAt(pgid, Shift("little", j, 8))
  <2>1. 1 \in 1 .. 4 /\ 2 \in 1 .. 4 /\ 3 \in 1 .. 4 /\ 4 \in 1 .. 4
        /\ 1 - 1 = 0 /\ 2 - 1 = 1 /\ 3 - 1 = 2 /\ 4 - 1 = 3
    OBVIOUS
  <2>2. /\ Grows("little", a[0], pgid, 8, a[1])
        /\ Grows("little", a[1], ints[2].value, 2, a[2])
        /\ Grows("little", a[2], ints[3].value, 2, a[3])
        /\ Grows("little", a[3], ints[4].value, 4, a[4])
    BY <1>1, <1>6, <2>1
  <2>3. Len(a[0]) = 0 /\ Len(a[1]) = 8 /\ Len(a[2]) = 10 /\ Len(a[3]) = 12
    BY <1>4, <1>5, <1>7
  <2>4. a[1][0 + j] = ByteAt(pgid, Shift("little", j, 8))
    BY <2>2, <2>3 DEF Grows
  <2>5. j \in 1 .. Len(a[1]) /\ j \in 1 .. Len(a[2]) /\ j \in 1 .. Len(a[3]) /\ 0 + j = j
    BY <2>3
  <2>6. a[2][j] = a[1][j] /\ a[3][j] = a[2][j] /\ a[4][j] = a[3][j]
    BY <2>2, <2>5 DEF Grows
  <2> QED  BY <2>4, <2>5, <2>6
<1> QED  BY <1>3, <1>5, <1>8, <1>9 DEF PageHeader, ints, HeaderSize

\* q is s with t behind it.
Concatenates(s, t, q) ==
  /\ q \in Seq(ByteValue) /\ Len(q) = Len(s) + Len(t)
  /\ \A j \in 1 .. Len(s) : q[j] = s[j]
  /\ \A j \in 1 .. Len(t) : q[Len(s) + j] = t[j]

LEMMA Concatenation ==
  ASSUME NEW s \in Seq(ByteValue), NEW t \in Seq(ByteValue)
  PROVE  Concatenates(s, t, s \o t)
<1> DEFINE q == s \o t
<1>1. Len(s) \in Nat /\ Len(t) \in Nat
  BY LenProperties
<1>2. q \in Seq(ByteValue) /\ Len(q) = Len(s) + Len(t)
      /\ \A j \in 1 .. Len(s) + Len(t) : q[j] = IF j <= Len(s) THEN s[j] ELSE t[j - Len(s)]
  BY ConcatProperties
<1> HIDE DEF q
<1>3. \A j \in 1 .. Len(s) : j \in 1 .. Len(s) + Len(t) /\ j <= Len(s)
  BY <1>1
<1>4. \A j \in 1 .. Len(t) : /\ Len(s) + j \in 1 .. Len(s) + Len(t)
                            /\ ~(Len(s) + j <= Len(s)) /\ (Len(s) + j) - Len(s) = j
  BY <1>1
<1>5. Concatenates(s, t, q)
  BY <1>2, <1>3, <1>4 DEF Concatenates
<1> QED  BY <1>5 DEF q

\* The memory behind the header, to the end of the page.
BeginsWith(tail, body) ==
  /\ tail \in Seq(ByteValue) /\ Len(tail) >= Len(body)
  /\ \A j \in 1 .. Len(body) : tail[j] = body[j]

LEMMA BehindHeader ==
  ASSUME NEW head \in Seq(ByteValue), NEW body \in Seq(ByteValue), NEW left \in Seq(ByteValue),
         NEW h \in Nat, Len(head) = h
  PROVE  BeginsWith(SubSeq(head \o body \o left, h + 1, Len(head \o body \o left)), body)
<1> DEFINE p == head \o body
           q == p \o left
<1>12. PICK n \in Nat : n = Len(body)
  BY LenProperties
<1>1. p \in Seq(ByteValue) /\ Len(p) = h + n /\ \A j \in 1 .. n : p[h + j] = body[j]
  <2>1. Concatenates(head, body, p)
    BY ONLY Concatenation
  <2> HIDE DEF p
  <2> QED  BY <1>12, <2>1 DEF Concatenates
<1> HIDE DEF p
<1>2. PICK m \in Nat : m = Len(left)
  BY LenProperties
<1>3. q \in Seq(ByteValue) /\ Len(q) = (h + n) + m /\ \A j \in 1 .. h + n : q[j] = p[j]
  <2>1. Concatenates(p, left, q)
    <3>1. p \in Seq(ByteValue)
      BY <1>1
    <3> QED  BY ONLY <3>1, Concatenation
  <2> HIDE DEF q
  <2> QED  BY <1>1, <1>2, <2>1 DEF Concatenates
<1> HIDE DEF q
<1>4. PICK l \in Nat : l = (h + n) + m
  OBVIOUS
<1>5. PICK o \in Int : o = h + 1
  OBVIOUS
<1> DEFINE t == SubSeq(q, o, l)
<1>6. \A j \in o .. l : q[j] \in ByteValue
  <2> TAKE j \in o .. l
  <2>1. j \in 1 .. Len(q)
    BY <1>3, <1>4, <1>5
  <2> QED  BY <1>3, <2>1, ElementOfSeq
<1>7. /\ t \in Seq(ByteValue) /\ Len(t) = IF o <= l THEN l - o + 1 ELSE 0
      /\ \A j \in 1 .. l - o + 1 : t[j] = q[o + j - 1]
  BY <1>6, SubSeqProperties
<1> HIDE DEF t
<1>8. Len(t) = n + m
  BY <1>4, <1>5, <1>7
<1>9. ASSUME NEW j \in 1 .. n
      PROVE  t[j] = body[j]
  <2>1. j \in 1 .. l - o + 1 /\ o + j - 1 = h + j /\ h + j \in 1 .. h + n
    BY <1>4, <1>5
  <2> QED  BY <1>1, <1>3, <1>7, <2>1
<1>10. t = SubSeq(head \o body \o left, h + 1, Len(head \o body \o left))
  <2>1. h + 1 = o /\ Len(q) = l
    BY <1>3, <1>4, <1>5
  <2> QED  BY <2>1 DEF t, q, p
<1>11. BeginsWith(t, body)
  BY <1>12, <1>7, <1>8, <1>9 DEF BeginsWith
<1> HIDE DEF t
<1> QED  BY <1>10, <1>11

LEMMA ObjectIsReadBack ==
  ASSUME NEW pgid, NEW meta, Whole(meta), NEW left \in Seq(ByteValue)
  PROVE  PageMeta(PageHeader(pgid) \o Native(meta) \o left) = meta
<1> DEFINE head == PageHeader(pgid)
           body == Native(meta)
           all == head \o body \o left
           t == SubSeq(all, HeaderSize + 1, Len(all))
<1>1. head \in Seq(ByteValue) /\ Len(head) = HeaderSize /\ HeaderSize \in Nat
  BY PageHeaderIs DEF HeaderSize
<1>2. HoldsOnly(body, "little", meta, 10)
  BY FieldsShape, FieldsWritten DEF Native
<1> HIDE DEF head, body
<1>3. body \in Seq(ByteValue) /\ Len(body) = 64 /\ Holds(body, "little", meta, 10)
  BY <1>2, Offsets DEF HoldsOnly
<1>4. t \in Seq(ByteValue) /\ Len(t) >= 64 /\ \A j \in 1 .. 64 : t[j] = body[j]
  <2>1. BeginsWith(t, body)
    BY ONLY <1>1, <1>3, BehindHeader
  <2> HIDE DEF t
  <2> QED  BY <1>3, <2>1 DEF BeginsWith
<1> HIDE DEF t
<1>5. ASSUME NEW i \in 1 .. 10, NEW j \in 1 .. Size(i)
      PROVE  t[Offset(i - 1) + j] = ByteAt(meta[Fields[i]], Shift("little", j, Size(i)))
  <2>1. Offset(i - 1) + j \in 1 .. 64
    <3>1. /\ Offset(i - 1) \in Nat /\ Size(i) \in Nat
          /\ Offset(i) = Offset(i - 1) + Size(i) /\ Offset(i) <= 64
      BY ONLY OffsetAt
    <3>2. \A o, z \in Nat : o + z <= 64 => \A k \in 1 .. z : o + k \in 1 .. 64
      OBVIOUS
    <3>3. Offset(i - 1) + Size(i) <= 64
      BY <3>1
    <3> QED  BY ONLY <3>1, <3>2, <3>3, Zenon
  <2>2. body[Offset(i - 1) + j] = ByteAt(meta[Fields[i]], Shift("little", j, Size(i)))
    BY ZenonT(60), <1>3 DEF Holds
  <2> QED  BY <1>4, <2>1, <2>2
<1>6. Holds(t, "little", meta, 10)
  BY <1>5 DEF Holds
<1>7. "little" \in Order
  BY DEF Order
<1>8. ReadFields("little", t) = meta
  BY <1>4, <1>6, <1>7, FieldsReadBack
<1> QED  BY <1>8 DEF PageMeta, t, head, body

\* The fields that are written, before the checksum is set.
Unsummed(meta) ==
  /\ DOMAIN meta = {Fields[i] : i \in 1 .. 9}
  /\ meta.magic = kMagic /\ meta.version = kVersion
  /\ \A f \in DOMAIN meta : meta[f] \in UnsignedT(SizeOf(f))

\* A meta that is whole and validates.
Good(meta) ==
  Whole(meta) /\ meta.magic = kMagic /\ meta.version = kVersion /\ meta.checksum = Sum64(meta)

LEMMA Sum64Type ==
  ASSUME NEW meta
  PROVE  Sum64(meta) \in UnsignedT(8)
<1> DEFINE s == WriteAux(<<>>, meta)
           c == Loop(CrcStep, {}, s)
<1>1. s \in Seq(ByteValue)
  BY WriteAuxIs DEF HoldsOnly
<1> HIDE DEF s
<1>2. crc64_be({}, s) = c[Len(s)] /\ \A i \in 0 .. Len(s) : c[i] \in UnsignedT(8)
  <2>1. crc64_be({}, s) = c[Len(s)]
    BY DEF crc64_be, Loop, CrcStep
  <2> HIDE DEF c
  <2>2. \A i \in 0 .. Len(s) : c[i] \in UnsignedT(8)
    BY <1>1, StepTypes, LoopIs, UnsignedNonEmpty DEF c
  <2> QED  BY <2>1, <2>2
<1>3. Len(s) \in 0 .. Len(s)
  BY <1>1, LenProperties
<1> QED  BY <1>2, <1>3 DEF Sum64, s

\* The checksum is of the other fields.
LEMMA Sum64OfOthers ==
  ASSUME NEW meta, DOMAIN meta = {Fields[i] : i \in 1 .. 9}, NEW sum
  PROVE  Sum64(WithField(meta, "checksum", sum)) = Sum64(meta)
<1> DEFINE w == WithField(meta, "checksum", sum)
<1>1. \A i \in 1 .. 9 : w[Fields[i]] = meta[Fields[i]]
  <2> TAKE i \in 1 .. 9
  <2>1. Fields[i] \in DOMAIN meta /\ Fields[i] # "checksum"
    BY FieldsShape
  <2> QED  BY <2>1 DEF WithField
<1> HIDE DEF w
<1>2. IntegersOf(w, Front(Fields)) = IntegersOf(meta, Front(Fields))
  BY <1>1, FieldsShape DEF IntegersOf
<1> QED  BY <1>2 DEF Sum64, WriteAux, w

LEMMA SummedIsGood ==
  ASSUME NEW meta, Unsummed(meta)
  PROVE  Good(WithSum(meta))
<1> DEFINE w == WithSum(meta)
<1>1. DOMAIN meta = {Fields[i] : i \in 1 .. 9}
  BY DEF Unsummed
<1>2. AllFields = DOMAIN meta \cup {"checksum"}
  <2>1. \A i \in 1 .. 10 : i \in 1 .. 9 \/ i = 10
    OBVIOUS
  <2>2. 10 \in 1 .. 10 /\ \A i \in 1 .. 9 : i \in 1 .. 10
    OBVIOUS
  <2> QED  BY <1>1, <2>1, <2>2, FieldsShape DEF AllFields
<1>3. w = [f \in AllFields |-> IF f = "checksum" THEN Sum64(meta) ELSE meta[f]]
  BY <1>2 DEF WithSum, WithField
<1>4. Sum64(w) = Sum64(meta)
  BY <1>1, Sum64OfOthers DEF WithSum
<1> HIDE DEF w
<1>5. "checksum" \in AllFields /\ "magic" \in DOMAIN meta /\ "version" \in DOMAIN meta
  <2>1. Fields[1] = "magic" /\ Fields[2] = "version" /\ 1 \in 1 .. 9 /\ 2 \in 1 .. 9
    BY DEF Fields
  <2> QED  BY <1>1, <1>2, <2>1
<1>6. w["checksum"] = Sum64(meta) /\ w["magic"] = meta["magic"] /\ w["version"] = meta["version"]
  BY <1>2, <1>3, <1>5
<1>7. w = [f \in AllFields |-> w[f]]
  BY <1>3
<1>8. ASSUME NEW i \in 1 .. 10
      PROVE  w[Fields[i]] \in UnsignedT(Size(i))
  <2>1. Fields[i] \in AllFields
    BY DEF AllFields
  <2>2. CASE Fields[i] = "checksum"
    <3>1. i = 10 /\ Size(10) = 8
      BY <2>2, FieldsShape, Offsets
    <3> QED  BY <1>6, <2>2, <3>1, Sum64Type
  <2>3. CASE Fields[i] # "checksum"
    <3>1. Fields[i] \in DOMAIN meta
      BY <1>2, <2>1, <2>3
    <3>2. w[Fields[i]] = meta[Fields[i]]
      BY <1>3, <2>1, <2>3
    <3> QED  BY <3>1, <3>2 DEF Unsummed, Size
  <2> QED  BY <2>2, <2>3
<1>9. Good(w)
  BY <1>4, <1>6, <1>7, <1>8 DEF Good, Whole, Unsummed
<1> QED  BY <1>9 DEF w

LEMMA GoodValidates ==
  ASSUME NEW meta, Good(meta)
  PROVE  Validate(meta) = "ok"
BY DEF Good, Validate

LEMMA MetasAreGood ==
  ASSUME NEW meta \in Metas
  PROVE  Good(WithSum(meta))
BY MetaPageAssumption, SummedIsGood DEF Unsummed

LEMMA InitMetaIsGood ==
  ASSUME NEW i \in {{}, {0}}, NEW size \in OsPageSizes
  PROVE  Good(InitMeta(i, size))
<1> DEFINE m == [magic |-> kMagic, version |-> kVersion, page_size |-> size, flags |-> {},
                 root |-> {0, 1}, sequence |-> {}, freelist |-> {1}, pgid |-> i, txid |-> i]
<1>1. DOMAIN m = {Fields[k] : k \in 1 .. 9}
  BY DEF Fields
<1>2. /\ m["magic"] = kMagic /\ m["version"] = kVersion /\ m["page_size"] = size
      /\ m["flags"] = {} /\ m["root"] = {0, 1} /\ m["sequence"] = {}
      /\ m["freelist"] = {1} /\ m["pgid"] = i /\ m["txid"] = i
  OBVIOUS
<1> HIDE DEF m
<1>3. size \in UnsignedT(4) /\ {} \in UnsignedT(4) /\ kMagic \in UnsignedT(4)
      /\ kVersion \in UnsignedT(4)
  BY MetaPageAssumption, BinaryAssumption DEF UnsignedT, kMagic, kVersion
<1>4. {} \in UnsignedT(8) /\ {0, 1} \in UnsignedT(8) /\ {1} \in UnsignedT(8) /\ i \in UnsignedT(8)
  BY MetaPageAssumption, BinaryAssumption DEF UnsignedT
<1>5. \A k \in 1 .. 9 : m[Fields[k]] \in UnsignedT(SizeOf(Fields[k]))
  BY SMTT(40), <1>2, <1>3, <1>4 DEF Fields, SizeOf
<1>6. Unsummed(m)
  BY <1>1, <1>2, <1>5 DEF Unsummed
<1> QED  BY <1>6, SummedIsGood DEF InitMeta, m

-----------------------------------------------------------------------------
(* The steps of a meta page.                                                  *)

\* A page nothing has happened to is the last meta, serialised.
SliceIsWhole ==
  pc # "write" /\ made = "slice" /\ whole => \E meta \in stored : page = Serialize(meta)

ObjectIsWhole ==
  pc # "write" /\ made = "init" =>
    \E pgid \in {{}, {0}}, left \in Leftover : \E meta \in stored :
      page = PageHeader(pgid) \o Native(meta) \o left

MetaInv ==
  /\ \A meta \in stored : Good(meta)
  /\ SliceIsWhole
  /\ ObjectIsWhole
  /\ made \in {"slice", "init"}
  /\ pc = "write" => made = "slice"
  /\ pc \in {"read", "checked"} => got = Deserialize(page)
  /\ pc = "checked" => status = Validate(got)

LEMMA SerializedLength ==
  ASSUME NEW meta
  PROVE  Serialize(meta) \in Seq(ByteValue) /\ Len(Serialize(meta)) = 64
BY SerializeIs, Offsets DEF HoldsOnly

\* An overwrite that gets through leaves nothing of the first meta.
LEMMA OverwriteAll ==
  ASSUME NEW s \in Seq(ByteValue), NEW p \in Seq(ByteValue), Len(s) = 64, Len(p) = 64
  PROVE  SubSeq(s, 1, 64) \o SubSeq(p, 64 + 1, 64) = s
<1>1. SubSeq(s, 1, 64) = s
  <2>1. SubSeq(s, 1, Len(s)) = s
    BY SubSeqFull, Zenon
  <2> QED  BY <2>1
<1>2. SubSeq(p, 64 + 1, 64) = <<>>
  OBVIOUS
<1>3. s \o <<>> = s
  OBVIOUS
<1> QED  BY <1>1, <1>2, <1>3

LEMMA MetaInvInit == MetaInit => MetaInv
BY DEF MetaInit, MetaInv, SliceIsWhole, ObjectIsWhole

LEMMA MetaInvNext == MetaInv /\ [MetaNext]_metaVars => MetaInv'
<1> SUFFICES ASSUME MetaInv, [MetaNext]_metaVars PROVE MetaInv'
  OBVIOUS
<1>1. ASSUME NEW meta \in Metas, Write(meta) PROVE MetaInv'
  <2>1. Good(WithSum(meta))
    BY MetasAreGood
  <2> QED  BY <1>1, <2>1 DEF Write, MetaInv, SliceIsWhole, ObjectIsWhole
<1>2. ASSUME NEW meta \in Metas, NEW k \in 0 .. Len(page), Overwrite(meta, k) PROVE MetaInv'
  <2>1. Good(WithSum(meta))
    BY MetasAreGood
  <2>2. PICK first \in stored : page = Serialize(first)
    BY <1>2 DEF Overwrite, MetaInv, SliceIsWhole
  <2>3. page \in Seq(ByteValue) /\ Len(page) = 64
    BY <2>2, SerializedLength
  <2>4. k = 64 => page' = Serialize(WithSum(meta))
    <3> DEFINE s == Serialize(WithSum(meta))
    <3>1. s \in Seq(ByteValue) /\ Len(s) = 64
      BY SerializedLength
    <3>2. page' = SubSeq(s, 1, k) \o SubSeq(page, k + 1, Len(page))
      BY <1>2 DEF Overwrite
    <3> HIDE DEF s
    <3>3. SubSeq(s, 1, 64) \o SubSeq(page, 64 + 1, 64) = s
      BY <2>3, <3>1, OverwriteAll
    <3>4. k = 64 => page' = s
      BY <2>3, <3>2, <3>3
    <3> QED  BY <3>4 DEF s
  <2>5. SliceIsWhole'
    BY <1>2, <2>3, <2>4 DEF Overwrite, SliceIsWhole
  <2> QED  BY <1>2, <2>1, <2>5 DEF Overwrite, MetaInv, ObjectIsWhole
<1>3. ASSUME NEW burst \in Bursts, NEW at, Damage(burst, at) PROVE MetaInv'
  BY <1>3 DEF Damage, MetaInv, SliceIsWhole, ObjectIsWhole
<1>4. ASSUME NEW i \in {{}, {0}}, NEW size \in OsPageSizes, NEW left \in Leftover,
             InitWrites(i, size, left)
      PROVE  MetaInv'
  <2>1. Good(InitMeta(i, size))
    BY InitMetaIsGood
  <2>2. stored' = {InitMeta(i, size)} /\ made' = "init" /\ pc' = "stored"
        /\ page' = PageHeader(i) \o Native(InitMeta(i, size)) \o left
    BY <1>4 DEF InitWrites
  <2>3. ObjectIsWhole'
    BY <2>2, Zenon DEF ObjectIsWhole
  <2> QED  BY <2>1, <2>2, <2>3 DEF MetaInv, SliceIsWhole
<1>5. CASE Read
  BY <1>5 DEF Read, MetaInv, SliceIsWhole, ObjectIsWhole
<1>6. ASSUME NEW os \in OsPageSizes, Check(os) PROVE MetaInv'
  BY <1>6 DEF Check, MetaInv, SliceIsWhole, ObjectIsWhole
<1>7. CASE UNCHANGED metaVars
  BY <1>7 DEF metaVars, MetaInv, SliceIsWhole, ObjectIsWhole
<1> QED  BY <1>1, <1>2, <1>3, <1>4, <1>5, <1>6, <1>7 DEF MetaNext

LEMMA MetaInvHolds == MetaSpec => []MetaInv
BY MetaInvInit, MetaInvNext, PTL DEF MetaSpec

\* What was serialised is read back whole and validates, and so is the object that
\* DB::init fills: for all field values and page sizes, bytes of any width of eight
\* bits or more, and any polynomial.
THEOREM MetasAreReadBack == MetaSpec => []MetaRoundTrip
<1>1. MetaInv => MetaRoundTrip
  <2> SUFFICES ASSUME MetaInv PROVE MetaRoundTrip
    OBVIOUS
  <2>1. ASSUME pc = "checked", made = "slice", whole
        PROVE  status = "ok" /\ got \in stored /\ page = Serialize(got)
    <3>1. PICK meta \in stored : page = Serialize(meta)
      BY <2>1 DEF MetaInv, SliceIsWhole
    <3>2. Good(meta) /\ got = Deserialize(page) /\ status = Validate(got)
      BY <2>1 DEF MetaInv
    <3>3. got = meta
      BY <3>1, <3>2, SerializedIsReadBack DEF Good
    <3> QED  BY <3>1, <3>2, <3>3, GoodValidates
  <2>2. ASSUME pc = "stored", made = "init"
        PROVE  PageMeta(page) \in stored /\ Validate(PageMeta(page)) = "ok"
    <3>1. PICK pgid \in {{}, {0}}, left \in Leftover, meta \in stored :
            page = PageHeader(pgid) \o Native(meta) \o left
      BY <2>2 DEF MetaInv, ObjectIsWhole
    <3>2. Good(meta) /\ left \in Seq(ByteValue)
      BY MetaPageAssumption DEF MetaInv
    <3>3. PageMeta(page) = meta
      BY <3>1, <3>2, ObjectIsReadBack DEF Good
    <3> QED  BY <3>2, <3>3, GoodValidates
  <2> QED  BY <2>1, <2>2 DEF MetaRoundTrip
<1> QED  BY <1>1, MetaInvHolds, PTL

\* For every meta that is written, whatever the polynomial and the width of a byte,
\* the loop over kCrc64Table computes the remainder of the division.
THEOREM ChecksumDivides == MetaSpec => []TableIsDivision
<1>1. MetaInv => TableIsDivision
  <2> SUFFICES ASSUME MetaInv, pc = "stored", made = "slice", whole
               PROVE  crc64_be({}, page) = Remainder(page)
    BY DEF TableIsDivision
  <2>1. PICK meta \in stored : page = Serialize(meta)
    BY DEF MetaInv, SliceIsWhole
  <2>2. page \in Seq(ByteValue)
    BY <2>1, SerializedLength
  <2> QED  BY <2>2, CrcIsRemainder
<1> QED  BY <1>1, MetaInvHolds, PTL

-----------------------------------------------------------------------------
(* Flipped bits that lie no further apart than the checksum has bits.         *)

\* The remainder after each byte of a message.
RemaindersOf(bytes, n, r) ==
  /\ Divide(bytes) = r[n] /\ r[0] = {}
  /\ \A i \in 1 .. n : r[i] = Xor(TimesPower(r[i - 1], ByteBits), bytes[i])
  /\ \A i \in 0 .. n : r[i] \in UnsignedT(8)

LEMMA RemaindersExist ==
  ASSUME NEW bytes \in Seq(ByteValue), NEW n, n = Len(bytes)
  PROVE  \E r : RemaindersOf(bytes, n, r)
<1> DEFINE r == Loop(DivideStep, {}, bytes)
<1>1. /\ Divide(bytes) = r[n] /\ r[0] = {}
      /\ \A i \in 1 .. n : r[i] = Xor(TimesPower(r[i - 1], ByteBits), bytes[i])
      /\ \A i \in 0 .. n : r[i] \in UnsignedT(8)
  BY DivideLoop
<1> HIDE DEF r
<1>2. RemaindersOf(bytes, n, r)
  BY <1>1 DEF RemaindersOf
<1> QED  BY <1>2

\* Division is linear: flipped bits add their own remainder.
LEMMA DivideLinear ==
  ASSUME NEW p \in Seq(ByteValue), NEW e \in Seq(ByteValue), NEW f \in Seq(ByteValue),
         NEW n \in Nat, Len(p) = n, Len(e) = n, Len(f) = n,
         \A i \in 1 .. n : f[i] = Xor(p[i], e[i])
  PROVE  Divide(f) = Xor(Divide(p), Divide(e))
<1>1. PICK a : RemaindersOf(p, n, a)
  BY RemaindersExist
<1>2. PICK b : RemaindersOf(e, n, b)
  BY RemaindersExist
<1>3. PICK c : RemaindersOf(f, n, c)
  BY RemaindersExist
<1>4. ByteBits \in Nat
  BY BinaryAssumption
<1> DEFINE G == {i \in 0 .. n : c[i] = Xor(a[i], b[i])}
<1>5. 0 \in G
  <2>1. a[0] = {} /\ b[0] = {} /\ c[0] = {}
    BY <1>1, <1>2, <1>3 DEF RemaindersOf
  <2>2. Xor({}, {}) = {} /\ 0 \in 0 .. n
    BY DEF Xor
  <2> QED  BY <2>1, <2>2
<1>6. ASSUME NEW i \in 0 .. n - 1, i \in G
      PROVE  i + 1 \in G
  <2>1. i + 1 \in 1 .. n /\ (i + 1) - 1 = i /\ i + 1 \in 0 .. n /\ i \in 0 .. n
    OBVIOUS
  <2>2. /\ a[i + 1] = Xor(TimesPower(a[i], ByteBits), p[i + 1])
        /\ b[i + 1] = Xor(TimesPower(b[i], ByteBits), e[i + 1])
        /\ c[i + 1] = Xor(TimesPower(c[i], ByteBits), f[i + 1])
        /\ a[i] \in UnsignedT(8) /\ b[i] \in UnsignedT(8)
    BY <1>1, <1>2, <1>3, <2>1 DEF RemaindersOf
  <2>3. c[i] = Xor(a[i], b[i]) /\ f[i + 1] = Xor(p[i + 1], e[i + 1])
    BY <1>6, <2>1
  <2>4. TimesPower(Xor(a[i], b[i]), ByteBits)
          = Xor(TimesPower(a[i], ByteBits), TimesPower(b[i], ByteBits))
    BY <1>4, <2>2, TimesPowerLinear
  <2>5. Xor(Xor(TimesPower(a[i], ByteBits), TimesPower(b[i], ByteBits)), Xor(p[i + 1], e[i + 1]))
          = Xor(Xor(TimesPower(a[i], ByteBits), p[i + 1]), Xor(TimesPower(b[i], ByteBits), e[i + 1]))
    BY ONLY XorSwaps
  <2> QED  BY <2>1, <2>2, <2>3, <2>4, <2>5
<1> HIDE DEF G
<1>7. \A i \in 0 .. n : i \in G
  BY <1>5, <1>6, UpTo
<1>8. n \in G
  BY <1>7
<1> QED  BY <1>1, <1>2, <1>3, <1>8 DEF G, RemaindersOf

\* The bits of byte i that the damage flips.
Flipped(burst, at, i) ==
  {c \in 0 .. ByteBits - 1 : ByteBits * i - 1 - c - at \in burst}

\* The flipped bits that come before bit t of the message, as the division sees them
\* when it has read so far.
Seen(burst, at, t) == {t - 1 - at - b : b \in {c \in burst : at + c < t}}

LEMMA SeenType ==
  ASSUME NEW burst \in SUBSET (0 .. CrcBits - 1), NEW at \in Nat, NEW t \in Nat,
         t <= at + CrcBits
  PROVE  Seen(burst, at, t) \in UnsignedT(8)
<1>1. CrcBits \in Nat
  BY CrcBitsNat
<1>2. ASSUME NEW b \in burst, at + b < t
      PROVE  t - 1 - at - b \in 0 .. CrcBits - 1
  BY <1>1, <1>2
<1> QED  BY <1>2, PolynomialIs DEF Seen

\* From bit t to bit t + d of the message, where every flipped bit that is left lies
\* in between or behind byte i + 1; u bits of that byte follow.
LEMMA SeenNext ==
  ASSUME NEW burst \in SUBSET (0 .. CrcBits - 1), NEW at \in Nat, NEW t \in Nat,
         NEW d \in Nat, NEW u \in Nat, d + u = ByteBits, d > 0, t + d <= at + CrcBits,
         u > 0 => t + d = at + CrcBits, NEW i \in Nat, t = ByteBits * i
  PROVE  TimesPower(Seen(burst, at, t + d), u)
           = Xor(TimesPower(Seen(burst, at, t), ByteBits), Flipped(burst, at, i + 1))
<1> DEFINE old == Seen(burst, at, t)
           new == Seen(burst, at, t + d)
           own == {(t + d) - 1 - at - b : b \in {c \in burst : t <= at + c /\ at + c < t + d}}
           bits == Flipped(burst, at, i + 1)
<1>1. CrcBits \in Nat /\ ByteBits \in Nat /\ CrcBits > ByteBits
  BY CrcBitsNat, BinaryAssumption
<1>2. burst \subseteq Int /\ \A b \in burst : b >= 0 /\ b < CrcBits
  BY <1>1
<1>3. old \in UnsignedT(8) /\ new \in UnsignedT(8)
  <2>1. \A x \in Nat : x <= at + CrcBits => Seen(burst, at, x) \in UnsignedT(8)
    BY ONLY SeenType
  <2>2. t <= at + CrcBits /\ t + d \in Nat
    BY <1>1
  <2> QED  BY <2>1, <2>2
<1>4. own \subseteq 0 .. d - 1
  BY <1>2
<1>5. own \in UnsignedT(8)
  BY <1>1, <1>4, PolynomialIs
<1>6. \A x \in old : x \in Int /\ x >= 0 /\ x + d < CrcBits
  <2> TAKE x \in old
  <2>1. PICK b \in burst : at + b < t /\ x = t - 1 - at - b
    BY DEF Seen
  <2> QED  BY <1>1, <1>2, <2>1
<1>7. TimesPower(old, d) = ShiftLeft(old, d)
  BY <1>3, <1>6, TimesPowerShifts
<1>8. TimesPower(own, u) = ShiftLeft(own, u)
  BY <1>1, <1>4, <1>5, TimesPowerShifts
<1>9. bits = ShiftLeft(own, u)
  <2>1. ByteBits * (i + 1) = t + d + u
    BY <1>1
  <2>2. ASSUME NEW c \in bits PROVE c \in ShiftLeft(own, u)
    <3>1. PICK b \in Int : b = ByteBits * (i + 1) - 1 - c - at
      BY <1>1 DEF Flipped
    <3>2. c \in 0 .. ByteBits - 1 /\ b \in burst
      BY <3>1 DEF Flipped
    <3>3. b = t + d + u - 1 - c - at
      <4>1. PICK w \in Int : w = ByteBits * (i + 1)
        BY <1>1
      <4>2. w = t + d + u /\ b = w - 1 - c - at
        BY <2>1, <3>1, <4>1
      <4> QED  BY <3>2, <4>2
    <3>4. t <= at + b
      BY <1>1, <3>2, <3>3
    <3>5. at + b < t + d
      BY <1>1, <1>2, <3>2, <3>3
    <3>6. (t + d) - 1 - at - b \in own
      BY <3>2, <3>4, <3>5
    <3>7. c = ((t + d) - 1 - at - b) + u
      BY <3>2, <3>3
    <3> QED  BY <3>6, <3>7 DEF ShiftLeft
  <2>3. ASSUME NEW x \in ShiftLeft(own, u) PROVE x \in bits
    <3>1. PICK b \in burst : t <= at + b /\ at + b < t + d /\ x = ((t + d) - 1 - at - b) + u
      BY DEF ShiftLeft
    <3>2. b \in Int /\ x \in 0 .. ByteBits - 1 /\ t + d + u - 1 - x - at = b
      BY <1>1, <1>2, <3>1
    <3> QED  BY <2>1, <3>1, <3>2 DEF Flipped
  <2> QED  BY <2>2, <2>3
<1>10. new = Xor(ShiftLeft(old, d), own)
  <2>1. ASSUME NEW x \in new PROVE x \in Xor(ShiftLeft(old, d), own)
    <3>1. PICK b \in burst : at + b < t + d /\ x = (t + d) - 1 - at - b
      BY DEF Seen
    <3>2. CASE at + b < t
      <4>1. t - 1 - at - b \in old /\ x = (t - 1 - at - b) + d
        BY <1>2, <3>1, <3>2 DEF Seen
      <4>2. x \in ShiftLeft(old, d)
        BY <4>1 DEF ShiftLeft
      <4>3. x >= d
        BY <1>2, <3>1, <3>2
      <4> QED  BY <1>4, <4>2, <4>3 DEF Xor
    <3>3. CASE ~(at + b < t)
      <4>1. x \in own
        BY <1>2, <3>1, <3>3
      <4>2. x \notin ShiftLeft(old, d)
        <5> SUFFICES ASSUME NEW y \in old, x = y + d PROVE FALSE
          BY DEF ShiftLeft
        <5>1. y >= 0 /\ y \in Int
          BY <1>6, <1>2 DEF Seen
        <5>2. x \in 0 .. d - 1
          BY <1>4, <4>1
        <5> QED  BY <5>1, <5>2
      <4> QED  BY <4>1, <4>2 DEF Xor
    <3> QED  BY <3>2, <3>3
  <2>2. ASSUME NEW x \in ShiftLeft(old, d) PROVE x \in new
    <3>1. PICK b \in burst : at + b < t /\ x = (t - 1 - at - b) + d
      BY DEF ShiftLeft, Seen
    <3>2. at + b < t + d /\ x = (t + d) - 1 - at - b
      BY <1>2, <3>1
    <3> QED  BY <3>1, <3>2 DEF Seen
  <2>3. ASSUME NEW x \in own PROVE x \in new
    BY DEF Seen
  <2> QED  BY <2>1, <2>2, <2>3 DEF Xor
<1>11. ShiftLeft(old, d) \in UnsignedT(8)
  BY <1>3, <1>7, TimesPowerType
<1> HIDE DEF old, new, own, bits
<1>12. TimesPower(new, u) = Xor(TimesPower(ShiftLeft(old, d), u), TimesPower(own, u))
  BY <1>5, <1>10, <1>11, TimesPowerLinear
<1>13. TimesPower(ShiftLeft(old, d), u) = TimesPower(old, ByteBits)
  <2>1. TimesPower(TimesPower(old, d), u) = TimesPower(old, d + u)
    BY <1>3, TimesPowerAdds
  <2> QED  BY <1>7, <2>1
<1> QED  BY <1>8, <1>9, <1>12, <1>13 DEF old, new, bits

\* Damage that no longer burst makes, before the last bit of a message of n bytes.
LEMMA BurstIsSeen ==
  ASSUME NEW e \in Seq(ByteValue), NEW n \in Nat, Len(e) = n,
         NEW burst \in SUBSET (0 .. CrcBits - 1), burst # {}, NEW at \in Nat,
         \A b \in burst : at + b < ByteBits * n,
         \A i \in 1 .. n : e[i] = Flipped(burst, at, i)
  PROVE  Divide(e) # {}
<1> DEFINE end == at + CrcBits
           Top(i) == IF ByteBits * i <= end THEN ByteBits * i ELSE end
<1>1. CrcBits \in Nat /\ ByteBits \in Nat /\ CrcBits > ByteBits /\ ByteBits > 0 /\ end \in Nat
  BY CrcBitsNat, BinaryAssumption
<1>2. burst \subseteq Int /\ \A b \in burst : b >= 0 /\ b < CrcBits
  BY <1>1
<1>3. PICK r : RemaindersOf(e, n, r)
  BY RemaindersExist
<1>4. ASSUME NEW i \in Nat
      PROVE  /\ ByteBits * i \in Nat /\ Top(i) \in Nat /\ Top(i) <= end /\ Top(i) <= ByteBits * i
             /\ ByteBits * i - Top(i) \in Nat /\ Seen(burst, at, Top(i)) \in UnsignedT(8)
  <2>1. ByteBits * i \in Nat
    BY <1>1
  <2>2. PICK w \in Nat : w = ByteBits * i
    BY <2>1
  <2>3. Top(i) = IF w <= end THEN w ELSE end
    BY <2>2
  <2> HIDE DEF Top
  <2>4. Top(i) \in Nat /\ Top(i) <= end /\ Top(i) <= w /\ w - Top(i) \in Nat
    BY <1>1, <2>3
  <2>5. Seen(burst, at, Top(i)) \in UnsignedT(8)
    BY <2>4, SeenType
  <2> QED  BY <2>2, <2>4, <2>5
<1> DEFINE G == {i \in 0 .. n :
                   r[i] = TimesPower(Seen(burst, at, Top(i)), ByteBits * i - Top(i))}
<1>5. 0 \in G
  <2>1. Top(0) = 0 /\ ByteBits * 0 = 0 /\ 0 - 0 = 0 /\ 0 \in 0 .. n
    BY <1>1
  <2>2. Seen(burst, at, 0) = {}
    BY <1>2 DEF Seen
  <2>3. r[0] = {} /\ TimesPower({}, 0) = {}
    BY <1>3, UnsignedNonEmpty, TimesPowerZero DEF RemaindersOf
  <2> QED  BY <2>1, <2>2, <2>3
<1>6. ASSUME NEW i \in 0 .. n - 1, i \in G
      PROVE  i + 1 \in G
  <2>1. i + 1 \in 1 .. n /\ (i + 1) - 1 = i /\ i + 1 \in 0 .. n /\ i \in Nat /\ i + 1 \in Nat
    OBVIOUS
  <2>2. PICK w \in Nat : w = ByteBits * i
    BY <1>4, <2>1
  <2>3. ByteBits * (i + 1) = w + ByteBits
    BY <1>1, <2>1, <2>2
  <2>4. r[i + 1] = Xor(TimesPower(r[i], ByteBits), Flipped(burst, at, i + 1))
    BY <1>3, <2>1 DEF RemaindersOf
  <2>5. r[i] = TimesPower(Seen(burst, at, Top(i)), w - Top(i))
    BY <1>6, <2>2
  <2>6. CASE end <= w
    <3>1. Top(i) = end /\ Top(i + 1) = end
      BY <1>1, <2>2, <2>3, <2>6
    <3>2. Flipped(burst, at, i + 1) = {}
      <4> SUFFICES ASSUME NEW c \in 0 .. ByteBits - 1, NEW b \in burst,
                          b = ByteBits * (i + 1) - 1 - c - at
                   PROVE  FALSE
        BY DEF Flipped
      <4>1. b = (w + ByteBits) - 1 - c - at
        BY <2>3
      <4> QED  BY <1>1, <1>2, <2>6, <4>1
    <3>3. PICK s \in UnsignedT(8) : s = Seen(burst, at, end)
      BY <1>4, <2>1, <3>1
    <3>4. PICK k \in Nat : k = w - end
      BY <1>1, <2>6
    <3>5. TimesPower(TimesPower(s, k), ByteBits) = TimesPower(s, k + ByteBits)
      BY <1>1, TimesPowerAdds
    <3>6. (w + ByteBits) - end = k + ByteBits
      BY <1>1, <3>4
    <3>7. Xor(TimesPower(s, k + ByteBits), {}) = TimesPower(s, k + ByteBits)
      BY XorZero
    <3>8. r[i + 1] = TimesPower(s, k + ByteBits)
      BY <2>4, <2>5, <3>1, <3>2, <3>3, <3>4, <3>5, <3>7
    <3>9. r[i + 1] = TimesPower(Seen(burst, at, Top(i + 1)), ByteBits * (i + 1) - Top(i + 1))
      BY <2>3, <3>1, <3>3, <3>6, <3>8
    <3> QED  BY <2>1, <3>9
  <2>7. CASE ~(end <= w)
    <3>1. Top(i) = w
      BY <1>1, <2>2, <2>7
    <3>2. PICK t \in Nat : t = Top(i + 1)
      BY <1>4, <2>1
    <3>3. t = IF w + ByteBits <= end THEN w + ByteBits ELSE end
      BY <2>3, <3>2
    <3>4. PICK d \in Nat : d = t - w
      BY <1>1, <2>7, <3>3
    <3>5. PICK u \in Nat : u = (w + ByteBits) - t
      <4>1. t <= w + ByteBits
        BY <1>1, <3>3
      <4>2. (w + ByteBits) - t \in Nat
        BY <1>1, <4>1
      <4> QED  BY <4>2
    <3>6. d + u = ByteBits /\ d > 0 /\ w + d <= at + CrcBits /\ w + d = t
          /\ (u > 0 => w + d = at + CrcBits)
      BY <1>1, <2>7, <3>3, <3>4, <3>5
    <3>7. TimesPower(Seen(burst, at, w + d), u)
            = Xor(TimesPower(Seen(burst, at, w), ByteBits), Flipped(burst, at, i + 1))
      BY SMTT(40), <2>1, <2>2, <3>6, SeenNext
    <3>8. r[i] = Seen(burst, at, w)
      <4>1. Seen(burst, at, w) \in UnsignedT(8)
        BY <1>4, <2>1, <3>1
      <4>2. w - w = 0
        OBVIOUS
      <4> QED  BY <2>5, <3>1, <4>1, <4>2, TimesPowerZero
    <3>9. r[i + 1] = TimesPower(Seen(burst, at, Top(i + 1)), ByteBits * (i + 1) - Top(i + 1))
      BY <2>3, <2>4, <3>2, <3>5, <3>6, <3>7, <3>8
    <3> QED  BY <2>1, <3>9
  <2> QED  BY <2>6, <2>7
<1> HIDE DEF G
<1>7. \A i \in 0 .. n : i \in G
  BY <1>5, <1>6, UpTo
<1>8. Divide(e) = TimesPower(Seen(burst, at, Top(n)), ByteBits * n - Top(n))
  <2>1. n \in G
    BY <1>7
  <2> HIDE DEF Top
  <2> QED  BY <1>3, <2>1 DEF G, RemaindersOf
<1>9. Seen(burst, at, Top(n)) # {}
  <2>1. PICK b \in burst : TRUE
    OBVIOUS
  <2>2. at + b < ByteBits * n /\ at + b < end
    BY <1>1, <1>2
  <2>3. at + b < Top(n)
    BY <2>2
  <2> HIDE DEF Top
  <2> QED  BY <2>3 DEF Seen
<1> HIDE DEF Top
<1>10. TimesPower(Seen(burst, at, Top(n)), ByteBits * n - Top(n)) # {}
  BY <1>4, <1>9, TimesPowerInjective
<1> QED  BY <1>8, <1>10

LEMMA ByteApart ==
  ASSUME NEW d \in Int, NEW c \in 0 .. ByteBits - 1, ByteBits * d + c \in 0 .. ByteBits - 1
  PROVE  d = 0
<1>1. ByteBits \in Nat /\ ByteBits > 0
  BY BinaryAssumption
<1>2. d >= 1 => ByteBits * d >= ByteBits
  BY <1>1
<1>3. d <= -1 => ByteBits * d <= - ByteBits
  BY <1>1
<1>4. ByteBits * d \in Int
  BY <1>1
<1> QED  BY <1>1, <1>2, <1>3, <1>4

\* An integer that was read is made of the bytes it was read from.
LEMMA ByteOfUint ==
  ASSUME NEW n \in Nat, NEW s, \A i \in 1 .. n : s[i] \in ByteValue, NEW j \in 1 .. n
  PROVE  ByteAt(Uint("big", s, n), Shift("big", j, n)) = s[j]
<1> DEFINE v == Uint("big", s, n)
           k == Shift("big", j, n)
<1>1. ByteBits \in Nat /\ \A i \in 1 .. n : s[i] \subseteq 0 .. ByteBits - 1
  BY BinaryAssumption DEF ByteValue
<1>2. \A x : x \in v <=> \E i \in 1 .. n : \E c \in s[i] : x = c + ByteBits * (n - i)
  BY ONLY BigEndianMember
<1>3. k = ByteBits * (n - j) /\ k \in Nat
  BY <1>1 DEF Shift, BigEndian
<1> HIDE DEF v, k
<1>4. ASSUME NEW c \in s[j] PROVE c \in ByteAt(v, k)
  <2>1. c \in 0 .. ByteBits - 1
    BY <1>1
  <2>2. PICK x \in Int : x = c + k
    BY <1>3, <2>1
  <2>3. x \in v
    BY <1>2, <1>3, <2>2
  <2>4. x >= k /\ x - k = c
    BY <1>3, <2>1, <2>2
  <2>5. c \in ShiftRight(v, k)
    BY <2>3, <2>4 DEF ShiftRight
  <2> QED  BY <2>1, <2>5 DEF ByteAt
<1>5. ASSUME NEW y \in ByteAt(v, k) PROVE y \in s[j]
  <2>1. y \in 0 .. ByteBits - 1 /\ y \in ShiftRight(v, k)
    BY DEF ByteAt
  <2>2. PICK x \in v : y = x - k
    BY <2>1 DEF ShiftRight
  <2>3. PICK i \in 1 .. n : \E c \in s[i] : x = c + ByteBits * (n - i)
    BY <1>2
  <2>4. PICK c \in s[i] : x = c + ByteBits * (n - i)
    BY <2>3
  <2>5. c \in 0 .. ByteBits - 1
    BY <1>1
  <2>6. j - i \in Int /\ ByteBits * (n - i) - ByteBits * (n - j) = ByteBits * (j - i)
        /\ ByteBits * (n - i) \in Int /\ ByteBits * (j - i) \in Int
    BY <1>1
  <2>7. ByteBits * (j - i) + c = y
    <3>1. PICK a \in Int : a = ByteBits * (n - i)
      BY <2>6
    <3>2. PICK b \in Int : b = ByteBits * (j - i)
      BY <2>6
    <3>3. a - k = b /\ x = c + a
      BY <1>3, <2>4, <2>6, <3>1, <3>2
    <3>4. b + c = y
      BY <1>3, <2>2, <2>5, <3>3
    <3> QED  BY <3>2, <3>4
  <2>8. j - i = 0
    BY <2>1, <2>5, <2>6, <2>7, ByteApart
  <2>9. j = i /\ ByteBits * (j - i) = 0
    BY <1>1, <2>8
  <2> QED  BY <2>5, <2>7, <2>9
<1>6. ByteAt(v, k) = s[j]
  BY <1>4, <1>5
<1> QED  BY <1>6 DEF v, k

LEMMA Prefix ==
  ASSUME NEW p \in Seq(ByteValue), NEW k \in Nat, k <= Len(p)
  PROVE  /\ SubSeq(p, 1, k) \in Seq(ByteValue) /\ Len(SubSeq(p, 1, k)) = k
         /\ \A j \in 1 .. k : SubSeq(p, 1, k)[j] = p[j]
<1>1. PICK n \in Nat : n = Len(p)
  BY LenProperties
<1>2. PICK o \in Int : o = 1
  OBVIOUS
<1>3. \A i \in o .. k : p[i] \in ByteValue
  <2> TAKE i \in o .. k
  <2>1. i \in 1 .. Len(p)
    BY <1>1, <1>2
  <2> QED  BY <2>1, ElementOfSeq
<1>4. /\ SubSeq(p, o, k) \in Seq(ByteValue)
      /\ Len(SubSeq(p, o, k)) = IF o <= k THEN k - o + 1 ELSE 0
      /\ \A i \in 1 .. k - o + 1 : SubSeq(p, o, k)[i] = p[o + i - 1]
  BY SMTT(40), <1>3, SubSeqProperties
<1>5. k - o + 1 = k /\ (~(o <= k) => k = 0) /\ \A i \in 1 .. k : o + i - 1 = i
  BY <1>2
<1> QED  BY <1>2, <1>4, <1>5

\* A page that is cut anywhere is its two parts.
LEMMA CutAndJoined ==
  ASSUME NEW p \in Seq(ByteValue), NEW k \in 0 .. Len(p)
  PROVE  SubSeq(p, 1, k) \o SubSeq(p, k + 1, Len(p)) = p
<1>1. PICK n \in Nat : n = Len(p)
  BY LenProperties
<1>2. 1 \in 1 .. Len(p) + 1 /\ k \in 1 - 1 .. Len(p) /\ Len(p) \in k .. Len(p)
  BY <1>1
<1>3. SubSeq(p, 1, k) \o SubSeq(p, k + 1, Len(p)) = SubSeq(p, 1, Len(p))
  BY <1>2, ConcatAdjacentSubSeq, Zenon
<1>4. SubSeq(p, 1, Len(p)) = p
  BY SubSeqFull, Zenon
<1> QED  BY <1>3, <1>4

\* The fields of a meta that was read, written again, are the bytes they came from.
LEMMA ReadIsWritten ==
  ASSUME NEW p \in Seq(ByteValue), Len(p) = 64
  PROVE  /\ WriteAux(<<>>, Deserialize(p)) = SubSeq(p, 1, 56)
         /\ Deserialize(p).checksum = Uint("big", SubSeq(p, 56 + 1, Len(p)), 8)
<1> DEFINE g == Deserialize(p)
           w == WriteAux(<<>>, g)
<1>1. g = [f \in AllFields |-> FieldAt("big", p, f)]
  <2>1. Len(p) >= 64
    OBVIOUS
  <2>2. ReadFields("big", p) = [f \in AllFields |-> FieldAt("big", p, f)]
    BY ONLY <2>1, FieldsRead, Zenon
  <2> QED  BY <2>2 DEF Deserialize
<1>2. HoldsOnly(w, "big", g, 9)
  BY ONLY WriteAuxIs
<1> HIDE DEF g, w
<1>3. \A i \in 1 .. 10 : g[Fields[i]] = Uint("big", Rest(p, i - 1), Size(i))
  <2> TAKE i \in 1 .. 10
  <2>1. IndexOf(Fields[i]) = i /\ Fields[i] \in AllFields
    BY FieldsShape DEF IndexOf, AllFields
  <2> QED  BY <1>1, <2>1 DEF FieldAt, Size
<1>4. w \in Seq(ByteValue) /\ Len(w) = 56 /\ Holds(w, "big", g, 9)
  BY <1>2, Offsets DEF HoldsOnly
<1>5. ASSUME NEW i \in 1 .. 9, NEW j \in 1 .. Size(i)
      PROVE  w[Offset(i - 1) + j] = p[Offset(i - 1) + j]
  <2>1. i \in 1 .. 10 /\ i - 1 \in 0 .. 10
    OBVIOUS
  <2>2. PICK z \in Nat : z = Size(i)
    BY <2>1, OffsetAt
  <2>3. PICK o \in Nat : o = Offset(i - 1)
    BY <2>1, OffsetAt
  <2>4. o + z <= 64
    <3>1. Offset(i) = Offset(i - 1) + Size(i) /\ Offset(i) <= 64
      BY ONLY <2>1, OffsetAt
    <3> QED  BY <2>2, <2>3, <3>1
  <2>5. /\ Rest(p, i - 1) \in Seq(ByteValue) /\ Len(Rest(p, i - 1)) = 64 - o
        /\ \A k \in 1 .. 64 - o : Rest(p, i - 1)[k] = p[o + k]
    <3>1. Len(p) >= 64
      OBVIOUS
    <3>2. /\ Rest(p, i - 1) \in Seq(ByteValue)
          /\ Len(Rest(p, i - 1)) = Len(p) - Offset(i - 1)
          /\ \A k \in 1 .. Len(p) - Offset(i - 1) : Rest(p, i - 1)[k] = p[Offset(i - 1) + k]
      BY ONLY <2>1, <3>1, RestIs
    <3> QED  BY <2>3, <3>2
  <2>6. \A k \in 1 .. z : k \in 1 .. Len(Rest(p, i - 1)) /\ k \in 1 .. 64 - o
    BY <2>4, <2>5
  <2>7. \A k \in 1 .. z : Rest(p, i - 1)[k] \in ByteValue
    BY <2>5, <2>6, ElementOfSeq
  <2>8. j \in 1 .. z
    BY <2>2
  <2>9. ByteAt(Uint("big", Rest(p, i - 1), z), Shift("big", j, z)) = Rest(p, i - 1)[j]
    <3>1. PICK s : s = Rest(p, i - 1)
      OBVIOUS
    <3>2. \A k \in 1 .. z : s[k] \in ByteValue
      BY <2>7, <3>1
    <3>3. ByteAt(Uint("big", s, z), Shift("big", j, z)) = s[j]
      BY ONLY <2>8, <3>2, ByteOfUint
    <3> QED  BY <3>1, <3>3
  <2>10. w[Offset(i - 1) + j] = ByteAt(g[Fields[i]], Shift("big", j, Size(i)))
    BY ZenonT(60), <1>4 DEF Holds
  <2> QED  BY <1>3, <2>1, <2>2, <2>3, <2>5, <2>6, <2>8, <2>9, <2>10
<1>6. w = SubSeq(p, 1, 56)
  <2>1. 56 \in Nat /\ 56 <= Len(p)
    OBVIOUS
  <2>2. /\ SubSeq(p, 1, 56) \in Seq(ByteValue) /\ Len(SubSeq(p, 1, 56)) = 56
        /\ \A j \in 1 .. 56 : SubSeq(p, 1, 56)[j] = p[j]
    BY ONLY <2>1, Prefix
  <2>3. ASSUME NEW x \in 1 .. 56 PROVE w[x] = p[x]
    <3>1. 9 \in {9, 10} /\ x \in 1 .. Offset(9)
      BY Offsets
    <3>2. PICK i \in 1 .. 9 : \E j \in 1 .. Size(i) : x = Offset(i - 1) + j
      BY ONLY <3>1, OffsetsCover
    <3>3. PICK j \in 1 .. Size(i) : x = Offset(i - 1) + j
      BY <3>2
    <3>4. w[Offset(i - 1) + j] = p[Offset(i - 1) + j]
      BY <1>5
    <3> QED  BY <3>3, <3>4
  <2> QED  BY <1>4, <2>2, <2>3, SeqEqual
<1>7. g.checksum = Uint("big", SubSeq(p, 56 + 1, Len(p)), 8)
  <2>1. 10 \in 1 .. 10 /\ 10 - 1 = 9
    OBVIOUS
  <2>2. g[Fields[10]] = Uint("big", Rest(p, 9), Size(10))
    BY <1>3, <2>1
  <2>3. Rest(p, 9) = SubSeq(p, 56 + 1, Len(p)) /\ Size(10) = 8
    BY Offsets DEF Rest
  <2>4. Fields[10] = "checksum"
    BY FieldsShape
  <2> QED  BY <2>2, <2>3, <2>4
<1> QED  BY <1>6, <1>7 DEF w, g

\* A page whose checksum is right is divided without a remainder.
LEMMA Codeword ==
  ASSUME NEW p \in Seq(ByteValue), Len(p) = 64,
         Deserialize(p).checksum = Sum64(Deserialize(p))
  PROVE  Divide(p) = {}
<1> DEFINE head == SubSeq(p, 1, 56)
           tail == SubSeq(p, 56 + 1, Len(p))
<1>1. head \in Seq(ByteValue)
  <2>1. 56 \in Nat /\ 56 <= Len(p)
    OBVIOUS
  <2> QED  BY ONLY <2>1, Prefix
<1>2. tail \in Seq(ByteValue) /\ Len(tail) = 8
  <2>1. 9 \in 0 .. 10 /\ Len(p) >= 64 /\ Offset(9) = 56
    BY Offsets
  <2>2. Rest(p, 9) = tail
    BY <2>1 DEF Rest
  <2>3. Rest(p, 9) \in Seq(ByteValue) /\ Len(Rest(p, 9)) = Len(p) - Offset(9)
    BY ONLY <2>1, RestIs
  <2>4. Len(p) - Offset(9) = 8
    <3>1. 64 - 56 = 8
      OBVIOUS
    <3> QED  BY <2>1, <3>1
  <2> HIDE DEF tail
  <2> QED  BY <2>2, <2>3, <2>4, Zenon
<1>3. head \o tail = p
  <2>1. 56 \in 0 .. Len(p)
    OBVIOUS
  <2> QED  BY ONLY <2>1, CutAndJoined
<1>4. crc64_be({}, head) = Uint("big", tail, 8)
  BY ReadIsWritten DEF Sum64
<1> HIDE DEF head, tail
<1>5. Divide(p) = Xor(TimesPower(Divide(head), CrcBits), Uint("big", tail, 8))
  BY <1>1, <1>2, <1>3, DivideTail
<1>6. crc64_be({}, head) = TimesPower(Divide(head), CrcBits)
  BY <1>1, CrcIsPower
<1> QED  BY <1>4, <1>5, <1>6, XorCancels

LEMMA FunctionIsSeq ==
  ASSUME NEW n \in Nat, NEW p, p = [i \in 1 .. n |-> p[i]], \A i \in 1 .. n : p[i] \in ByteValue
  PROVE  p \in Seq(ByteValue) /\ Len(p) = n
<1>1. p \in [1 .. n -> ByteValue]
  OBVIOUS
<1>2. p \in Seq(ByteValue)
  BY <1>1, SeqDef
<1>3. Len(p) \in Nat /\ 1 .. Len(p) = 1 .. n
  BY <1>1, <1>2, LenProperties
<1>4. \A m \in Nat : 1 .. m = 1 .. n => m = n
  OBVIOUS
<1> QED  BY <1>2, <1>3, <1>4

LEMMA BurstIsFound ==
  ASSUME NEW meta, Good(meta), NEW burst \in SUBSET (0 .. CrcBits - 1), burst # {}, NEW at \in Nat,
         \A b \in burst : at + b < ByteBits * 64, NEW p,
         p = [i \in DOMAIN Serialize(meta) |-> Xor(Serialize(meta)[i], Flipped(burst, at, i))]
  PROVE  Validate(Deserialize(p)) # "ok"
<1> DEFINE s == Serialize(meta)
           e == [i \in 1 .. 64 |-> Flipped(burst, at, i)]
<1>1. s \in Seq(ByteValue) /\ Len(s) = 64 /\ DOMAIN s = 1 .. 64
  <2>1. s \in Seq(ByteValue) /\ Len(s) = 64
    BY ONLY SerializedLength
  <2> HIDE DEF s
  <2> QED  BY <2>1
<1>2. Deserialize(s) = meta
  BY SerializedIsReadBack DEF Good
<1>3. p = [i \in 1 .. 64 |-> Xor(s[i], Flipped(burst, at, i))]
  BY <1>1
<1> HIDE DEF s
<1>4. \A i \in 1 .. 64 : Flipped(burst, at, i) \in ByteValue
  BY DEF Flipped, ByteValue
<1>5. e \in Seq(ByteValue) /\ Len(e) = 64 /\ \A i \in 1 .. 64 : e[i] = Flipped(burst, at, i)
  BY <1>4
<1> HIDE DEF e
<1>6. \A i \in 1 .. 64 : s[i] \in ByteValue
  <2> TAKE i \in 1 .. 64
  <2>1. i \in 1 .. Len(s)
    BY <1>1
  <2> QED  BY ZenonT(60), <1>1, <2>1, ElementOfSeq
<1>7. p \in Seq(ByteValue) /\ Len(p) = 64 /\ \A i \in 1 .. 64 : p[i] = Xor(s[i], e[i])
  <2>1. \A a, b \in ByteValue : Xor(a, b) \in ByteValue
    BY DEF ByteValue, Xor
  <2>2. \A i \in 1 .. 64 : p[i] = Xor(s[i], Flipped(burst, at, i))
    BY <1>3, Zenon
  <2>3. \A i \in 1 .. 64 : p[i] \in ByteValue
    BY <1>4, <1>6, <2>1, <2>2, Zenon
  <2>4. p = [i \in 1 .. 64 |-> p[i]]
    BY <1>3, <2>2, Zenon
  <2>5. 64 \in Nat
    OBVIOUS
  <2>6. p \in Seq(ByteValue) /\ Len(p) = 64
    BY ONLY <2>3, <2>4, <2>5, FunctionIsSeq
  <2> QED  BY <1>5, <2>2, <2>6, Zenon
<1>8. Xor(Divide(s), Divide(e)) = Divide(p)
  <2>1. PICK n \in Nat : n = 64
    OBVIOUS
  <2>2. Len(s) = n /\ Len(e) = n /\ Len(p) = n /\ \A i \in 1 .. n : p[i] = Xor(s[i], e[i])
    BY ZenonT(60), <1>1, <1>5, <1>7, <2>1
  <2>3. s \in Seq(ByteValue) /\ e \in Seq(ByteValue) /\ p \in Seq(ByteValue)
    BY <1>1, <1>5, <1>7
  <2> QED  BY ONLY SMTT(40), <2>2, <2>3, DivideLinear
<1>9. Divide(s) = {}
  BY <1>1, <1>2, Codeword DEF Good
<1>10. Divide(e) # {}
  <2>1. PICK n \in Nat : n = 64
    OBVIOUS
  <2>2. /\ Len(e) = n /\ \A b \in burst : at + b < ByteBits * n
        /\ \A i \in 1 .. n : e[i] = Flipped(burst, at, i)
    BY <1>5, <2>1
  <2> QED  BY ONLY ZenonT(60), <1>5, <2>2, burst # {}, BurstIsSeen
<1>11. ASSUME Validate(Deserialize(p)) = "ok" PROVE FALSE
  <2>1. Deserialize(p).checksum = Sum64(Deserialize(p))
    BY <1>11 DEF Validate
  <2>2. Divide(p) = {}
    BY <1>7, <2>1, Codeword
  <2> QED  BY <1>8, <1>9, <1>10, <2>2, XorCancels
<1> QED  BY <1>11

\* A page as DB::init makes it begins with its number, not with a magic number.
LEMMA HeaderIsNoMeta ==
  ASSUME NEW pgid \in {{}, {0}}, NEW rest \in Seq(ByteValue), Len(rest) >= 64
  PROVE  Validate(Deserialize(PageHeader(pgid) \o rest)) # "ok"
<1> DEFINE head == PageHeader(pgid)
           p == head \o rest
           first == Rest(p, 0)
<1>1. /\ head \in Seq(ByteValue) /\ Len(head) = 16
      /\ \A j \in 1 .. 8 : head[j] = ByteAt(pgid, Shift("little", j, 8))
  <2>1. HeaderSize = 16
    BY DEF HeaderSize
  <2> QED  BY ONLY <2>1, PageHeaderIs
<1>2. Concatenates(head, rest, p)
  BY ONLY <1>1, Concatenation
<1> HIDE DEF head, p
<1>3. p \in Seq(ByteValue) /\ Len(p) >= 64 /\ \A j \in 1 .. 16 : p[j] = head[j]
  <2>1. Len(rest) \in Nat
    BY LenProperties
  <2> QED  BY <1>1, <1>2, <2>1 DEF Concatenates
<1>4. Deserialize(p) = [f \in AllFields |-> FieldAt("big", p, f)]
  BY <1>3, FieldsRead DEF Deserialize
<1>5. Deserialize(p).magic = Uint("big", first, 4)
  <2>1. Fields[1] = "magic" /\ 1 \in 1 .. 10 /\ SizeOf("magic") = 4
    BY DEF Fields, SizeOf
  <2>2. IndexOf("magic") = 1 /\ "magic" \in AllFields
    BY <2>1, FieldsShape DEF IndexOf, AllFields
  <2>3. FieldAt("big", p, "magic") = Uint("big", Rest(p, 1 - 1), 4)
    BY <2>1, <2>2 DEF FieldAt
  <2>4. 1 - 1 = 0
    OBVIOUS
  <2> QED  BY <1>4, <2>2, <2>3, <2>4
<1>6. \A j \in 1 .. 4 : first[j] = ByteAt(pgid, Shift("little", j, 8))
  <2>1. 0 \in 0 .. 10 /\ Len(p) >= 64
    BY <1>3
  <2>2. \A j \in 1 .. Len(p) - Offset(0) : first[j] = p[Offset(0) + j]
    BY ONLY <1>3, <2>1, RestIs
  <2>3. Offset(0) = 0 /\ Len(p) \in Nat
    BY <1>3, Offsets, LenProperties
  <2> HIDE DEF first
  <2>4. \A j \in 1 .. 4 : /\ j \in 1 .. Len(p) - Offset(0) /\ Offset(0) + j = j
                          /\ j \in 1 .. 16 /\ j \in 1 .. 8
    <3>1. PICK l \in Nat : l = Len(p) - Offset(0)
      BY <2>3
    <3>2. l >= 64
      BY <1>3, <2>3, <3>1
    <3> QED  BY ONLY <2>3, <3>1, <3>2
  <2> QED  BY <1>1, <1>3, <2>2, <2>4
<1>7. \A j \in 1 .. 4 : 0 \in first[j] => j = 1
  <2> SUFFICES ASSUME NEW j \in 2 .. 4, 0 \in first[j] PROVE FALSE
    OBVIOUS
  <2>1. ByteBits \in Nat /\ ByteBits >= 8
    BY BinaryAssumption, MetaPageAssumption
  <2>2. 0 \in ShiftRight(pgid, ByteBits * (j - 1))
    BY <1>6 DEF ByteAt, Shift, LittleEndian
  <2>3. PICK b \in pgid : b >= ByteBits * (j - 1)
    BY <2>2 DEF ShiftRight
  <2>4. ByteBits * (j - 1) >= ByteBits
    BY <2>1
  <2>5. b = 0 /\ ByteBits * (j - 1) \in Nat
    BY <2>1
  <2> QED  BY <2>1, <2>3, <2>4, <2>5
<1>8. 0 \notin Uint("big", first, 4)
  <2> SUFFICES ASSUME 0 \in Uint("big", first, 4) PROVE FALSE
    OBVIOUS
  <2>1. PICK j \in 1 .. 4 : \E c \in first[j] : 0 = c + ByteBits * (4 - j)
    BY BigEndianMember
  <2>2. PICK c \in first[j] : 0 = c + ByteBits * (4 - j)
    BY <2>1
  <2>3. ByteBits \in Nat /\ ByteBits >= 8
    BY BinaryAssumption, MetaPageAssumption
  <2>4. c \in Nat
    <3>1. first[j] \subseteq 0 .. ByteBits - 1
      BY <1>6 DEF ByteAt
    <3> QED  BY <2>3, <3>1
  <2>5. ByteBits * (4 - j) \in Nat /\ (j < 4 => ByteBits * (4 - j) >= ByteBits)
    BY <2>3
  <2>6. j = 4 /\ c = 0
    BY <2>2, <2>3, <2>4, <2>5
  <2> QED  BY <1>7, <2>6
<1>9. 0 \in kMagic
  BY DEF kMagic
<1>10. Deserialize(p).magic # kMagic
  BY <1>5, <1>8, <1>9
<1> QED  BY <1>10 DEF Validate, p, head

\* While one meta has been written, at most one burst keeps its page from it.
OneBurst ==
  pc # "write" /\ made = "slice" =>
    \A meta : stored = {meta} =>
      \/ page = Serialize(meta)
      \/ \E burst \in Bursts, at \in Nat :
           /\ \A b \in burst : at + b < ByteBits * 64
           /\ page = [i \in DOMAIN Serialize(meta) |->
                        Xor(Serialize(meta)[i], Flipped(burst, at, i))]

LEMMA OneBurstNext == MetaInv /\ OneBurst /\ [MetaNext]_metaVars => OneBurst'
<1> SUFFICES ASSUME MetaInv, OneBurst, [MetaNext]_metaVars PROVE OneBurst'
  OBVIOUS
<1>1. ASSUME NEW meta \in Metas, Write(meta) PROVE OneBurst'
  BY <1>1 DEF Write, OneBurst
<1>2. ASSUME NEW meta \in Metas, NEW k \in 0 .. Len(page), Overwrite(meta, k) PROVE OneBurst'
  <2> SUFFICES ASSUME NEW m, stored' = {m} PROVE page' = Serialize(m)
    BY DEF OneBurst
  <2>1. PICK first \in stored : page = Serialize(first)
    BY <1>2 DEF Overwrite, MetaInv, SliceIsWhole
  <2>2. stored' = stored \cup {WithSum(meta)}
    BY <1>2 DEF Overwrite
  <2>3. WithSum(meta) = m /\ first = m
    BY <2>1, <2>2
  <2>4. page' = SubSeq(page, 1, k) \o SubSeq(page, k + 1, Len(page))
    BY <1>2, <2>1, <2>3 DEF Overwrite
  <2>5. page \in Seq(ByteValue)
    BY <2>1, SerializedLength
  <2>6. page' = page
    BY <2>4, <2>5, CutAndJoined
  <2> QED  BY <2>1, <2>3, <2>6
<1>3. ASSUME NEW burst \in Bursts, NEW at \in 0 .. ByteBits * Len(page) - 1, Damage(burst, at)
      PROVE  OneBurst'
  <2> SUFFICES ASSUME NEW m, stored' = {m}
               PROVE  \E d \in Bursts, x \in Nat :
                        /\ \A b \in d : x + b < ByteBits * 64
                        /\ page' = [i \in DOMAIN Serialize(m) |->
                                      Xor(Serialize(m)[i], Flipped(d, x, i))]
    BY DEF OneBurst
  <2>1. PICK first \in stored : page = Serialize(first)
    BY <1>3 DEF Damage, MetaInv, SliceIsWhole
  <2>2. first = m
    BY <1>3, <2>1 DEF Damage
  <2>3. Len(page) = 64 /\ at \in Nat
    <3>1. Len(page) = 64
      BY <2>1, SerializedLength
    <3>2. ByteBits * Len(page) \in Int
      BY <3>1, BinaryAssumption
    <3> QED  BY <3>1, <3>2
  <2>4. \A b \in burst : at + b < ByteBits * 64
    BY <1>3, <2>3 DEF Damage
  <2>5. page' = [i \in DOMAIN Serialize(m) |-> Xor(Serialize(m)[i], Flipped(burst, at, i))]
    BY <1>3, <2>1, <2>2 DEF Damage, Flipped
  <2> QED  BY <2>3, <2>4, <2>5
<1>4. ASSUME NEW i, NEW size, NEW left, InitWrites(i, size, left) PROVE OneBurst'
  BY <1>4 DEF InitWrites, OneBurst
<1>5. CASE Read
  BY <1>5 DEF Read, OneBurst
<1>6. ASSUME NEW os, Check(os) PROVE OneBurst'
  BY <1>6 DEF Check, OneBurst
<1>7. CASE UNCHANGED metaVars
  BY <1>7 DEF metaVars, OneBurst
<1> QED  BY <1>1, <1>2, <1>3, <1>4, <1>5, <1>6, <1>7 DEF MetaNext

\* The part of DamageRejected that the polynomial guarantees: as long as no second
\* meta was written over the first, what validates is what was written.
BurstsRejected ==
  pc = "checked" /\ status = "ok" => \A meta : stored = {meta} => got = meta

\* Bits that flip within the width of the checksum are always found: wherever they
\* lie in the page, the checksum's own bytes included, for every polynomial with a
\* constant term; and the page DB::init makes is never taken for a meta.
THEOREM BurstsAreFound == MetaSpec => []BurstsRejected
<1>1. MetaInit => OneBurst
  BY DEF MetaInit, OneBurst
<1>2. MetaInv /\ OneBurst => BurstsRejected
  <2> SUFFICES ASSUME MetaInv, OneBurst, pc = "checked", status = "ok",
                      NEW meta, stored = {meta}
               PROVE  got = meta
    BY DEF BurstsRejected
  <2>1. Good(meta) /\ got = Deserialize(page) /\ Validate(Deserialize(page)) = "ok"
    BY DEF MetaInv
  <2>2. CASE made = "init"
    <3>1. PICK pgid \in {{}, {0}}, left \in Leftover, m \in stored :
            page = PageHeader(pgid) \o Native(m) \o left
      BY <2>2 DEF MetaInv, ObjectIsWhole
    <3>2. left \in Seq(ByteValue)
      BY MetaPageAssumption
    <3>3. Native(m) \in Seq(ByteValue) /\ Len(Native(m)) = 64
      <4>1. HoldsOnly(Native(m), "little", m, 10)
        BY FieldsShape, FieldsWritten DEF Native
      <4> QED  BY <4>1, Offsets DEF HoldsOnly
    <3>4. PICK rest \in Seq(ByteValue) : rest = Native(m) \o left /\ Len(rest) >= 64
      <4>1. Concatenates(Native(m), left, Native(m) \o left)
        BY <3>2, <3>3, Concatenation
      <4>2. PICK rest : rest = Native(m) \o left
        OBVIOUS
      <4>3. rest \in Seq(ByteValue) /\ Len(rest) = 64 + Len(left)
        BY <3>3, <4>1, <4>2 DEF Concatenates
      <4>4. Len(rest) >= 64
        <5>1. Len(left) \in Nat
          BY <3>2, LenProperties
        <5> QED  BY <4>3, <5>1
      <4> QED  BY <4>2, <4>3, <4>4
    <3>5. page = PageHeader(pgid) \o rest
      <4>1. PageHeader(pgid) \in Seq(ByteValue)
        BY PageHeaderIs
      <4> QED  BY SMTT(40), <3>1, <3>2, <3>3, <3>4, <4>1, ConcatAssociative
    <3> QED  BY <2>1, <3>4, <3>5, HeaderIsNoMeta
  <2>3. CASE made # "init"
    <3>1. made = "slice"
      BY <2>3 DEF MetaInv
    <3>2. CASE page = Serialize(meta)
      BY <2>1, <3>2, SerializedIsReadBack DEF Good
    <3>3. CASE page # Serialize(meta)
      <4>1. PICK burst \in Bursts, at \in Nat :
              /\ \A b \in burst : at + b < ByteBits * 64
              /\ page = [i \in DOMAIN Serialize(meta) |->
                           Xor(Serialize(meta)[i], Flipped(burst, at, i))]
        BY <3>1, <3>3 DEF OneBurst
      <4>2. burst \in SUBSET (0 .. CrcBits - 1) /\ burst # {}
        BY MetaPageAssumption
      <4>3. Validate(Deserialize(page)) # "ok"
        BY ONLY <2>1, <4>1, <4>2, BurstIsFound
      <4> QED  BY <2>1, <4>3
    <3> QED  BY <3>2, <3>3
  <2> QED  BY <2>2, <2>3
<1>3. MetaSpec => []OneBurst
  BY <1>1, OneBurstNext, MetaInvHolds, PTL DEF MetaSpec
<1> QED  BY <1>2, <1>3, MetaInvHolds, PTL

-----------------------------------------------------------------------------
(* Torn writes.                                                               *)

Summed == {WithSum(meta) : meta \in Metas}

\* The page when a write of b over a stops after k bytes.
Torn(a, b, k) == SubSeq(Serialize(b), 1, k) \o SubSeq(Serialize(a), k + 1, 64)

\* p is q but for a burst no wider than the checksum.
WithinBurst(p, q) ==
  \E burst \in SUBSET (0 .. CrcBits - 1), at \in Nat :
    /\ burst # {} /\ \A b \in burst : at + b < ByteBits * 64
    /\ p = [i \in DOMAIN q |-> Xor(q[i], Flipped(burst, at, i))]

\* The fields of a meta before those of another have not the other's checksum by
\* chance.  Only mixes that differ from the other in more than a burst are asked for,
\* and none with a byte of the new checksum.
WideMixesTellApart ==
  \A a, b \in Summed : \A k \in 0 .. 56 :
    LET mix == Deserialize(Torn(a, b, k))
    IN  \/ mix \in {a, b}
        \/ WithinBurst(Torn(a, b, k), Serialize(a))
        \/ Sum64(mix) # Sum64(a)

LEMMA SameBytes ==
  ASSUME NEW n \in Nat, NEW p \in Seq(ByteValue), NEW q \in Seq(ByteValue),
         Len(p) = n, Len(q) = n, \A j \in 1 .. n : p[j] = q[j]
  PROVE  p = q
<1>1. Len(p) = Len(q) /\ \A j \in 1 .. Len(p) : p[j] = q[j]
  OBVIOUS
<1> QED  BY ONLY <1>1, SeqEqual

\* p has k bytes of t and then those of s.
FirstBytesOf(p, t, s, k) ==
  /\ p \in Seq(ByteValue) /\ Len(p) = 64
  /\ \A j \in 1 .. 64 : p[j] = IF j <= k THEN t[j] ELSE s[j]

LEMMA TornIs ==
  ASSUME NEW a, NEW b, NEW k \in 0 .. 64
  PROVE  FirstBytesOf(Torn(a, b, k), Serialize(b), Serialize(a), k)
<1> DEFINE s == Serialize(a)
           t == Serialize(b)
           head == SubSeq(t, 1, k)
           tail == SubSeq(s, k + 1, 64)
<1>1. s \in Seq(ByteValue) /\ Len(s) = 64 /\ t \in Seq(ByteValue) /\ Len(t) = 64
  BY SerializedLength
<1> HIDE DEF s, t
<1>2. head \in Seq(ByteValue) /\ Len(head) = k /\ \A j \in 1 .. k : head[j] = t[j]
  <2>1. k \in Nat /\ k <= Len(t)
    BY <1>1
  <2> QED  BY ONLY <1>1, <2>1, Prefix
<1>3. /\ tail \in Seq(ByteValue) /\ Len(tail) = 64 - k
      /\ \A j \in 1 .. 64 - k : tail[j] = s[k + j]
  <2>1. \A i \in k + 1 .. 64 : s[i] \in ByteValue
    <3> TAKE i \in k + 1 .. 64
    <3>1. i \in 1 .. Len(s)
      BY <1>1
    <3> QED  BY <1>1, <3>1, ElementOfSeq
  <2>2. PICK o \in Int : o = k + 1
    OBVIOUS
  <2>3. /\ SubSeq(s, o, 64) \in Seq(ByteValue)
        /\ Len(SubSeq(s, o, 64)) = IF o <= 64 THEN 64 - o + 1 ELSE 0
        /\ \A i \in 1 .. 64 - o + 1 : SubSeq(s, o, 64)[i] = s[o + i - 1]
    BY SMTT(40), <2>1, <2>2, SubSeqProperties
  <2>4. 64 - o + 1 = 64 - k /\ (~(o <= 64) => 64 - k = 0)
        /\ \A i \in 1 .. 64 - k : o + i - 1 = k + i
    BY <2>2
  <2> QED  BY <2>2, <2>3, <2>4
<1> HIDE DEF head, tail
<1>4. Concatenates(head, tail, head \o tail)
  BY <1>2, <1>3, Concatenation
<1>5. PICK q : q = head \o tail
  OBVIOUS
<1>6. q \in Seq(ByteValue) /\ Len(q) = 64
  BY <1>2, <1>3, <1>4, <1>5 DEF Concatenates
<1>7. ASSUME NEW j \in 1 .. 64 PROVE q[j] = IF j <= k THEN t[j] ELSE s[j]
  <2>1. CASE j <= k
    BY <1>2, <1>4, <1>5, <2>1 DEF Concatenates
  <2>2. CASE ~(j <= k)
    <3>1. j - k \in 1 .. 64 - k /\ k + (j - k) = j
      BY <2>2
    <3>2. q[Len(head) + (j - k)] = tail[j - k]
      BY <1>3, <1>4, <1>5, <3>1 DEF Concatenates
    <3> QED  BY <1>2, <1>3, <2>2, <3>1, <3>2
  <2> QED  BY <2>1, <2>2
<1> QED  BY <1>5, <1>6, <1>7 DEF FirstBytesOf, Torn, head, tail, s, t

\* Two pages with the same bytes before the checksum have the same sum of fields.
LEMMA SameHead ==
  ASSUME NEW p \in Seq(ByteValue), NEW q \in Seq(ByteValue), Len(p) = 64, Len(q) = 64,
         \A j \in 1 .. 56 : p[j] = q[j]
  PROVE  Sum64(Deserialize(p)) = Sum64(Deserialize(q))
<1> DEFINE f == SubSeq(p, 1, 56)
           g == SubSeq(q, 1, 56)
<1>1. 56 \in Nat /\ 56 <= Len(p) /\ 56 <= Len(q)
  OBVIOUS
<1>2. f \in Seq(ByteValue) /\ Len(f) = 56 /\ \A j \in 1 .. 56 : f[j] = p[j]
  BY ONLY <1>1, Prefix
<1>3. g \in Seq(ByteValue) /\ Len(g) = 56 /\ \A j \in 1 .. 56 : g[j] = q[j]
  BY ONLY <1>1, Prefix
<1> HIDE DEF f, g
<1>4. f = g
  <2>1. PICK n \in Nat : n = 56
    OBVIOUS
  <2>2. Len(f) = n /\ Len(g) = n /\ \A j \in 1 .. n : f[j] = g[j]
    BY <1>2, <1>3, <2>1
  <2>3. f \in Seq(ByteValue) /\ g \in Seq(ByteValue)
    BY <1>2, <1>3
  <2> QED  BY ONLY <2>2, <2>3, SameBytes
<1> QED  BY <1>4, ReadIsWritten DEF Sum64, f, g

LEMMA ChecksumBytes ==
  ASSUME NEW p \in Seq(ByteValue), Len(p) = 64
  PROVE  /\ SubSeq(p, 56 + 1, Len(p)) \in Seq(ByteValue)
         /\ Len(SubSeq(p, 56 + 1, Len(p))) = 8
         /\ \A j \in 1 .. 8 : SubSeq(p, 56 + 1, Len(p))[j] = p[56 + j]
<1>1. 9 \in 0 .. 10 /\ Len(p) >= 64 /\ Offset(9) = 56
  BY Offsets
<1>2. Rest(p, 9) = SubSeq(p, 56 + 1, Len(p))
  BY <1>1 DEF Rest
<1>3. PICK r : r = SubSeq(p, 56 + 1, Len(p))
  OBVIOUS
<1>4. /\ r \in Seq(ByteValue) /\ Len(r) = Len(p) - Offset(9)
      /\ \A j \in 1 .. Len(p) - Offset(9) : r[j] = p[Offset(9) + j]
  <2>1. /\ Rest(p, 9) \in Seq(ByteValue) /\ Len(Rest(p, 9)) = Len(p) - Offset(9)
        /\ \A j \in 1 .. Len(p) - Offset(9) : Rest(p, 9)[j] = p[Offset(9) + j]
    BY ONLY <1>1, RestIs
  <2> QED  BY <1>2, <1>3, <2>1
<1>5. Len(p) - Offset(9) = 8
  <2>1. 64 - 56 = 8
    OBVIOUS
  <2> QED  BY <1>1, <2>1
<1>6. Len(r) = 8 /\ \A j \in 1 .. 8 : r[j] = p[56 + j]
  BY ONLY <1>1, <1>4, <1>5
<1> QED  BY <1>3, <1>4, <1>6

\* Pages with the same checksum have the same bytes at the end, and the other way.
LEMMA SameTail ==
  ASSUME NEW p \in Seq(ByteValue), NEW q \in Seq(ByteValue), Len(p) = 64, Len(q) = 64
  PROVE  Deserialize(p).checksum = Deserialize(q).checksum
           <=> \A j \in 1 .. 8 : p[56 + j] = q[56 + j]
<1>1. PICK r : r = SubSeq(p, 56 + 1, Len(p))
  OBVIOUS
<1>2. PICK s : s = SubSeq(q, 56 + 1, Len(q))
  OBVIOUS
<1>3. r \in Seq(ByteValue) /\ Len(r) = 8 /\ \A j \in 1 .. 8 : r[j] = p[56 + j]
  BY <1>1, ChecksumBytes
<1>4. s \in Seq(ByteValue) /\ Len(s) = 8 /\ \A j \in 1 .. 8 : s[j] = q[56 + j]
  BY <1>2, ChecksumBytes
<1>5. Deserialize(p).checksum = Uint("big", r, 8) /\ Deserialize(q).checksum = Uint("big", s, 8)
  BY <1>1, <1>2, ReadIsWritten
<1>6. ASSUME \A j \in 1 .. 8 : p[56 + j] = q[56 + j]
      PROVE  r = s
  <2>1. PICK n \in Nat : n = 8
    OBVIOUS
  <2>2. Len(r) = n /\ Len(s) = n /\ \A j \in 1 .. n : r[j] = s[j]
    BY <1>3, <1>4, <1>6, <2>1
  <2>3. r \in Seq(ByteValue) /\ s \in Seq(ByteValue)
    BY <1>3, <1>4
  <2> QED  BY ONLY <2>2, <2>3, SameBytes
<1>7. ASSUME Uint("big", r, 8) = Uint("big", s, 8), NEW j \in 1 .. 8
      PROVE  r[j] = s[j]
  <2>1. PICK n \in Nat : n = 8
    OBVIOUS
  <2>2. (\A i \in 1 .. n : r[i] \in ByteValue) /\ (\A i \in 1 .. n : s[i] \in ByteValue)
    <3>1. \A i \in 1 .. n : i \in 1 .. Len(r) /\ i \in 1 .. Len(s)
      BY <1>3, <1>4, <2>1
    <3> QED  BY <1>3, <1>4, <3>1, ElementOfSeq
  <2>3. j \in 1 .. n
    BY <2>1
  <2>4. ByteAt(Uint("big", r, n), Shift("big", j, n)) = r[j]
    BY ONLY <2>2, <2>3, ByteOfUint
  <2>5. ByteAt(Uint("big", s, n), Shift("big", j, n)) = s[j]
    BY ONLY <2>2, <2>3, ByteOfUint
  <2> QED  BY <1>7, <2>1, <2>4, <2>5
<1> QED  BY <1>3, <1>4, <1>5, <1>6, <1>7

LEMMA TornIsFound ==
  ASSUME WideMixesTellApart, NEW a \in Summed, NEW b \in Summed, NEW k \in 0 .. 64,
         Validate(Deserialize(Torn(a, b, k))) = "ok"
  PROVE  Deserialize(Torn(a, b, k)) \in {a, b}
<1>1. PICK p : p = Torn(a, b, k)
  OBVIOUS
<1>2. PICK s : s = Serialize(a)
  OBVIOUS
<1>3. PICK t : t = Serialize(b)
  OBVIOUS
<1>4. /\ p \in Seq(ByteValue) /\ Len(p) = 64
      /\ \A j \in 1 .. 64 : p[j] = IF j <= k THEN t[j] ELSE s[j]
  <2>1. FirstBytesOf(Torn(a, b, k), Serialize(b), Serialize(a), k)
    BY TornIs, ZenonT(60)
  <2> QED  BY <1>1, <1>2, <1>3, <2>1 DEF FirstBytesOf
<1>5. s \in Seq(ByteValue) /\ Len(s) = 64 /\ t \in Seq(ByteValue) /\ Len(t) = 64
  BY <1>2, <1>3, SerializedLength
<1>6. Good(a) /\ Good(b)
  BY MetasAreGood DEF Summed
<1>7. Deserialize(s) = a /\ Deserialize(t) = b
  BY <1>2, <1>3, <1>6, SerializedIsReadBack DEF Good
<1>8. Deserialize(p).checksum = Sum64(Deserialize(p))
  BY <1>1 DEF Validate
<1>9. CASE k <= 56
  <2>1. \A j \in 1 .. 8 : p[56 + j] = s[56 + j]
    <3> TAKE j \in 1 .. 8
    <3>1. 56 + j \in 1 .. 64 /\ (56 + j <= k => FALSE)
      BY <1>9
    <3> QED  BY <1>4, <3>1
  <2>2. Deserialize(p).checksum = Deserialize(s).checksum
    BY ONLY <1>4, <1>5, <2>1, SameTail
  <2>3. Sum64(Deserialize(p)) = Sum64(a)
    BY <1>6, <1>7, <1>8, <2>2 DEF Good
  <2>4. ~ WithinBurst(p, s)
    <3> SUFFICES ASSUME NEW burst \in SUBSET (0 .. CrcBits - 1), NEW at \in Nat, burst # {},
                        \A c \in burst : at + c < ByteBits * 64,
                        p = [i \in DOMAIN s |-> Xor(s[i], Flipped(burst, at, i))]
                 PROVE  FALSE
      BY DEF WithinBurst
    <3>1. p = [i \in DOMAIN Serialize(a) |-> Xor(Serialize(a)[i], Flipped(burst, at, i))]
      BY <1>2
    <3>2. Validate(Deserialize(p)) # "ok"
      BY ONLY <1>6, <3>1, burst # {}, \A c \in burst : at + c < ByteBits * 64, BurstIsFound
    <3> QED  BY <1>1, <3>2
  <2>5. k \in 0 .. 56
    BY <1>9
  <2>6. \/ Deserialize(p) \in {a, b} \/ WithinBurst(p, s) \/ Sum64(Deserialize(p)) # Sum64(a)
    BY <1>1, <1>2, <2>5 DEF WideMixesTellApart
  <2> QED  BY <1>1, <2>3, <2>4, <2>6
<1>10. CASE ~(k <= 56)
  <2>1. \A j \in 1 .. 56 : p[j] = t[j]
    <3> TAKE j \in 1 .. 56
    <3>1. j \in 1 .. 64 /\ j <= k
      BY <1>10
    <3> QED  BY <1>4, <3>1
  <2>2. Sum64(Deserialize(p)) = Sum64(Deserialize(t))
    BY ONLY <1>4, <1>5, <2>1, SameHead
  <2>3. Deserialize(p).checksum = Deserialize(t).checksum
    BY <1>6, <1>7, <1>8, <2>2 DEF Good
  <2>4. \A j \in 1 .. 8 : p[56 + j] = t[56 + j]
    BY ONLY <1>4, <1>5, <2>3, SameTail
  <2>5. \A j \in 1 .. 64 : p[j] = t[j]
    <3> TAKE j \in 1 .. 64
    <3>1. CASE j <= 56
      BY <2>1, <3>1
    <3>2. CASE ~(j <= 56)
      <4>1. j - 56 \in 1 .. 8 /\ 56 + (j - 56) = j
        BY <3>2
      <4> QED  BY <2>4, <4>1
    <3> QED  BY <3>1, <3>2
  <2>6. p = t
    <3>1. PICK n \in Nat : n = 64
      OBVIOUS
    <3>2. Len(p) = n /\ Len(t) = n /\ \A j \in 1 .. n : p[j] = t[j]
      BY <1>4, <1>5, <2>5, <3>1
    <3>3. p \in Seq(ByteValue) /\ t \in Seq(ByteValue)
      BY <1>4, <1>5
    <3> QED  BY ONLY <3>2, <3>3, SameBytes
  <2> QED  BY <1>1, <1>7, <2>6
<1> QED  BY <1>9, <1>10

\* A page holds one meta, or the beginning of one before the end of another.
TornPage ==
  pc # "write" =>
    /\ made = "slice" => stored \subseteq Summed
    /\ \/ \E meta : stored = {meta}
       \/ /\ made = "slice"
          /\ \E a, b \in Summed, k \in 0 .. 64 : stored = {a, b} /\ page = Torn(a, b, k)

LEMMA TornPageNext == MetaInv /\ TornPage /\ [MetaNext]_metaVars => TornPage'
<1> SUFFICES ASSUME MetaInv, TornPage, [MetaNext]_metaVars PROVE TornPage'
  OBVIOUS
<1>1. ASSUME pc # "write", Cardinality(stored) = 1
      PROVE  \E meta : stored = {meta}
  <2>1. IsFiniteSet(stored)
    <3>1. \A x, y : IsFiniteSet({x, y})
      <4> TAKE x, y
      <4>1. IsFiniteSet({x} \cup {y})
        BY FS_Singleton, FS_AddElement
      <4> QED  BY <4>1
    <3>2. CASE \E meta : stored = {meta}
      BY <3>2, FS_Singleton
    <3>3. CASE \E a, b \in Summed, k \in 0 .. 64 : stored = {a, b} /\ page = Torn(a, b, k)
      BY <3>1, <3>3
    <3> QED  BY <1>1, <3>2, <3>3 DEF TornPage
  <2> QED  BY <1>1, <2>1, FS_Singleton
<1>2. ASSUME NEW meta \in Metas, Write(meta) PROVE TornPage'
  BY <1>2 DEF Write, TornPage, Summed
<1>3. ASSUME NEW meta \in Metas, NEW k \in 0 .. Len(page), Overwrite(meta, k) PROVE TornPage'
  <2>1. PICK first \in stored : page = Serialize(first)
    BY <1>3 DEF Overwrite, MetaInv, SliceIsWhole
  <2>2. stored = {first} /\ first \in Summed
    BY <1>1, <1>3, <2>1 DEF Overwrite, TornPage
  <2>3. WithSum(meta) \in Summed
    BY DEF Summed
  <2>4. Len(page) = 64
    BY <2>1, SerializedLength
  <2>5. page' = Torn(first, WithSum(meta), k) /\ stored' = {first, WithSum(meta)}
    BY <1>3, <2>1, <2>2, <2>4 DEF Overwrite, Torn
  <2>6. made' = "slice" /\ k \in 0 .. 64
    BY <1>3, <2>4 DEF Overwrite
  <2> QED  BY <2>2, <2>3, <2>5, <2>6 DEF TornPage
<1>4. ASSUME NEW burst, NEW at, Damage(burst, at) PROVE TornPage'
  BY <1>1, <1>4 DEF Damage, TornPage
<1>5. ASSUME NEW i, NEW size, NEW left, InitWrites(i, size, left) PROVE TornPage'
  BY <1>5 DEF InitWrites, TornPage
<1>6. CASE Read
  BY <1>6 DEF Read, TornPage
<1>7. ASSUME NEW os, Check(os) PROVE TornPage'
  BY <1>7 DEF Check, TornPage
<1>8. CASE UNCHANGED metaVars
  BY <1>8 DEF metaVars, TornPage
<1> QED  BY <1>2, <1>3, <1>4, <1>5, <1>6, <1>7, <1>8 DEF MetaNext

\* What validates is one of the metas that were written, wherever a write over
\* another stopped, if no mix of their fields has the older checksum by chance.  A
\* write that stops inside the checksum needs no such luck, nor do metas that differ
\* within the width of the checksum.
THEOREM DamageIsRejected == ASSUME WideMixesTellApart PROVE MetaSpec => []DamageRejected
<1>1. MetaInit => TornPage
  BY DEF MetaInit, TornPage
<1>2. MetaInv /\ TornPage /\ BurstsRejected => DamageRejected
  <2> SUFFICES ASSUME MetaInv, TornPage, BurstsRejected, pc = "checked", status = "ok"
               PROVE  got \in stored
    BY DEF DamageRejected
  <2>1. got = Deserialize(page) /\ Validate(got) = "ok"
    BY DEF MetaInv
  <2>2. CASE \E meta : stored = {meta}
    BY <2>2 DEF BurstsRejected
  <2>3. CASE \E a, b \in Summed, k \in 0 .. 64 : stored = {a, b} /\ page = Torn(a, b, k)
    <3>1. PICK a \in Summed, b \in Summed, k \in 0 .. 64 :
            stored = {a, b} /\ page = Torn(a, b, k)
      BY <2>3
    <3>2. Deserialize(page) \in {a, b}
      BY <2>1, <3>1, TornIsFound
    <3> QED  BY <2>1, <3>1, <3>2
  <2> QED  BY <2>2, <2>3 DEF TornPage
<1>3. MetaSpec => []TornPage
  BY <1>1, TornPageNext, MetaInvHolds, PTL DEF MetaSpec
<1> QED  BY <1>2, <1>3, MetaInvHolds, BurstsAreFound, PTL
=============================================================================
