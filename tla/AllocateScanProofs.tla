------------------------- MODULE AllocateScanProofs -------------------------
(***************************************************************************)
(* Proofs about AllocateScan, for vectors of every length: the loop finds  *)
(* the first block if there is one, and erases the same ids from ids_ and  *)
(* from cache_, which needs no order of the vector; and, because the       *)
(* vector is sorted, it is the one step FreeList!AllocateContiguous.       *)
(***************************************************************************)
EXTENDS MCAllocateScan, SequenceTheorems, FiniteSetTheorems, WellFoundedInduction, TLAPS

ScanTypeOK ==
  /\ given \in Seq(Nat)
  /\ ids \in Seq(Nat)
  /\ n \in Int
  /\ iter \in Nat \ {0}
  /\ first \in Nat \ {0}
  /\ prev_id \in Nat
  /\ result \in Nat
  /\ pc \in {"scan", "returned", "thrown"}

\* The loop invariant.  The window first .. iter - 1 grows by one, is shorter than
\* n and cannot be extended to the left, and no n entries in a row end in it or
\* before it.
LoopInv ==
  /\ ids = given
  /\ result = 0
  /\ iter <= Len(given) + 1
  /\ iter = 1 => first = 1 /\ prev_id = 0
  /\ iter > 1 => first < iter /\ prev_id = given[iter - 1]
  /\ \A j \in 1 .. iter - 1 : given[j] > 1
  /\ \A j \in first .. iter - 1 : given[j] = given[first] + (j - first)
  /\ first > 1 => given[first] # given[first - 1] + 1
  /\ n > 0 => iter - first < n
  /\ n > 0 => \A k \in 1 .. Len(given) : k + n - 1 < iter => ~Window(given, k, n)

\* The block that was found is where the window starts, and what leaves ids_ and
\* cache_ is this block.
Taken ==
  pc = "returned" /\ result # 0 =>
    /\ n > 0
    /\ first \in Entries
    /\ result = given[first]
    /\ Window(given, first, n)
    /\ \A j \in Entries : Window(given, j, n) => first <= j
    /\ erased = {given[j] : j \in first .. first + n - 1}
    /\ Len(ids) = Len(given) - n
    /\ \A j \in 1 .. Len(ids) : ids[j] = given[IF j < first THEN j ELSE j + n]

ScanInv ==
  /\ ScanTypeOK
  /\ given \in Lists
  /\ Taken
  /\ pc = "scan" => LoopInv
  /\ FirstFit
  /\ NotFound
  /\ ErasedTogether

LEMMA EntriesAreNat ==
  ASSUME ScanTypeOK
  PROVE  Len(given) \in Nat /\ \A j \in 1 .. Len(given) : given[j] \in Nat
<1>1. given \in Seq(Nat)
  BY DEF ScanTypeOK
<1>2. DOMAIN given = 1 .. Len(given) /\ Len(given) \in Nat
  BY <1>1
<1>3. \A j \in DOMAIN given : given[j] \in Nat
  BY <1>1
<1> QED  BY <1>2, <1>3

LEMMA ScanInitInv == ScanInit => ScanInv
<1> SUFFICES ASSUME ScanInit PROVE ScanInv
  OBVIOUS
<1>1. given \in Seq(Nat) /\ n \in Int
  BY ScanAssumption DEF ScanInit
<1>2. Len(given) \in Nat
  BY <1>1
<1>3. ScanTypeOK
  BY <1>1 DEF ScanInit, ScanTypeOK
<1>4. LoopInv
  BY <1>1, <1>2 DEF ScanInit, LoopInv, Window
<1> QED  BY <1>3, <1>4 DEF ScanInit, ScanInv, Taken, FirstFit, NotFound, ErasedTogether

\* After the element at iter is looked at, the window that ends with it has the
\* properties the loop invariant asks of it.
LEMMA WindowGrows ==
  ASSUME ScanInv, pc = "scan", iter <= Len(ids), ids[iter] > 1
  PROVE  /\ WindowStart \in 1 .. iter
         /\ \A j \in WindowStart .. iter : given[j] = given[WindowStart] + (j - WindowStart)
         /\ WindowStart > 1 => given[WindowStart] # given[WindowStart - 1] + 1
         /\ \A j \in 1 .. iter : given[j] > 1
         /\ n > 0 => iter - WindowStart + 1 <= n
<1>1. LoopInv /\ ScanTypeOK
  BY DEF ScanInv
<1>2. given \in Seq(Nat) /\ ids = given /\ iter \in Nat \ {0} /\ first \in Nat \ {0} /\ n \in Int
      /\ prev_id \in Nat
  BY <1>1 DEF LoopInv, ScanTypeOK
<1>3. \A j \in 1 .. iter : given[j] \in Nat
  BY <1>1, <1>2, EntriesAreNat
<1>4. \A j \in 1 .. iter : given[j] > 1
  <2> TAKE j \in 1 .. iter
  <2>1. j = iter \/ j \in 1 .. iter - 1
    BY <1>2
  <2> QED  BY <1>1, <1>2, <2>1 DEF LoopInv
<1>5. CASE given[iter] - prev_id # 1
  <2>1. WindowStart = iter
    BY <1>2, <1>5 DEF WindowStart
  <2>2. ASSUME iter > 1 PROVE given[iter] # given[iter - 1] + 1
    <3>1. prev_id = given[iter - 1]
      BY <1>1, <2>2 DEF LoopInv
    <3>2. given[iter] \in Nat
      BY <1>2, <1>3
    <3> QED  BY <1>2, <1>5, <3>1, <3>2
  <2> QED  BY <1>2, <1>3, <1>4, <2>1, <2>2
<1>6. CASE given[iter] - prev_id = 1
  <2>1. WindowStart = first
    BY <1>2, <1>6 DEF WindowStart
  <2>2. iter > 1
    BY <1>1, <1>2, <1>3, <1>4, <1>6 DEF LoopInv
  <2>3. first < iter /\ given[iter] = given[iter - 1] + 1
    <3>1. first < iter /\ prev_id = given[iter - 1]
      BY <1>1, <2>2 DEF LoopInv
    <3>2. given[iter] \in Nat
      BY <1>2, <1>3
    <3> QED  BY <1>2, <1>6, <3>1, <3>2
  <2>4. \A j \in first .. iter - 1 : given[j] = given[first] + (j - first)
    BY <1>1 DEF LoopInv
  <2>5. given[iter] = given[first] + (iter - first)
    <3>1. iter - 1 \in first .. iter - 1 /\ first \in 1 .. iter /\ iter - 1 \in 1 .. iter
      BY <1>2, <2>2, <2>3
    <3>2. given[iter - 1] = given[first] + ((iter - 1) - first)
      BY <2>4, <3>1
    <3>3. given[first] \in Nat
      BY <1>3, <3>1
    <3>4. given[iter] = (given[first] + ((iter - 1) - first)) + 1
      BY <2>3, <3>2
    <3>5. \A a, b, c \in Int : (a + ((b - 1) - c)) + 1 = a + (b - c)
      OBVIOUS
    <3>6. iter \in Int /\ first \in Int
      BY <1>2
    <3> QED  BY <3>3, <3>4, <3>5, <3>6
  <2>6. \A j \in first .. iter : given[j] = given[first] + (j - first)
    <3> TAKE j \in first .. iter
    <3>1. j = iter \/ j \in first .. iter - 1
      BY <1>2
    <3> QED  BY <2>4, <2>5, <3>1
  <2> QED  BY <1>1, <1>2, <1>4, <2>1, <2>3, <2>6 DEF LoopInv
<1> QED  BY <1>5, <1>6

LEMMA AdvanceStep == ASSUME ScanInv, Advance PROVE ScanInv'
<1> DEFINE ws == WindowStart
<1>1. /\ pc = "scan" /\ pc' = "scan" /\ iter <= Len(ids) /\ ids[iter] > 1
      /\ iter - ws + 1 # n
      /\ first' = ws /\ prev_id' = ids[iter] /\ iter' = iter + 1
      /\ UNCHANGED <<given, ids, n, result, erased>>
  BY DEF Advance
<1>2. LoopInv /\ ScanTypeOK
  BY <1>1 DEF ScanInv
<1>3. given \in Seq(Nat) /\ ids = given /\ iter \in Nat \ {0} /\ n \in Int
  BY <1>2 DEF LoopInv, ScanTypeOK
<1>4. /\ ws \in 1 .. iter
      /\ \A j \in ws .. iter : given[j] = given[ws] + (j - ws)
      /\ ws > 1 => given[ws] # given[ws - 1] + 1
      /\ \A j \in 1 .. iter : given[j] > 1
      /\ n > 0 => iter - ws + 1 <= n
  BY <1>1, WindowGrows
<1> HIDE DEF ws
<1>5. ScanTypeOK'
  <2>1. ids[iter] \in Nat
    BY <1>1, <1>2, <1>3, EntriesAreNat
  <2>2. ws \in Nat \ {0}
    BY <1>3, <1>4
  <2> QED  BY <1>1, <1>2, <1>3, <2>1, <2>2 DEF ScanTypeOK
<1>6. ASSUME n > 0, NEW k \in 1 .. Len(given), k + n - 1 < iter + 1, Window(given, k, n)
      PROVE  FALSE
  <2>1. k + n - 1 = iter
    BY <1>2, <1>3, <1>6 DEF LoopInv
  <2>2. k < ws
    BY <1>1, <1>3, <1>4, <1>6, <2>1
  <2>3. ws - 1 \in k .. k + n - 2
    BY <1>3, <1>4, <2>1, <2>2
  <2>4. given[(ws - 1) + 1] = given[ws - 1] + 1
    BY <1>6, <2>3 DEF Window
  <2> QED  BY <1>3, <1>4, <2>2, <2>4
<1>7. LoopInv'
  <2>1. iter' <= Len(given') + 1 /\ iter' # 1 /\ first' < iter'
    BY <1>1, <1>3, <1>4
  <2>2. prev_id' = given'[iter' - 1]
    BY <1>1, <1>3
  <2>3. \A j \in first' .. iter' - 1 : given'[j] = given'[first'] + (j - first')
    <3>1. first' .. iter' - 1 = ws .. iter
      BY <1>1, <1>3
    <3> QED  BY <1>1, <1>4, <3>1
  <2>4. \A j \in 1 .. iter' - 1 : given'[j] > 1
    <3>1. iter' - 1 = iter /\ given' = given
      BY <1>1, <1>3
    <3> QED  BY <1>4, <3>1
  <2>5. n' > 0 => iter' - first' < n'
    BY <1>1, <1>3, <1>4
  <2>6. n' > 0 => \A k \in 1 .. Len(given') : k + n' - 1 < iter' => ~Window(given', k, n')
    BY <1>1, <1>6
  <2> QED  BY <1>1, <1>2, <1>4, <2>1, <2>2, <2>3, <2>4, <2>5, <2>6 DEF LoopInv
<1>8. FirstFit' /\ NotFound' /\ ErasedTogether' /\ Taken'
  BY <1>1 DEF FirstFit, NotFound, ErasedTogether, Taken
<1> QED  BY <1>1, <1>5, <1>7, <1>8 DEF ScanInv

LEMMA FoundStep == ASSUME ScanInv, Found PROVE ScanInv'
<1> DEFINE ws == WindowStart
<1>1. /\ pc = "scan" /\ pc' = "returned" /\ iter <= Len(ids) /\ ids[iter] > 1
      /\ iter - ws + 1 = n
      /\ first' = ws /\ result' = ids[ws]
      /\ ids' = SubSeq(ids, 1, ws - 1) \o SubSeq(ids, iter + 1, Len(ids))
      /\ erased' = {ids[ws] + j : j \in 0 .. n - 1}
      /\ UNCHANGED <<given, n, iter, prev_id>>
  BY DEF Found
<1>2. LoopInv /\ ScanTypeOK
  BY <1>1 DEF ScanInv
<1>3. /\ given \in Seq(Nat) /\ ids = given /\ iter \in Nat \ {0} /\ n \in Int
      /\ Len(given) \in Nat /\ iter <= Len(given)
      /\ \A j \in 1 .. Len(given) : given[j] \in Nat
  BY <1>1, <1>2, EntriesAreNat DEF LoopInv, ScanTypeOK
<1>4. /\ ws \in 1 .. iter
      /\ \A j \in ws .. iter : given[j] = given[ws] + (j - ws)
      /\ \A j \in 1 .. iter : given[j] > 1
  BY <1>1, WindowGrows
<1> HIDE DEF ws
<1>5. n > 0 /\ ws + n - 1 = iter /\ ws \in 1 .. Len(given)
  <2>1. /\ iter \in Nat /\ Len(given) \in Nat /\ n \in Int /\ ws \in Nat
        /\ 1 <= ws /\ ws <= iter /\ iter <= Len(given) /\ iter - ws + 1 = n
    BY <1>1, <1>3, <1>4
  <2> QED  BY <2>1
<1>6. given[ws] \in Nat /\ given[ws] > 1
  BY <1>3, <1>4, <1>5
<1>7. Window(given, ws, n)
  <2>1. ASSUME NEW j \in ws .. ws + n - 2 PROVE given[j + 1] = given[j] + 1
    <3>1. j \in ws .. iter /\ j + 1 \in ws .. iter /\ ws \in Int /\ j \in Int
      BY <1>3, <1>4, <1>5
    <3>2. given[j] = given[ws] + (j - ws) /\ given[j + 1] = given[ws] + ((j + 1) - ws)
      BY <1>4, <3>1
    <3> QED  BY <1>6, <3>1, <3>2
  <2> QED  BY <1>3, <1>4, <1>5, <2>1 DEF Window
<1>8. ASSUME NEW j \in 1 .. Len(given), Window(given, j, n) PROVE ws <= j
  <2>1. ~(j + n - 1 < iter)
    BY <1>2, <1>5, <1>8 DEF LoopInv
  <2> QED  BY <1>3, <1>4, <1>5, <2>1
<1>9. DOMAIN given = 1 .. Len(given)
  BY <1>3
<1>10. FirstFit'
  BY <1>1, <1>3, <1>5, <1>7, <1>8, <1>9 DEF FirstFit, Entries
<1>11. NotFound'
  BY <1>1, <1>3, <1>6 DEF NotFound
<1> DEFINE left == SubSeq(given, 1, ws - 1)
           right == SubSeq(given, iter + 1, Len(given))
<1>12. /\ left \in Seq(Nat) /\ Len(left) = ws - 1
       /\ \A j \in 1 .. ws - 1 : left[j] = given[j]
  <2>1. ws - 1 \in Int /\ \A j \in 1 .. ws - 1 : given[j] \in Nat
    BY <1>3, <1>4
  <2>2. /\ left \in Seq(Nat)
        /\ Len(left) = IF 1 <= ws - 1 THEN ws - 1 - 1 + 1 ELSE 0
        /\ \A j \in 1 .. ws - 1 - 1 + 1 : left[j] = given[1 + j - 1]
    BY <2>1, SubSeqProperties
  <2>3. ws - 1 - 1 + 1 = ws - 1 /\ \A j \in 1 .. ws - 1 : 1 + j - 1 = j
    BY <1>4
  <2>4. Len(left) = ws - 1
    BY <1>4, <2>2
  <2> HIDE DEF left
  <2> QED  BY <2>2, <2>3, <2>4
<1>13. /\ right \in Seq(Nat) /\ Len(right) = Len(given) - iter
       /\ \A j \in 1 .. Len(given) - iter : right[j] = given[iter + j]
  <2>1. iter + 1 \in Int /\ Len(given) \in Int
        /\ \A j \in iter + 1 .. Len(given) : given[j] \in Nat
    BY <1>3
  <2>2. /\ right \in Seq(Nat)
        /\ Len(right) = IF iter + 1 <= Len(given) THEN Len(given) - (iter + 1) + 1 ELSE 0
        /\ \A j \in 1 .. Len(given) - (iter + 1) + 1 :
             right[j] = given[(iter + 1) + j - 1]
    BY <2>1, SubSeqProperties
  <2>3. /\ Len(given) - (iter + 1) + 1 = Len(given) - iter
        /\ \A j \in 1 .. Len(given) - iter : (iter + 1) + j - 1 = iter + j
    BY <1>3
  <2>4. Len(right) = Len(given) - iter
    BY <1>3, <2>2
  <2> HIDE DEF right
  <2> QED  BY <2>2, <2>3, <2>4
<1>14. ids' = left \o right
  BY <1>1, <1>3
<1> HIDE DEF left, right
<1>15. /\ ids' \in Seq(Nat) /\ Len(ids') = Len(left) + Len(right)
       /\ \A j \in 1 .. Len(left) + Len(right) :
            ids'[j] = IF j <= Len(left) THEN left[j] ELSE right[j - Len(left)]
  BY <1>12, <1>13, <1>14, ConcatProperties
<1>16. Len(ids') = Len(given) - n
  <2>1. Len(ids') = (ws - 1) + (Len(given) - iter)
    BY <1>12, <1>13, <1>15
  <2>2. ws \in Int /\ iter \in Int /\ Len(given) \in Int /\ n \in Int /\ ws + n - 1 = iter
    BY <1>3, <1>4, <1>5
  <2> QED  BY <2>1, <2>2
<1>17. ASSUME NEW j \in 1 .. Len(ids')
       PROVE  ids'[j] = given[IF j < ws THEN j ELSE j + n]
  <2>1. j \in 1 .. Len(left) + Len(right) /\ j \in Int /\ ws \in Int /\ Len(left) = ws - 1
    BY <1>3, <1>4, <1>12, <1>13, <1>15, <1>17
  <2>2. CASE j < ws
    BY <1>12, <1>15, <2>1, <2>2
  <2>3. CASE ~(j < ws)
    <3>1. ids'[j] = right[j - (ws - 1)]
      BY <1>15, <2>1, <2>3
    <3>2. j - (ws - 1) \in 1 .. Len(given) - iter
      BY <1>3, <1>12, <1>13, <1>15, <2>1, <2>3
    <3>3. iter + (j - (ws - 1)) = j + n
      BY <1>3, <1>5, <2>1
    <3>4. right[j - (ws - 1)] = given[iter + (j - (ws - 1))]
      BY <1>13, <3>2
    <3> QED  BY <2>3, <3>1, <3>3, <3>4
  <2> QED  BY <2>2, <2>3
<1>18. erased' = {given[j] : j \in ws .. ws + n - 1}
  <2>1. \A j \in ws .. iter : j - ws \in 0 .. n - 1 /\ given[j] = given[ws] + (j - ws)
    BY <1>3, <1>4, <1>5
  <2>2. \A i \in 0 .. n - 1 : ws + i \in ws .. iter /\ given[ws + i] = given[ws] + i
    <3> TAKE i \in 0 .. n - 1
    <3>1. ws + i \in ws .. iter /\ (ws + i) - ws = i
      BY <1>3, <1>4, <1>5
    <3> QED  BY <2>1, <3>1
  <2>3. ws .. ws + n - 1 = ws .. iter
    BY <1>5
  <2>4. erased' = {given[ws] + i : i \in 0 .. n - 1}
    BY <1>1, <1>3
  <2>5. ASSUME NEW x \in erased'
        PROVE  x \in {given[j] : j \in ws .. iter}
    BY <2>2, <2>4
  <2>6. ASSUME NEW j \in ws .. iter
        PROVE  given[j] \in erased'
    BY <2>1, <2>4
  <2>7. erased' = {given[j] : j \in ws .. iter}
    BY <2>5, <2>6
  <2> QED  BY <2>3, <2>7
<1>19. ErasedTogether'
  <2>1. Len(ids') = Len(given') - n'
    BY <1>1, <1>16
  <2>2. \A j \in 1 .. Len(ids') : ids'[j] = given'[IF j < ws THEN j ELSE j + n']
    BY <1>1, <1>17
  <2>3. ws \in Entries' /\ erased' = {given'[j] : j \in ws .. ws + n' - 1}
    BY <1>1, <1>5, <1>9, <1>18 DEF Entries
  <2> QED  BY <2>1, <2>2, <2>3 DEF ErasedTogether
<1>20. ScanTypeOK'
  BY SMTT(40), <1>1, <1>2, <1>3, <1>4, <1>6, <1>15 DEF ScanTypeOK
<1>21. Taken'
  <2>1. first' \in Entries' /\ result' = given'[first'] /\ Window(given', first', n') /\ n' > 0
    BY <1>1, <1>3, <1>5, <1>7, <1>9 DEF Entries
  <2>2. \A j \in Entries' : Window(given', j, n') => first' <= j
    BY <1>1, <1>8, <1>9 DEF Entries
  <2>3. erased' = {given'[j] : j \in first' .. first' + n' - 1}
    BY <1>1, <1>18
  <2>4. Len(ids') = Len(given') - n'
    BY <1>1, <1>16
  <2>5. \A j \in 1 .. Len(ids') : ids'[j] = given'[IF j < first' THEN j ELSE j + n']
    BY <1>1, <1>17
  <2> QED  BY ONLY <2>1, <2>2, <2>3, <2>4, <2>5, Zenon DEF Taken
<1> QED  BY <1>1, <1>10, <1>11, <1>19, <1>20, <1>21 DEF ScanInv

LEMMA GiveUpStep == ASSUME ScanInv, GiveUp PROVE ScanInv'
<1>1. /\ pc = "scan" /\ pc' = "returned" /\ iter > Len(ids)
      /\ UNCHANGED <<given, ids, n, iter, first, prev_id, result, erased>>
  BY DEF GiveUp
<1>2. LoopInv /\ ScanTypeOK
  BY <1>1 DEF ScanInv
<1>3. ids = given /\ result = 0 /\ iter \in Nat /\ n \in Int /\ given \in Seq(Nat)
  BY <1>2 DEF LoopInv, ScanTypeOK
<1>4. Len(given) \in Nat /\ DOMAIN given = 1 .. Len(given)
  BY <1>3
<1>5. ASSUME n > 0, NEW k \in 1 .. Len(given) PROVE ~Window(given, k, n)
  <2>1. CASE k + n - 1 < iter
    BY <1>2, <1>5, <2>1 DEF LoopInv
  <2>2. CASE ~(k + n - 1 < iter)
    <3>1. ~(k + n - 1 <= Len(given))
      BY <1>1, <1>3, <1>4, <2>2
    <3> QED  BY <3>1 DEF Window
  <2> QED  BY <2>1, <2>2
<1>6. NotFound'
  BY <1>1, <1>3, <1>4, <1>5 DEF NotFound, Entries
<1>7. FirstFit' /\ ErasedTogether' /\ Taken'
  BY <1>1, <1>3 DEF FirstFit, ErasedTogether, Taken
<1>8. ScanTypeOK'
  BY <1>1, <1>2 DEF ScanTypeOK
<1> QED  BY <1>1, <1>6, <1>7, <1>8 DEF ScanInv

LEMMA ScanStepInv == ScanInv /\ [ScanNext]_scanVars => ScanInv'
<1> SUFFICES ASSUME ScanInv, [ScanNext]_scanVars PROVE ScanInv'
  OBVIOUS
<1>1. CASE GiveUp
  BY <1>1, GiveUpStep
<1>2. CASE Throw
  BY <1>2 DEF Throw, ScanInv, Taken, ScanTypeOK, FirstFit, NotFound, ErasedTogether
<1>3. CASE Found
  BY <1>3, FoundStep
<1>4. CASE Advance
  BY <1>4, AdvanceStep
<1>5. CASE UNCHANGED scanVars
  <2>1. UNCHANGED <<given, ids, n, iter, first, prev_id, result, erased, pc>>
    BY <1>5 DEF scanVars
  <2>2. LoopInv => LoopInv'
    BY <2>1 DEF LoopInv
  <2>3. FirstFit' /\ NotFound' /\ ErasedTogether' /\ Taken'
    BY SMTT(40), <2>1 DEF ScanInv, FirstFit, NotFound, ErasedTogether, Entries, Taken
  <2> QED  BY <2>1, <2>2, <2>3 DEF ScanInv, ScanTypeOK
<1> QED  BY <1>1, <1>2, <1>3, <1>4, <1>5 DEF ScanNext

\* The loop of allocate_contiguous keeps the window invariant at every element.
THEOREM ScanInvariance == ScanSpec => []ScanInv
BY ScanInitInv, ScanStepInv, PTL DEF ScanSpec

\* allocate_contiguous returns the first block of n pages, in a vector of any
\* length.
THEOREM ScanFirstFit == ScanSpec => []FirstFit
BY ScanInvariance, PTL DEF ScanInv

\* It returns 0 only when there is no such block.
THEOREM ScanComplete == ScanSpec => []NotFound
BY ScanInvariance, PTL DEF ScanInv

\* What it erases from cache_ by counting is what it erases from ids_ by range.
THEOREM ScanErasesTogether == ScanSpec => []ErasedTogether
BY ScanInvariance, PTL DEF ScanInv

\* All three at once, which is what the run checks.
THEOREM ScanIsCorrect == ScanSpec => []ScanCorrect
BY ScanInvariance, PTL DEF ScanInv, ScanCorrect

-----------------------------------------------------------------------------
(* The loop is FreeList!AllocateContiguous.  From here on the order of the    *)
(* vector matters: a window of the vector is a run of the bag it holds.       *)

\* The indices at which s has p.
IndicesOf(s, p) == {i \in DOMAIN s : s[i] = p}

LEMMA LeastNat ==
  ASSUME NEW T, T \subseteq Nat, T # {}
  PROVE  \E m \in T : \A j \in T : ~(j < m)
<1>1. PICK m \in T : \A j \in T : ~(<<j, m>> \in OpToRel(<, Nat))
  BY NatLessThanWellFounded, WFMin, Zenon
<1> QED  BY <1>1 DEF OpToRel

LEMMA GivenShape ==
  ASSUME given \in Lists
  PROVE  /\ Len(given) \in Nat /\ DOMAIN given = 1 .. Len(given)
         /\ \A j \in 1 .. Len(given) : given[j] \in Nat /\ given[j] \in Class!Page
         /\ \A i, j \in 1 .. Len(given) : i <= j => given[i] <= given[j]
<1>1. given \in Seq(Nat) /\ Sorted(given)
  BY ScanAssumption
<1>2. Len(given) \in Nat /\ DOMAIN given = 1 .. Len(given)
  BY <1>1
<1>3. \A j \in 1 .. Len(given) : given[j] \in Nat /\ given[j] <= MaxPage
  BY <1>1, <1>2, MCAllocateScanAssumption
<1>4. \A j \in 1 .. Len(given) : given[j] \in Class!Page
  BY <1>3, MCAllocateScanAssumption DEF Class!Page
<1> QED  BY <1>1, <1>2, <1>3, <1>4 DEF Sorted

\* A page is in the bag if the vector has it, and once if it has it at one index.
LEMMA BagCounts ==
  ASSUME given \in Lists, NEW p \in Class!Page
  PROVE  /\ IsFiniteSet(IndicesOf(given, p))
         /\ BagOf(given)[p] = Cardinality(IndicesOf(given, p))
         /\ BagOf(given)[p] \in Nat
         /\ BagOf(given)[p] > 0 <=> \E i \in 1 .. Len(given) : given[i] = p
         /\ BagOf(given)[p] = 1 <=> \E i \in 1 .. Len(given) : IndicesOf(given, p) = {i}
<1>1. Len(given) \in Nat /\ DOMAIN given = 1 .. Len(given)
  BY GivenShape
<1>2. IsFiniteSet(IndicesOf(given, p))
  <2>1. IsFiniteSet(1 .. Len(given))
    BY <1>1, FS_Interval
  <2> QED  BY <1>1, <2>1, FS_Subset DEF IndicesOf
<1>3. BagOf(given)[p] = Cardinality(IndicesOf(given, p))
  BY DEF BagOf, IndicesOf, Class!Page
<1>4. Cardinality(IndicesOf(given, p)) \in Nat
  BY <1>2, FS_CardinalityType
<1>5. Cardinality(IndicesOf(given, p)) = 0 <=> IndicesOf(given, p) = {}
  BY <1>2, FS_EmptySet
<1>6. Cardinality(IndicesOf(given, p)) = 1 <=> \E x : IndicesOf(given, p) = {x}
  BY <1>2, FS_Singleton
<1>7. (\E x : IndicesOf(given, p) = {x}) <=>
        \E i \in 1 .. Len(given) : IndicesOf(given, p) = {i}
  BY <1>1 DEF IndicesOf
<1>8. IndicesOf(given, p) # {} <=> \E i \in 1 .. Len(given) : given[i] = p
  BY <1>1 DEF IndicesOf
<1>9. BagOf(given)[p] > 0 <=> Cardinality(IndicesOf(given, p)) # 0
  BY <1>3, <1>4
<1> QED  BY <1>2, <1>3, <1>4, <1>5, <1>6, <1>7, <1>8, <1>9

\* A window of the vector is a run of pages that are free, all but its ends once.
LEMMA WindowIsRun ==
  ASSUME given \in Lists, n \in Int, n > 0, NEW k \in 1 .. Len(given),
         Window(given, k, n)
  PROVE  /\ Class!Contiguous(given[k], n)
         /\ \A j \in k .. k + n - 1 : given[j] = given[k] + (j - k)
<1>1. /\ Len(given) \in Nat /\ DOMAIN given = 1 .. Len(given)
      /\ \A j \in 1 .. Len(given) : given[j] \in Nat /\ given[j] \in Class!Page
      /\ \A i, j \in 1 .. Len(given) : i <= j => given[i] <= given[j]
  BY GivenShape
<1>2. /\ k + n - 1 <= Len(given)
      /\ \A j \in k .. k + n - 2 : given[j + 1] = given[j] + 1
  BY DEF Window
<1>3. \A j \in k .. k + n - 1 : given[j] = given[k] + (j - k)
  <2> DEFINE T == {d \in Nat : d <= n - 1 /\ given[k + d] # given[k] + d}
  <2>1. T = {}
    <3> SUFFICES ASSUME T # {} PROVE FALSE
      OBVIOUS
    <3> T \subseteq Nat
      OBVIOUS
    <3> HIDE DEF T
    <3>1. PICK d \in T : \A j \in T : ~(j < d)
      BY LeastNat
    <3>2. d \in Nat /\ d <= n - 1 /\ given[k + d] # given[k] + d
      BY <3>1 DEF T
    <3>3. d # 0
      <4>1. k + 0 = k /\ given[k] \in Nat
        BY <1>1
      <4> QED  BY <3>2, <4>1
    <3>4. d - 1 \in Nat /\ d - 1 <= n - 1 /\ d - 1 < d
      BY <3>2, <3>3
    <3>5. given[k + (d - 1)] = given[k] + (d - 1)
      BY <3>1, <3>4 DEF T
    <3>6. k + (d - 1) \in k .. k + n - 2 /\ (k + (d - 1)) + 1 = k + d
      BY <3>2, <3>4
    <3>7. given[k + d] = given[k + (d - 1)] + 1
      BY <1>2, <3>6
    <3>8. given[k] \in Nat
      BY <1>1
    <3> QED  BY <3>2, <3>5, <3>7, <3>8
  <2>2. ASSUME NEW j \in k .. k + n - 1
        PROVE  given[j] = given[k] + (j - k)
    <3>1. j - k \in Nat /\ j - k <= n - 1 /\ k + (j - k) = j
      OBVIOUS
    <3> QED  BY <2>1, <3>1
  <2> QED  BY <2>2
<1>4. given[k] \in Nat /\ given[k] + n - 1 <= MaxPage
  <2>1. k + n - 1 \in 1 .. Len(given) /\ k + n - 1 \in k .. k + n - 1
    BY <1>1, <1>2
  <2>2. given[k + n - 1] = given[k] + ((k + n - 1) - k)
    BY <1>3, <2>1
  <2>3. given[k + n - 1] \in 0 .. MaxPage
    BY <1>1, <2>1 DEF Class!Page
  <2>4. (k + n - 1) - k = n - 1 /\ given[k] \in Nat
    BY <1>1
  <2> QED  BY <2>2, <2>3, <2>4, MCAllocateScanAssumption
<1>5. ASSUME NEW q \in Class!Run(given[k], n)
      PROVE  /\ BagOf(given)[q] > 0 /\ q \in Class!Page
             /\ given[k] < q /\ q < given[k] + n - 1 => BagOf(given)[q] = 1
  <2>1. q \in Class!Page /\ q \in Nat /\ given[k] <= q /\ q < given[k] + n
    BY <1>5, MCAllocateScanAssumption DEF Class!Run, Class!Page
  <2>2. PICK j \in Int : j = k + (q - given[k])
    BY <1>4, <2>1
  <2>3. j \in k .. k + n - 1 /\ given[k] + (j - k) = q /\ j \in 1 .. Len(given)
    BY SMTT(40), <1>1, <1>2, <1>4, <2>1, <2>2
  <2>4. given[j] = q
    BY <1>3, <2>3
  <2>5. BagOf(given)[q] > 0
    BY <2>1, <2>3, <2>4, BagCounts
  <2>6. ASSUME given[k] < q, q < given[k] + n - 1
        PROVE  BagOf(given)[q] = 1
    <3>1. /\ j - 1 \in k .. k + n - 1 /\ j + 1 \in k .. k + n - 1
          /\ j - 1 \in 1 .. Len(given) /\ j + 1 \in 1 .. Len(given)
          /\ given[k] + ((j - 1) - k) = q - 1 /\ given[k] + ((j + 1) - k) = q + 1
      <4>1. PICK g \in Int : g = given[k]
        BY <1>4
      <4>2. /\ k < j /\ j + 1 <= k + n - 1 /\ j \in Int /\ k \in Int
            /\ g + ((j - 1) - k) = q - 1 /\ g + ((j + 1) - k) = q + 1
        <5>1. j = k + (q - g) /\ g < q /\ q < g + n - 1
              /\ k \in Int /\ q \in Int /\ g \in Int /\ n \in Int
          BY <1>1, <2>1, <2>2, <2>6, <4>1
        <5>2. \A a, b, c, d \in Int : LET x == a + (b - c)
                IN  c < b /\ b < c + d - 1 =>
                      /\ a < x /\ x + 1 <= a + d - 1 /\ x \in Int
                      /\ c + ((x - 1) - a) = b - 1 /\ c + ((x + 1) - a) = b + 1
          OBVIOUS
        <5> QED  BY ONLY <5>1, <5>2
      <4>3. /\ j - 1 \in k .. k + n - 1 /\ j + 1 \in k .. k + n - 1
            /\ j - 1 \in 1 .. Len(given) /\ j + 1 \in 1 .. Len(given)
        BY <1>1, <1>2, <4>2
      <4> QED  BY <4>1, <4>2, <4>3
    <3>2. given[j - 1] = q - 1 /\ given[j + 1] = q + 1
      BY <1>3, <3>1
    <3>3. ASSUME NEW i \in 1 .. Len(given), given[i] = q
          PROVE  i = j
      <4>1. i <= j - 1 => q <= q - 1
        BY <1>1, <3>1, <3>2, <3>3
      <4>2. j + 1 <= i => q + 1 <= q
        BY <1>1, <3>1, <3>2, <3>3
      <4> QED  BY <2>1, <2>3, <4>1, <4>2
    <3>4. IndicesOf(given, q) = {j}
      BY <1>1, <2>3, <2>4, <3>3 DEF IndicesOf
    <3> QED  BY <2>1, <2>3, <3>4, BagCounts
  <2> QED  BY <2>1, <2>5, <2>6
<1>6. Class!Contiguous(given[k], n)
  <2>1. Class!Run(given[k], n) \subseteq Class!PagesOf(BagOf(given))
    BY <1>5 DEF Class!PagesOf
  <2> QED  BY <1>4, <1>5, <2>1 DEF Class!Contiguous
<1> QED  BY <1>3, <1>6

\* A run of pages is a window: it starts at the last index that has its first page.
LEMMA RunIsWindow ==
  ASSUME given \in Lists, n \in Int, NEW p \in Class!Page, Class!Contiguous(p, n)
  PROVE  \E k \in 1 .. Len(given) : Window(given, k, n) /\ given[k] = p
<1>1. /\ Len(given) \in Nat /\ DOMAIN given = 1 .. Len(given)
      /\ \A j \in 1 .. Len(given) : given[j] \in Nat /\ given[j] \in Class!Page
      /\ \A i, j \in 1 .. Len(given) : i <= j => given[i] <= given[j]
  BY GivenShape
<1>2. n > 0 /\ p \in Nat /\ p + n - 1 <= MaxPage /\ MaxPage \in Nat
  BY MCAllocateScanAssumption DEF Class!Contiguous, Class!Page
<1>3. ASSUME NEW q \in Int, p <= q, q < p + n
      PROVE  /\ \E i \in 1 .. Len(given) : given[i] = q
             /\ p < q /\ q < p + n - 1 => \E i \in 1 .. Len(given) : IndicesOf(given, q) = {i}
  <2>1. q \in Class!Page /\ q \in Class!Run(p, n)
    BY <1>2, <1>3 DEF Class!Run, Class!Page
  <2>2. BagOf(given)[q] > 0
    BY <2>1 DEF Class!Contiguous, Class!PagesOf
  <2>3. p < q /\ q < p + n - 1 => BagOf(given)[q] = 1
    BY <2>1 DEF Class!Contiguous
  <2> QED  BY <2>1, <2>2, <2>3, BagCounts
\* The last index with p.
<1>4. PICK k \in 1 .. Len(given) : given[k] = p /\ \A i \in 1 .. Len(given) : given[i] = p => i <= k
  <2> DEFINE T == {d \in Nat : d < Len(given) /\ given[Len(given) - d] = p}
  <2>1. PICK i \in 1 .. Len(given) : given[i] = p
    BY <1>2, <1>3
  <2>2. Len(given) - i \in T
    <3>1. Len(given) - i \in Nat /\ Len(given) - i < Len(given) /\ Len(given) - (Len(given) - i) = i
      BY <1>1, <2>1
    <3> QED  BY <2>1, <3>1
  <2>3. T \subseteq Nat
    OBVIOUS
  <2> HIDE DEF T
  <2>4. PICK d \in T : \A e \in T : ~(e < d)
    BY <2>2, <2>3, LeastNat
  <2>5. d \in Nat /\ d < Len(given) /\ given[Len(given) - d] = p
    BY <2>4 DEF T
  <2>6. ASSUME NEW j \in 1 .. Len(given), given[j] = p
        PROVE  j <= Len(given) - d
    <3>1. Len(given) - j \in Nat /\ Len(given) - j < Len(given) /\ Len(given) - (Len(given) - j) = j
      BY <1>1, <2>6
    <3>2. Len(given) - j \in T
      BY <2>6, <3>1 DEF T
    <3> QED  BY <1>1, <2>4, <2>5, <3>1, <3>2
  <2>7. Len(given) - d \in 1 .. Len(given)
    BY <1>1, <2>5
  <2> QED  BY <2>5, <2>6, <2>7
\* From there on the vector counts up: the pages between are in it once.
<1>5. \A d \in Nat : d < n => k + d <= Len(given) /\ given[k + d] = p + d
  <2> DEFINE T == {d \in Nat : d < n /\ ~(k + d <= Len(given) /\ given[k + d] = p + d)}
  <2> SUFFICES ASSUME T # {} PROVE FALSE
    OBVIOUS
  <2>1. T \subseteq Nat
    OBVIOUS
  <2> HIDE DEF T
  <2>2. PICK d \in T : \A e \in T : ~(e < d)
    BY <2>1, LeastNat
  <2>3. d \in Nat /\ d < n /\ ~(k + d <= Len(given) /\ given[k + d] = p + d)
    BY <2>2 DEF T
  <2>4. d # 0
    <3>1. k + 0 = k /\ p + 0 = p /\ k <= Len(given)
      BY <1>2
    <3> QED  BY <1>4, <2>3, <3>1
  <2>5. PICK e \in Nat : e = d - 1
    BY <2>3, <2>4
  <2>6. e < n /\ e < d
    BY <2>3, <2>5
  <2>7. k + e <= Len(given) /\ given[k + e] = p + e
    BY <2>2, <2>6 DEF T
  <2>8. PICK c \in Int : c = k + e
    OBVIOUS
  <2>9. PICK q \in Int : q = p + d
    BY <1>2, <2>3
  <2>10. p <= q /\ q < p + n /\ p <= q - 1 /\ q - 1 < p + n
    BY <1>2, <2>3, <2>4, <2>9
  <2>11. c \in 1 .. Len(given) /\ given[c] = q - 1
    BY <1>1, <1>2, <2>3, <2>5, <2>7, <2>8, <2>9
  <2>12. PICK i \in 1 .. Len(given) : given[i] = q
    BY <1>3, <2>10
  <2>13. c < i
    <3>1. i <= c => q <= q - 1
      BY <1>1, <2>11, <2>12
    <3> QED  BY <2>8, <2>9, <3>1
  <2>14. c + 1 \in 1 .. Len(given) /\ c + 1 <= i /\ c <= c + 1
    BY <1>1, <2>8, <2>11, <2>13
  <2>15. q - 1 <= given[c + 1] /\ given[c + 1] <= q /\ given[c + 1] \in Nat
    BY <1>1, <2>11, <2>12, <2>14
  <2>16. CASE given[c + 1] = q
    <3>1. c + 1 = k + d
      BY <2>3, <2>5, <2>8
    <3> QED  BY <1>1, <2>3, <2>9, <2>14, <2>16, <3>1
  \* A second entry with the page before: it is p, and k was the last, or it is inside.
  <2>17. CASE given[c + 1] = q - 1
    <3>1. CASE e = 0
      <4>1. q - 1 = p /\ c + 1 > k
        BY <1>2, <2>3, <2>5, <2>8, <2>9, <3>1
      <4> QED  BY <1>4, <2>14, <2>17, <4>1
    <3>2. CASE e # 0
      <4>1. p < q - 1 /\ q - 1 < p + n - 1 /\ q - 1 \in Int
        BY <1>2, <2>3, <2>5, <2>9, <3>2
      <4>2. PICK x \in 1 .. Len(given) : IndicesOf(given, q - 1) = {x}
        BY <1>3, <2>10, <4>1
      <4>3. c \in IndicesOf(given, q - 1) /\ c + 1 \in IndicesOf(given, q - 1)
        BY <1>1, <2>11, <2>14, <2>17 DEF IndicesOf
      <4>4. c = c + 1
        BY <4>2, <4>3
      <4> QED  BY <2>8, <4>4
    <3> QED  BY <3>1, <3>2
  <2> QED  BY <2>9, <2>15, <2>16, <2>17
<1>6. Window(given, k, n)
  <2>1. k + n - 1 <= Len(given)
    <3>1. n - 1 \in Nat /\ n - 1 < n /\ k + (n - 1) = k + n - 1
      BY <1>2
    <3> QED  BY <1>5, <3>1
  <2>2. ASSUME NEW j \in k .. k + n - 2
        PROVE  given[j + 1] = given[j] + 1
    <3>1. PICK d \in Nat : d = j - k
      BY <2>2
    <3>2. d < n /\ d + 1 < n /\ d + 1 \in Nat /\ k + d = j /\ k + (d + 1) = j + 1
      BY <1>2, <2>2, <3>1
    <3>3. given[j] = p + d /\ given[j + 1] = p + (d + 1)
      BY <1>5, <3>2
    <3> QED  BY <1>2, <3>2, <3>3
  <2> QED  BY <2>1, <2>2 DEF Window
<1> QED  BY <1>4, <1>6

\* Erasing the window takes each of its pages out of the bag once.
LEMMA RestOfBag ==
  ASSUME given \in Lists, n \in Int, n > 0, first \in 1 .. Len(given),
         Window(given, first, n), ids \in Seq(Nat), Len(ids) = Len(given) - n,
         \A j \in 1 .. Len(ids) : ids[j] = given[IF j < first THEN j ELSE j + n],
         NEW p \in Class!Page
  PROVE  BagOf(ids)[p] = IF p \in Class!Run(given[first], n)
                           THEN BagOf(given)[p] - 1 ELSE BagOf(given)[p]
<1>1. /\ Len(given) \in Nat /\ DOMAIN given = 1 .. Len(given)
      /\ \A j \in 1 .. Len(given) : given[j] \in Nat
  BY GivenShape
<1>2. Len(ids) \in Nat /\ DOMAIN ids = 1 .. Len(ids) /\ p \in Nat
  BY MCAllocateScanAssumption DEF Class!Page
<1>3. first + n - 1 <= Len(given)
  BY DEF Window
<1>4. \A j \in first .. first + n - 1 : given[j] = given[first] + (j - first)
  BY WindowIsRun
<1> DEFINE Gone == {i \in first .. first + n - 1 : given[i] = p}
           Rest == IndicesOf(given, p) \ Gone
           Moved == [j \in IndicesOf(ids, p) |-> IF j < first THEN j ELSE j + n]
<1>5. /\ IsFiniteSet(IndicesOf(given, p))
      /\ BagOf(given)[p] = Cardinality(IndicesOf(given, p))
  BY BagCounts
<1>6. BagOf(ids)[p] = Cardinality(IndicesOf(ids, p))
  BY DEF BagOf, IndicesOf, Class!Page
<1>7. IsFiniteSet(IndicesOf(ids, p))
  <2>1. IsFiniteSet(1 .. Len(ids))
    BY <1>2, FS_Interval
  <2> QED  BY <1>2, <2>1, FS_Subset DEF IndicesOf
\* The indices that stay are the old ones outside the window, moved.
<1>8. Moved \in Bijection(IndicesOf(ids, p), Rest)
  <2>1. ASSUME NEW j \in IndicesOf(ids, p)
        PROVE  Moved[j] \in Rest
    <3>1. j \in 1 .. Len(ids) /\ ids[j] = p
      BY <1>2 DEF IndicesOf
    <3>2. CASE j < first
      <4>1. Moved[j] = j
        BY <3>2
      <4>2. given[j] = p
        BY <3>1, <3>2
      <4>3. j \in 1 .. Len(given) /\ j \notin first .. first + n - 1
        BY <1>1, <1>2, <3>1, <3>2
      <4> QED  BY <1>1, <4>1, <4>2, <4>3 DEF IndicesOf
    <3>3. CASE ~(j < first)
      <4>1. Moved[j] = j + n /\ given[j + n] = p
        BY <3>1, <3>3
      <4>2. j + n \in 1 .. Len(given) /\ j + n \notin first .. first + n - 1
        BY <1>1, <1>2, <3>1, <3>3
      <4> QED  BY <1>1, <4>1, <4>2 DEF IndicesOf
    <3> QED  BY <3>2, <3>3
  <2>2. ASSUME NEW i \in IndicesOf(ids, p), NEW j \in IndicesOf(ids, p), Moved[i] = Moved[j]
        PROVE  i = j
    <3>1. i \in 1 .. Len(ids) /\ j \in 1 .. Len(ids)
      BY <1>2 DEF IndicesOf
    <3>2. Moved[i] = (IF i < first THEN i ELSE i + n) /\ Moved[j] = (IF j < first THEN j ELSE j + n)
      OBVIOUS
    <3> HIDE DEF Moved
    <3>3. (IF i < first THEN i ELSE i + n) = (IF j < first THEN j ELSE j + n)
      BY <2>2, <3>2
    <3>4. i \in Int /\ j \in Int /\ first \in Int /\ n \in Int /\ n > 0
      BY <3>1
    <3>5. \A a, b, c, d \in Int :
            d > 0 /\ (IF a < c THEN a ELSE a + d) = (IF b < c THEN b ELSE b + d) => a = b
      OBVIOUS
    <3> QED  BY ONLY <3>3, <3>4, <3>5
  <2>3. ASSUME NEW r \in Rest
        PROVE  \E j \in IndicesOf(ids, p) : Moved[j] = r
    <3>1. r \in 1 .. Len(given) /\ given[r] = p /\ r \notin first .. first + n - 1
      BY <1>1 DEF IndicesOf
    <3>2. CASE r < first
      <4>1. r \in 1 .. Len(ids)
        BY <1>1, <1>2, <1>3, <3>1, <3>2
      <4>2. r \in IndicesOf(ids, p)
        BY <1>2, <3>1, <3>2, <4>1 DEF IndicesOf
      <4> QED  BY <3>2, <4>2
    <3>3. CASE ~(r < first)
      <4>1. PICK j \in Int : j = r - n
        BY <3>1
      <4>2. j \in 1 .. Len(ids) /\ ~(j < first) /\ j + n = r
        BY <1>1, <1>2, <1>3, <3>1, <3>3, <4>1
      <4>3. j \in IndicesOf(ids, p)
        BY <1>2, <3>1, <4>2 DEF IndicesOf
      <4> QED  BY <4>2, <4>3
    <3> QED  BY <3>2, <3>3
  <2> HIDE DEF Rest
  <2>4. Moved \in Surjection(IndicesOf(ids, p), Rest)
    <3>1. Moved \in [IndicesOf(ids, p) -> Rest]
      BY <2>1
    <3> HIDE DEF Moved
    <3> QED  BY <2>3, <3>1 DEF Surjection
  <2>5. Moved \in Injection(IndicesOf(ids, p), Rest)
    <3>1. Moved \in [IndicesOf(ids, p) -> Rest]
      BY <2>1
    <3> HIDE DEF Moved
    <3> QED  BY <2>2, <3>1 DEF Injection, IsInjective
  <2> QED  BY <2>4, <2>5 DEF Bijection
<1>9. Cardinality(IndicesOf(ids, p)) = Cardinality(Rest)
  BY <1>7, <1>8, FS_Bijection DEF ExistsBijection
<1>10. CASE p \in Class!Run(given[first], n)
  <2>1. given[first] \in Nat /\ given[first] <= p /\ p < given[first] + n
    BY <1>1, <1>10 DEF Class!Run
  <2>2. PICK w \in Int : w = first + (p - given[first])
    BY <1>2, <2>1
  <2>3. w \in first .. first + n - 1 /\ given[first] + (w - first) = p
    BY SMTT(40), <1>2, <2>1, <2>2
  <2>4. given[w] = p /\ w \in 1 .. Len(given)
    BY <1>1, <1>3, <1>4, <2>3
  <2>5. Gone = {w}
    <3>1. ASSUME NEW i \in first .. first + n - 1, given[i] = p PROVE i = w
      <4>1. p = given[first] + (i - first)
        BY <1>4, <3>1
      <4> QED  BY <2>1, <2>3, <4>1
    <3> QED  BY <2>3, <2>4, <3>1
  <2>6. w \in IndicesOf(given, p) /\ Rest = IndicesOf(given, p) \ {w}
    BY <1>1, <2>4, <2>5 DEF IndicesOf
  <2> HIDE DEF Rest
  <2>7. Cardinality(Rest) = Cardinality(IndicesOf(given, p)) - 1
    BY <1>5, <2>6, FS_RemoveElement
  <2> QED  BY <1>5, <1>6, <1>9, <1>10, <2>7
<1>11. CASE p \notin Class!Run(given[first], n)
  <2>1. ASSUME NEW i \in first .. first + n - 1, given[i] = p
        PROVE  FALSE
    <3>1. p = given[first] + (i - first) /\ given[first] \in Nat
      BY <1>1, <1>4, <2>1
    <3>2. given[first] <= p /\ p < given[first] + n
      BY <3>1
    <3> QED  BY <1>11, <3>2 DEF Class!Run
  <2>2. Rest = IndicesOf(given, p)
    BY <2>1
  <2> QED  BY <1>5, <1>6, <1>9, <1>11, <2>2
<1> QED  BY <1>10, <1>11

LEMMA InvAgrees ==
  ASSUME ScanInv, pc = "returned"
  PROVE  /\ \A p \in Class!Page : Class!FirstRun(p, n) <=> result = p /\ result # 0
         /\ result # 0 =>
              /\ erased = Class!Run(result, n)
              /\ BagOf(ids) = [p \in Class!Page |->
                                 IF p \in erased THEN BagOf(given)[p] - 1 ELSE BagOf(given)[p]]
<1>1. given \in Lists /\ n \in Int /\ ids \in Seq(Nat) /\ result \in Nat /\ first \in Nat
  BY DEF ScanInv, ScanTypeOK
<1>2. /\ Len(given) \in Nat /\ DOMAIN given = 1 .. Len(given)
      /\ \A j \in 1 .. Len(given) : given[j] \in Nat /\ given[j] \in Class!Page
      /\ \A i, j \in 1 .. Len(given) : i <= j => given[i] <= given[j]
  BY <1>1, GivenShape
<1>3. CASE result = 0
  <2>1. ASSUME NEW p \in Class!Page, Class!FirstRun(p, n)
        PROVE  FALSE
    <3>1. Class!Contiguous(p, n)
      BY <2>1 DEF Class!FirstRun
    <3>2. n > 0
      BY <3>1 DEF Class!Contiguous
    <3>3. \E k \in 1 .. Len(given) : Window(given, k, n) /\ given[k] = p
      BY <1>1, <3>1, RunIsWindow
    <3> QED  BY <1>2, <1>3, <3>2, <3>3 DEF ScanInv, NotFound, Entries
  <2> QED  BY <1>3, <2>1
<1>4. CASE result # 0
  <2>1. /\ n > 0 /\ first \in 1 .. Len(given) /\ result = given[first]
        /\ Window(given, first, n)
        /\ \A j \in 1 .. Len(given) : Window(given, j, n) => first <= j
        /\ erased = {given[j] : j \in first .. first + n - 1}
        /\ Len(ids) = Len(given) - n
        /\ \A j \in 1 .. Len(ids) : ids[j] = given[IF j < first THEN j ELSE j + n]
    BY <1>2, <1>4 DEF ScanInv, Taken, Entries
  <2>2. /\ Class!Contiguous(result, n)
        /\ \A j \in first .. first + n - 1 : given[j] = given[first] + (j - first)
    BY <1>1, <2>1, WindowIsRun
  <2>3. ASSUME NEW p \in Class!Page, Class!Contiguous(p, n)
        PROVE  result <= p
    <3>1. PICK k \in 1 .. Len(given) : Window(given, k, n) /\ given[k] = p
      BY <1>1, <2>3, RunIsWindow
    <3> QED  BY <1>2, <2>1, <3>1
  <2>4. ASSUME NEW p \in Class!Page
        PROVE  Class!FirstRun(p, n) <=> result = p /\ result # 0
    <3>1. result \in Class!Page /\ p \in Nat
      BY <1>2, <2>1, MCAllocateScanAssumption DEF Class!Page
    <3>2. Class!FirstRun(p, n) => p = result
      <4>1. Class!FirstRun(p, n) => p <= result /\ result <= p
        BY <2>2, <2>3, <3>1 DEF Class!FirstRun
      <4> QED  BY <1>1, <3>1, <4>1
    <3>3. Class!FirstRun(result, n)
      BY <2>2, <2>3 DEF Class!FirstRun
    <3> QED  BY <1>4, <3>2, <3>3
  <2>5. erased = Class!Run(result, n)
    <3>1. ASSUME NEW j \in first .. first + n - 1
          PROVE  given[j] \in Class!Run(result, n)
      <4>1. first + n - 1 <= Len(given)
        BY <2>1 DEF Window
      <4>2. j \in 1 .. Len(given) /\ given[j] = result + (j - first) /\ given[j] \in Class!Page
        BY <1>1, <1>2, <2>1, <2>2, <4>1
      <4>3. result <= given[j] /\ given[j] < result + n
        BY <1>1, <4>2
      <4> QED  BY <4>2, <4>3 DEF Class!Run
    <3>2. ASSUME NEW q \in Class!Run(result, n)
          PROVE  \E j \in first .. first + n - 1 : given[j] = q
      <4>1. q \in Nat /\ result <= q /\ q < result + n
        BY MCAllocateScanAssumption DEF Class!Run, Class!Page
      <4>2. PICK j \in Int : j = first + (q - result)
        BY <1>1, <4>1
      <4>3. j \in first .. first + n - 1 /\ result + (j - first) = q
        BY <1>1, <4>1, <4>2
      <4> QED  BY <2>1, <2>2, <4>3
    <3> QED  BY SMTT(40), <2>1, <3>1, <3>2
  <2>6. BagOf(ids) = [p \in Class!Page |->
                        IF p \in erased THEN BagOf(given)[p] - 1 ELSE BagOf(given)[p]]
    <3>1. \A p \in Class!Page : BagOf(ids)[p] =
             IF p \in Class!Run(given[first], n) THEN BagOf(given)[p] - 1 ELSE BagOf(given)[p]
      BY <1>1, <2>1, RestOfBag
    <3>2. BagOf(ids) = [p \in Class!Page |-> BagOf(ids)[p]]
      BY DEF BagOf, Class!Page
    <3> QED  BY <2>1, <2>5, <3>1, <3>2, Zenon
  <2> QED  BY <2>4, <2>5, <2>6
<1> QED  BY <1>3, <1>4

\* How the loop ends: only a block that is found changes anything, and it has seen the
\* least id of the vector unless that is empty.
EndInv ==
  /\ pc # "returned" \/ result = 0 => ids = given /\ erased = {}
  /\ pc = "thrown" => \E j \in 1 .. Len(given) : given[j] <= 1
  /\ pc = "returned" /\ Len(given) > 0 => given[1] > 1

LEMMA EndStep == ScanInv /\ EndInv /\ [ScanNext]_scanVars => EndInv'
<1> SUFFICES ASSUME ScanInv, EndInv, [ScanNext]_scanVars PROVE EndInv'
  OBVIOUS
<1>1. /\ Len(given) \in Nat /\ \A j \in 1 .. Len(given) : given[j] \in Nat
      /\ iter \in Nat \ {0} /\ result \in Nat
      /\ pc = "scan" => LoopInv
  BY EntriesAreNat DEF ScanInv, ScanTypeOK
<1>2. ASSUME pc = "scan"
      PROVE  /\ ids = given /\ result = 0 /\ erased = {}
             /\ iter > 1 => given[1] > 1
  <2>1. LoopInv
    BY <1>1, <1>2
  <2>2. iter > 1 => 1 \in 1 .. iter - 1
    BY <1>1
  <2> QED  BY <1>2, <2>1, <2>2 DEF LoopInv, EndInv
<1>3. CASE GiveUp
  <2>1. /\ pc = "scan" /\ iter > Len(given) /\ pc' = "returned"
        /\ UNCHANGED <<given, ids, result, erased>>
    BY <1>2, <1>3 DEF GiveUp
  <2>2. Len(given) > 0 => iter > 1
    BY <1>1, <2>1
  <2> QED  BY <1>2, <2>1, <2>2 DEF EndInv
<1>4. CASE Throw
  <2>1. /\ pc = "scan" /\ iter <= Len(given) /\ given[iter] <= 1 /\ pc' = "thrown"
        /\ UNCHANGED <<given, ids, result, erased>>
    BY <1>2, <1>4 DEF Throw
  <2>2. iter \in 1 .. Len(given)
    BY <1>1, <2>1
  <2> QED  BY <1>2, <2>1, <2>2 DEF EndInv
<1>5. CASE Found
  <2>1. /\ pc = "scan" /\ given[iter] > 1 /\ pc' = "returned" /\ given' = given
        /\ first' = WindowStart /\ result' = given[WindowStart] /\ iter <= Len(given)
    BY <1>2, <1>5 DEF Found
  <2>2. given[1] > 1
    BY <1>1, <1>2, <2>1
  <2>3. result' # 0
    <3>1. /\ LoopInv /\ first \in Nat \ {0}
      BY <1>1, <2>1 DEF ScanInv, ScanTypeOK
    <3>2. WindowStart \in 1 .. iter
      BY <1>1, <3>1 DEF WindowStart, LoopInv
    <3>3. \A j \in 1 .. iter : given[j] > 1
      BY <1>1, <2>1, <3>1 DEF LoopInv
    <3> QED  BY <2>1, <3>2, <3>3
  <2> QED  BY <2>1, <2>2, <2>3 DEF EndInv
<1>6. CASE Advance
  BY <1>6 DEF Advance, EndInv
<1>7. CASE UNCHANGED scanVars
  BY <1>7 DEF scanVars, EndInv
<1> QED  BY <1>3, <1>4, <1>5, <1>6, <1>7 DEF ScanNext

LEMMA EndAgrees == ScanInv /\ EndInv => ScanIsAllocate
<1> SUFFICES ASSUME ScanInv, EndInv PROVE ScanIsAllocate
  OBVIOUS
<1>1. given \in Lists
  BY DEF ScanInv
<1>2. /\ Len(given) \in Nat
      /\ \A j \in 1 .. Len(given) : given[j] \in Nat /\ given[j] \in Class!Page
      /\ \A i, j \in 1 .. Len(given) : i <= j => given[i] <= given[j]
  BY <1>1, GivenShape
<1>3. ASSUME NEW q \in Class!Page
      PROVE  BagOf(given)[q] # 0 <=> \E i \in 1 .. Len(given) : given[i] = q
  <2>1. /\ BagOf(given)[q] \in Nat
        /\ BagOf(given)[q] > 0 <=> \E i \in 1 .. Len(given) : given[i] = q
    BY <1>1, BagCounts
  <2> QED  BY <2>1
<1>4. pc = "thrown" => Reserved
  BY <1>2, <1>3 DEF EndInv, Reserved
<1>5. ASSUME pc = "returned" PROVE ~Reserved
  <2>1. ASSUME NEW i \in 1 .. Len(given), given[i] <= 1 PROVE FALSE
    <3>1. given[1] > 1 /\ given[1] <= given[i] /\ given[1] \in Nat /\ given[i] \in Nat
      BY <1>2, <1>5 DEF EndInv
    <3> QED  BY <2>1, <3>1
  <2> QED  BY <1>3, <2>1 DEF Reserved
<1>6. pc = "thrown" \/ (pc = "returned" /\ result = 0) => ids = given /\ erased = {}
  BY DEF EndInv
<1> QED  BY <1>4, <1>5, <1>6, InvAgrees DEF ScanIsAllocate

\* Every call of the loop ends as the one step FreeList!AllocateContiguous does: it
\* throws if and only if a reserved id keeps that step from being taken, and otherwise
\* finds a block if and only if the step does, the same one, and leaves the same ids_ and
\* cache_ (freelist.cpp 31-71); for sorted vectors of every length over files of every size.
THEOREM ScanAgrees == ScanSpec => []ScanIsAllocate
<1>1. ScanInit => EndInv
  BY DEF ScanInit, EndInv
<1> QED  BY <1>1, ScanInvariance, EndStep, EndAgrees, PTL DEF ScanSpec
=============================================================================
