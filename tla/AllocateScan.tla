---------------------------- MODULE AllocateScan ----------------------------
(***************************************************************************)
(* The loop of FreeList::allocate_contiguous (src/page/freelist.cpp 31-71) *)
(* over the sorted vector ids_, one iteration per step.  FreeList has the  *)
(* whole call as one step on a bag; the invariants here say that the loop  *)
(* computes that step.                                                     *)
(***************************************************************************)
EXTENDS Integers, Sequences

CONSTANTS Lists,     \* the contents ids_ may have: sorted vectors
          Lengths    \* the block lengths callers ask for

Sorted(s) == \A i, j \in DOMAIN s : i <= j => s[i] <= s[j]

ASSUME ScanAssumption ==
  /\ Lists \subseteq Seq(Nat)
  /\ \A s \in Lists : Sorted(s)
  /\ Lengths \subseteq Int

VARIABLES given,    \* ids_ at the call
          ids,      \* ids_
          n,        \* the parameter
          iter,     \* the index the iterator stands for, from 1
          first,    \* the index of the window's first element
          prev_id,
          result,   \* the value returned
          erased,   \* the ids the call removes from cache_
          pc        \* "scan", "returned" or "thrown"

scanVars == <<given, ids, n, iter, first, prev_id, result, erased, pc>>

ScanInit ==
  /\ given \in Lists
  /\ ids = given
  /\ n \in Lengths
  /\ iter = 1
  /\ first = 1
  /\ prev_id = 0
  /\ result = 0
  /\ erased = {}
  /\ pc = "scan"

\* Faulty variant of GiveUp: the last element is not looked at.
GiveUpEarly ==
  /\ pc = "scan"
  /\ iter >= Len(ids)
  /\ pc' = "returned"
  /\ UNCHANGED <<given, ids, n, iter, first, prev_id, result, erased>>

\* The loop ends, or the vector was empty.
GiveUp ==
  /\ pc = "scan"
  /\ iter > Len(ids)
  /\ pc' = "returned"
  /\ UNCHANGED <<given, ids, n, iter, first, prev_id, result, erased>>

Throw ==
  /\ pc = "scan"
  /\ iter <= Len(ids)
  /\ ids[iter] <= 1
  /\ pc' = "thrown"
  /\ UNCHANGED <<given, ids, n, iter, first, prev_id, result, erased>>

\* Faulty variant of WindowStart: a gap does not restart the window.
WindowNeverRestarts == first

\* Where the window starts once the iterator's element is looked at.
WindowStart == IF ids[iter] - prev_id # 1 THEN iter ELSE first

\* Faulty variant of Found: the erased range stops before the iterator.
FoundErasesShort ==
  /\ pc = "scan"
  /\ iter <= Len(ids)
  /\ ids[iter] > 1
  /\ iter - WindowStart + 1 = n
  /\ first' = WindowStart
  /\ result' = ids[WindowStart]
  /\ ids' = SubSeq(ids, 1, WindowStart - 1) \o SubSeq(ids, iter, Len(ids))
  /\ erased' = {ids[WindowStart] + j : j \in 0 .. n - 1}
  /\ pc' = "returned"
  /\ UNCHANGED <<given, n, iter, prev_id>>

\* The window has n elements: it is erased and its first id returned.
Found ==
  /\ pc = "scan"
  /\ iter <= Len(ids)
  /\ ids[iter] > 1
  /\ iter - WindowStart + 1 = n
  /\ first' = WindowStart
  /\ result' = ids[WindowStart]
  /\ ids' = SubSeq(ids, 1, WindowStart - 1) \o SubSeq(ids, iter + 1, Len(ids))
  /\ erased' = {ids[WindowStart] + j : j \in 0 .. n - 1}
  /\ pc' = "returned"
  /\ UNCHANGED <<given, n, iter, prev_id>>

Advance ==
  /\ pc = "scan"
  /\ iter <= Len(ids)
  /\ ids[iter] > 1
  /\ iter - WindowStart + 1 # n
  /\ first' = WindowStart
  /\ prev_id' = ids[iter]
  /\ iter' = iter + 1
  /\ UNCHANGED <<given, ids, n, result, erased, pc>>

ScanNext == GiveUp \/ Throw \/ Found \/ Advance

ScanSpec == ScanInit /\ [][ScanNext]_scanVars

-----------------------------------------------------------------------------
\* n entries in a row, from index k on, whose ids grow by one.
Window(s, k, len) ==
  /\ 1 <= k /\ k + len - 1 <= Len(s)
  /\ \A j \in k .. k + len - 2 : s[j + 1] = s[j] + 1

Entries == DOMAIN given

\* A block that is returned is the first window of n entries in the list: every
\* other one starts later.
FirstFit ==
  pc = "returned" /\ result # 0 =>
    \E k \in Entries :
      /\ result = given[k]
      /\ Window(given, k, n)
      /\ \A j \in Entries : Window(given, j, n) => k <= j

\* 0 is returned only if the list has no n pages in a row and is then untouched.
NotFound ==
  pc = "returned" /\ result = 0 /\ n > 0 =>
    /\ \A k \in Entries : ~Window(given, k, n)
    /\ ids = given

\* The ids that leave cache_ (computed by counting up from the first id) are the
\* ids that leave ids_ (an index range): the two containers stay in step.
ErasedTogether ==
  pc = "returned" /\ result # 0 =>
    /\ Len(ids) = Len(given) - n
    /\ \E k \in Entries : /\ erased = {given[j] : j \in k .. k + n - 1}
                          /\ \A j \in 1 .. Len(ids) :
                               ids[j] = given[IF j < k THEN j ELSE j + n]

\* The three of them: the loop finds the first block there is, finds one if there is
\* one, and takes it out of the list and out of the cache alike (freelist.cpp 31-71).
ScanCorrect == FirstFit /\ NotFound /\ ErasedTogether

=============================================================================
