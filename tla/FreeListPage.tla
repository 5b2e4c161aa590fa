---------------------------- MODULE FreeListPage ----------------------------
(***************************************************************************)
(* The format of the freelist page, word by word: FreeList::write_to,      *)
(* byte_size and read_from (src/page/freelist.cpp 18-28, 144-196), as      *)
(* operators on a list of page ids and on a page.                          *)
(*                                                                         *)
(* A word is one PageID.  The header's 16 bit count cannot hold            *)
(* kSpecialCount (0xFFFF) or more; a small SpecialCount stands in for it,  *)
(* so that both forms of the page fit into a few words.                    *)
(***************************************************************************)
EXTENDS Naturals, Sequences

CONSTANTS SpecialCount,   \* kSpecialCount
          SizeofPageID,   \* sizeof(PageID), 8
          Words           \* the number of words the page's memory has

ASSUME FreeListPageAssumption ==
  /\ SpecialCount \in Nat \ {0}
  /\ SizeofPageID \in Nat \ {0}
  /\ Words \in Nat

WordIndex == 0 .. Words - 1
BlankPage(word) == [count |-> 0, words |-> [w \in WordIndex |-> word]]

\* Faulty variant of ByteSize: the pending pages are not counted.
ByteSizeFreeOnly(free, pend) == free

\* byte_size() of a list with so many free and pending ids, in words after the
\* page header.
ByteSize(free, pend) ==
  IF free + pend >= SpecialCount THEN free + pend + 1 ELSE free + pend

\* Where write_to puts the first id: `first = std::next(first, sizeof(PageID))`
\* moves a PageID pointer, so it skips sizeof(PageID) words.
FirstWord(n) == IF n < SpecialCount THEN 0 ELSE SizeofPageID

\* The words write_to stores to.
Stored(n) ==
  FirstWord(n) .. (FirstWord(n) + n - 1) \cup (IF n >= SpecialCount THEN {0} ELSE {})

\* write_to of the sorted ids to a page that holds something else.
WriteIds(pgids, page) ==
  LET n == Len(pgids)
  IN  [count |-> IF n < SpecialCount THEN n ELSE SpecialCount,
       words |-> [w \in WordIndex |->
                    IF w - FirstWord(n) + 1 \in DOMAIN pgids THEN pgids[w - FirstWord(n) + 1]
                    ELSE IF w \in Stored(n) THEN n
                    ELSE page.words[w]]]

\* Faulty variant of ReadIds: the last id is left behind.
ReadOneShort(page) == [k \in 1 .. page.count - 1 |-> page.words[k - 1]]

\* read_from moves a Byte pointer by sizeof(PageID): it skips one word.
ReadIds(page) ==
  IF page.count = SpecialCount
  THEN [k \in 1 .. page.words[0] |-> page.words[k]]
  ELSE [k \in 1 .. page.count |-> page.words[k - 1]]
=============================================================================
