--------------------------- MODULE MCAllocateScan ---------------------------
(* AllocateScan over every sorted vector of a few ids, and the link to the   *)
(* one-step AllocateContiguous of FreeList.                                  *)
EXTENDS AllocateScan, FiniteSets

CONSTANT MaxPage     \* the last page id of the file the ids are from

ASSUME MCAllocateScanAssumption ==
  /\ MaxPage \in Nat
  /\ \A s \in Lists : \A i \in DOMAIN s : s[i] <= MaxPage

MCMaxLen == 5

MCLists ==
  {s \in UNION {[1 .. l -> 0 .. MaxPage] : l \in 0 .. MCMaxLen} : Sorted(s)}
MCLengths == 0 .. 4

BagOf(s) == [p \in 0 .. MaxPage |-> Cardinality({i \in DOMAIN s : s[i] = p})]
NonePending == [t \in 0 .. 0 |-> [p \in 0 .. MaxPage |-> 0]]

Class == INSTANCE FreeList
           WITH MaxPage <- MaxPage, MaxTxn <- 0, MaxOverflow <- 0, MaxRun <- 4,
                ids <- BagOf(given), pending <- NonePending,
                cache <- 0 .. MaxPage, image <- BagOf(<<>>)

\* One of the meta pages is listed: FreeList!AllocateContiguous then takes no step.
Reserved == \E q \in Class!Page : q <= 1 /\ BagOf(given)[q] # 0

\* The loop and FreeList!AllocateContiguous agree.  The call throws if and only if that
\* step is refused for a reserved id, and has touched nothing then; when it returns, they
\* agree on whether there is a block, on its first page, and on what is left of ids_
\* and cache_ (freelist.cpp 31-71).
ScanIsAllocate ==
  /\ pc = "thrown" => Reserved
  /\ pc = "returned" =>
       /\ ~Reserved
       /\ \A p \in Class!Page : Class!FirstRun(p, n) <=> result = p /\ result # 0
       /\ result # 0 =>
            /\ erased = Class!Run(result, n)
            /\ BagOf(ids) = [p \in Class!Page |->
                               IF p \in erased THEN BagOf(given)[p] - 1 ELSE BagOf(given)[p]]
  /\ pc = "thrown" \/ (pc = "returned" /\ result = 0) => ids = given /\ erased = {}
=============================================================================
