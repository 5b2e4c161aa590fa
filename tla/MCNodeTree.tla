----------------------------- MODULE MCNodeTree -----------------------------
(* NodeTree over a tree of three levels with an empty leaf, or the empty   *)
(* leaf of a new database.  Keys 1 and 2 have one size.                    *)
EXTENDS NodeTree

MCKey == 1 .. 3
MCKeySize == [k \in MCKey |-> IF k = 3 THEN 2 ELSE 1]

MCLeaf(k, value) == [key |-> k, value |-> value, pgid |-> 0]
MCBranch(k, p) == [key |-> k, value |-> NoValue, pgid |-> p]

MCPageAt ==
  [p \in {3, 4, 5, 6, 7, 8} |->
     CASE p = 3 -> [leaf |-> FALSE, inodes |-> <<MCBranch(1, 4), MCBranch(2, 6), MCBranch(3, 5)>>]
       [] p = 5 -> [leaf |-> TRUE, inodes |-> <<MCLeaf(3, "v")>>]
       [] p = 6 -> [leaf |-> FALSE, inodes |-> <<MCBranch(2, 7)>>]
       [] p = 7 -> [leaf |-> TRUE, inodes |-> <<MCLeaf(2, "v"), MCLeaf(1, "")>>]
       [] p \in {4, 8} -> [leaf |-> TRUE, inodes |-> <<>>]]
=============================================================================
