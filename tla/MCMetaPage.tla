----------------------------- MODULE MCMetaPage -----------------------------
(* MetaPage with the widths and the polynomial of the code.                  *)
EXTENDS MetaPage

MCPolynomial == {62, 57, 55, 54, 53, 52, 47, 46, 45, 40, 39, 38, 37, 35, 33, 32, 31, 29, 27,
                 24, 23, 22, 21, 19, 17, 13, 12, 10, 9, 7, 4, 1, 0}

\* The metas of two commits in a row, and one with every top bit set.
MCMeta(root, sequence, freelist, pgid, txid) ==
  [magic |-> kMagic, version |-> kVersion, page_size |-> {12}, flags |-> {}, root |-> root,
   sequence |-> sequence, freelist |-> freelist, pgid |-> pgid, txid |-> txid]
MCMetas ==
  { MCMeta({0, 1}, {}, {1}, {2}, {0}),
    MCMeta({2}, {0}, {0, 2}, {1, 2}, {1}),
    [MCMeta({63, 7}, {63}, {15, 31}, {63, 8}, {63, 0}) EXCEPT !.flags = {31}] }

\* One bit, the two ends of a checksum's width, and all of it.
MCBursts == {{0}, {0, 63}, 0 .. 63}
MCOsPageSizes == {{12}, {14}}
MCLeftover == {<<>>, <<{0, 7}, {3}>>}
=============================================================================
