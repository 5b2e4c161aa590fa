----------------------------- MODULE MCNodePage -----------------------------
(* NodePage with keys and values of at most two bytes, one key a prefix of   *)
(* another, and pages that held something else.                              *)
EXTENDS NodePage

MCKeys == {<<1>>, <<2>>, <<1, 2>>}
MCValues == {<<>>, <<2>>, <<2, 1>>}
=============================================================================
