----------------------------- MODULE MCNodeSplit -----------------------------
(* NodeSplit with the thresholds of a page of 10: the smallest, the default   *)
(* and the largest fill percent, and the negative one a fill percent that is  *)
(* not a number gives.                                                        *)
EXTENDS NodeSplit

MCThresholds == {-1, 1, 5, 10}
=============================================================================
