---------------------------- MODULE MCNodeChoice ----------------------------
(* NodeChoice with two local and two public nodes: one more than most       *)
(* chains try.                                                              *)
EXTENDS NodeChoice

CONSTANTS l1, l2, p1, p2, e1, e2

=============================================================================
