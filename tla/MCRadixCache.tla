---------------------------- MODULE MCRadixCache ----------------------------
(***************************************************************************)
(* Instances of RadixCache for TLC.                                        *)
(***************************************************************************)
EXTENDS RadixCache

\* Keys that extend one another and part in the middle: every kind of walk
\* (miss, inside an edge, at a node, whole key) happens.
BranchingKeys == {<<1>>, <<1, 1, 1>>, <<1, 1, 2>>, <<1, 2>>, <<2, 1>>}

=============================================================================
