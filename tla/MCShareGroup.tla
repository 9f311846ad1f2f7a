---------------------------- MODULE MCShareGroup ----------------------------
(***************************************************************************)
(* Instances of ShareGroup for TLC.                                        *)
(***************************************************************************)
EXTENDS ShareGroup, TLC

\* A fresh key, and one that has signed already.
FreshAndUsed ==
  {NewWithDepth(d) : d \in MerkleDepths}
    \cup {[NewWithDepth(d) EXCEPT !.data.next = 1, !.data.blocks = @ - 1] : d \in MerkleDepths}

Interchangeable == Permutations(Holders) \cup Permutations(Msgs)
=============================================================================
