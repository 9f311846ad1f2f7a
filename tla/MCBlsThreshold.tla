--------------------------- MODULE MCBlsThreshold ---------------------------
(***************************************************************************)
(* Small instances of BlsThreshold.                                        *)
(***************************************************************************)
EXTENDS BlsThreshold, TLC

CONSTANTS k1, k2, s1, s2

\* One key split twice, 2-of-3 and 2-of-2: the same secret on two polynomials,
\* whose holders carry the same identifiers.
MCDealings ==
  {[id |-> 1, curve |-> "G1", secret |-> s1, threshold |-> 2, limit |-> 3],
   [id |-> 2, curve |-> "G1", secret |-> s1, threshold |-> 2, limit |-> 2]}

MCMetaKeys == {k1, k2}
MCSymmetry == Permutations(MCMetaKeys)
=============================================================================
