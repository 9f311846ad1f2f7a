------------------------------ MODULE MCKeyViews ------------------------------
(***************************************************************************)
(* Key forms for TLC: two keys and a share of each family, a message that  *)
(* is a challenge, one that is not, and the empty one.                     *)
(***************************************************************************)
EXTENDS KeyViews

MCOrigins == Generated \cup Shares
MCFamilies == Families
=============================================================================
