------------------------------- MODULE MCSealing -------------------------------
(***************************************************************************)
(* Sealing for TLC: two holders, two calls of seal, every sealing family.  *)
(***************************************************************************)
EXTENDS Sealing

MCFamilies == SealingFamilies
MCAeads    == {"AesGcm256", "Chacha20Poly1305"}
=============================================================================
