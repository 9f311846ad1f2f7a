--------------------------- MODULE MCThresholdMarker ---------------------------
(***************************************************************************)
(* The marker for TLC: two controllers, two meta keys, a registry that is  *)
(* too large, and a value that does not fit the width.                     *)
(***************************************************************************)
EXTENDS ThresholdMarker

MCFamilies == {"Ed25519", "X25519", "Bls", "BlsMlDsa65"}
MCMessages == Bundles \cup {Empty}
=============================================================================
