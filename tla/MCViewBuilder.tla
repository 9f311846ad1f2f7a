----------------------------- MODULE MCViewBuilder -----------------------------
(***************************************************************************)
(* The view builder for TLC: keys of families with and without built-in    *)
(* views, parameter keys, and keys that state ciphers and KDFs known,      *)
(* unknown and malformed; two factories.                                   *)
(***************************************************************************)
EXTENDS ViewBuilder

Stating(c, cipher, kdf) == [codec |-> c, cipher |-> cipher, kdf |-> kdf]

MCKeys ==
  {Stating(c, None, None) : c \in {CustomKey, DkgShare, Codec("Bls", "PubShare"),
      Codec("X25519", "Pub"), Codec("Xmss", "Priv"), Codec("LamportMerkle", "PrivShare"),
      Codec("MlKem", "Priv")} \cup Parameters}
    \cup {Stating(CustomKey, CustomKey, CustomKey),
          Stating(Codec("Ed25519", "Priv"), Codec("Chacha20", "Param"), Codec("Bcrypt", "Param")),
          Stating(Codec("Ed25519", "Priv"), Malformed, Malformed)}

MCLocalCodecs == {CustomKey, Codec("MlKem", "Priv")}
=============================================================================
