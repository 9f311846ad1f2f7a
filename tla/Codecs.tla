-------------------------------- MODULE Codecs --------------------------------
(***************************************************************************)
(* Codecs of Multikeys: a family and a role (src/src/mk.rs, and the arms   *)
(* of src/src/views/dispatch.rs).  The parameter sets of a family (curves, *)
(* key sizes, digests), whose arms differ in names and lengths only, are   *)
(* one family.                                                             *)
(***************************************************************************)

CONSTANT None  \* no value: an error, an absent argument or attribute

HybridFamilies == {"Ed25519MlDsa65", "Ed25519FnDsa512", "Ed25519Mayo2", "BlsMlDsa65",
                   "BlsFnDsa512", "BlsMayo1", "BlsMayo2"}

PostQuantum == {"MlDsa", "FnDsa", "Mayo", "SlhDsa"}

SigningFamilies ==
  {"Ed25519", "Secp256k1", "NistP", "Rsa", "Bls", "X25519", "Lamport"} \cup PostQuantum
    \cup HybridFamilies

KemFamilies == {"MlKem", "Sntrup", "FrodoKem", "ClassicMceliece"}

HybridKems == {"X25519MlKem768", "X25519Sntrup761", "X25519FrodoKem640", "X25519Mceliece348864"}

SealingFamilies == {"Bls", "X25519", "Rsa", "NistP", "Secp256k1"} \cup KemFamilies \cup HybridKems

\* Families of the keys that have bytes of a key pair.
Families == SigningFamilies \cup SealingFamilies
Roles    == {"Priv", "Pub", "PrivShare", "PubShare"}

Codec(f, r) == [family |-> f, role |-> r]

\* Key pairs of a set of families.
Pairs(F) == [family : F, role : {"Priv", "Pub"}]

\* The families whose keys are followed elsewhere, and "Custom", a codec that
\* the crate has no view for.
StatefulFamilies == {"LamportMerkle", "Xmss"}
OneTime          == {"Lamport", "LamportMerkle"}
Parameters       == {Codec("Chacha20", "Param"), Codec("Bcrypt", "Param")}
DkgShare         == Codec("Dkg", "PrivShare")
CustomKey        == Codec("Custom", "Priv")

AllCodecs == Pairs(Families \cup StatefulFamilies) \cup [family : {"Bls"}, role : Roles]
               \cup [family : OneTime, role : {"PrivShare"}]
               \cup Parameters \cup {DkgShare, CustomKey}
=============================================================================
