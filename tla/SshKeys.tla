-------------------------------- MODULE SshKeys --------------------------------
(***************************************************************************)
(* Multikeys from OpenSSH keys: Builder::new_from_ssh_public_key,          *)
(* new_from_ssh_private_key and new_from_seed (src/src/mk.rs), an operator *)
(* for each arm.  The arms copy key bytes and comment, and a share's       *)
(* parameters; nothing is verified.                                        *)
(***************************************************************************)
EXTENDS KeyForms

\* Key bytes of the file under a codec of the same family.
Imported(x, role, share) == Multikey(x.ssh, role, x.origin, share)

\* Public keys.  A share's blob is taken apart into key bytes and parameters.
EcdsaPublicImport(x)     == Imported(x, "Pub", FALSE)
Secp256k1PublicImport(x) == Imported(x, "Pub", FALSE)
BlsPublicImport(x)       == Imported(x, IF x.part THEN "PubShare" ELSE "Pub", x.part)
MlDsaPublicImport(x)     == Imported(x, "Pub", FALSE)
FnDsaPublicImport(x)     == Imported(x, "Pub", FALSE)
SlhDsaPublicImport(x)    == Imported(x, "Pub", FALSE)
Ed25519PublicImport(x)   == Imported(x, "Pub", FALSE)

\* RSA and MAYO have names in SSH and are refused.
PublicImport(x) ==
  CASE x.ssh = "NistP"     -> EcdsaPublicImport(x)
    [] x.ssh = "Secp256k1" -> Secp256k1PublicImport(x)
    [] x.ssh = "Bls"       -> BlsPublicImport(x)
    [] x.ssh = "MlDsa"     -> MlDsaPublicImport(x)
    [] x.ssh = "FnDsa"     -> FnDsaPublicImport(x)
    [] x.ssh = "SlhDsa"    -> SlhDsaPublicImport(x)
    [] x.ssh = "Ed25519"   -> Ed25519PublicImport(x)
    [] OTHER               -> None

\* Private keys.
EcdsaPrivateImport(x)     == Imported(x, "Priv", FALSE)
Secp256k1PrivateImport(x) == Imported(x, "Priv", FALSE)
BlsPrivateImport(x)       == Imported(x, IF x.part THEN "PrivShare" ELSE "Priv", x.part)
MlDsaPrivateImport(x)     == Imported(x, "Priv", FALSE)
FnDsaPrivateImport(x)     == Imported(x, "Priv", FALSE)
SlhDsaPrivateImport(x)    == Imported(x, "Priv", FALSE)
Ed25519PrivateImport(x)   == Imported(x, "Priv", FALSE)

PrivateImport(x) ==
  CASE x.ssh = "NistP"     -> EcdsaPrivateImport(x)
    [] x.ssh = "Secp256k1" -> Secp256k1PrivateImport(x)
    [] x.ssh = "Bls"       -> BlsPrivateImport(x)
    [] x.ssh = "MlDsa"     -> MlDsaPrivateImport(x)
    [] x.ssh = "FnDsa"     -> FnDsaPrivateImport(x)
    [] x.ssh = "SlhDsa"    -> SlhDsaPrivateImport(x)
    [] x.ssh = "Ed25519"   -> Ed25519PrivateImport(x)
    [] OTHER               -> None

\* new_from_seed: an Ed25519 key by way of an SSH key; a seed is an origin.
SeedKey(f, seed) ==
  IF f = "Ed25519"
  THEN PrivateImport([ssh |-> f, secret |-> TRUE, origin |-> seed, part |-> FALSE])
  ELSE None
=============================================================================
