----------------------------- MODULE MCKeyVault -----------------------------
(***************************************************************************)
(* Small instances of KeyVault.                                            *)
(***************************************************************************)
EXTENDS KeyVault

Key(f, r, nonce, salt) ==
  [family |-> f, role |-> r, layers |-> <<>>, encrypted |-> FALSE, nonce |-> nonce, salt |-> salt]

\* A signing key, a cipher key with parameters of its own, a key of a family
\* that does not read the attribute, and a public key.
MCStartKeys == {Key("Ed25519", "Secret", Absent, Absent),
                Key("Chacha20", "Secret", "n1", "s1"),
                Key("MlDsa", "Secret", Absent, Absent),
                Key("Ed25519", "Public", Absent, Absent)}
=============================================================================
