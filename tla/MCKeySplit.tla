----------------------------- MODULE MCKeySplit -----------------------------
(***************************************************************************)
(* Small instances of KeySplit.                                            *)
(***************************************************************************)
EXTENDS KeySplit

Key(codec, form, secret) == [codec |-> codec, form |-> form, secret |-> secret]

\* A key of each scheme, an encrypted one of a family that does not read
\* KeyIsEncrypted, and three that split refuses.
MCKeys == {Key("P256Priv", "Secret", "k1"),
           Key("Ed25519Priv", "Secret", "k2"),
           Key("PostQuantumPriv", "Secret", "k3"),
           Key("PostQuantumPriv", "Encrypted", "k3"),
           Key("Ed25519Priv", "Encrypted", "k2"),
           Key("X25519Priv", "Encrypted", "k4"),
           Key("P256Priv", "Public", "k1")}
=============================================================================
