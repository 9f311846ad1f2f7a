---------------------------- MODULE ClassicalViews ----------------------------
(***************************************************************************)
(* The views of the classical signing keys: Ed25519, secp256k1, the NIST   *)
(* curves, RSA, BLS12-381 with its key shares, and X25519, whose keys sign *)
(* through XEdDSA (src/src/views/{ed25519,secp256k1,nist_p,rsa,bls12381,   *)
(* x25519,xeddsa}.rs).  Attr stands for AttrView and DataView, Public for  *)
(* to_public_key, Verifies for verify returning Ok.                        *)
(***************************************************************************)
EXTENDS KeyForms

\* Ed25519.
Ed25519Attr(k)        == Aware(k)
Ed25519Public(k)      == Derived(Ed25519Attr(k), k)
Ed25519Form(k)        == PublicForm(Ed25519Attr(k), Ed25519Public(k), k)
Ed25519Fingerprint(k) == Fingerprint(Ed25519Attr(k), Ed25519Public(k), k)
Ed25519SshPublic(k)   == SshPublic(Ed25519Form(k))
Ed25519SshPrivate(k)  == SshPrivate(Ed25519Attr(k), k)
Ed25519Sign(k, m, combined, call) ==
  SignedWith(Ed25519Attr(k), k, Plain(k.origin, m, call), m, combined)
Ed25519Verifies(k, s, arg) == VerifiesPlain(Ed25519Form(k), s, arg)

\* secp256k1, ECDSA.
Secp256k1Attr(k)        == Aware(k)
Secp256k1Public(k)      == Derived(Secp256k1Attr(k), k)
Secp256k1Form(k)        == PublicForm(Secp256k1Attr(k), Secp256k1Public(k), k)
Secp256k1Fingerprint(k) == Fingerprint(Secp256k1Attr(k), Secp256k1Public(k), k)
Secp256k1SshPublic(k)   == SshPublic(Secp256k1Form(k))
Secp256k1SshPrivate(k)  == SshPrivate(Secp256k1Attr(k), k)
Secp256k1Sign(k, m, combined, call) ==
  SignedWith(Secp256k1Attr(k), k, Plain(k.origin, m, call), m, combined)
Secp256k1Verifies(k, s, arg) == VerifiesPlain(Secp256k1Form(k), s, arg)

\* P-256, P-384 and P-521, ECDSA.
NistPAttr(k)        == Aware(k)
NistPPublic(k)      == Derived(NistPAttr(k), k)
NistPForm(k)        == PublicForm(NistPAttr(k), NistPPublic(k), k)
NistPFingerprint(k) == Fingerprint(NistPAttr(k), NistPPublic(k), k)
NistPSshPublic(k)   == SshPublic(NistPForm(k))
NistPSshPrivate(k)  == SshPrivate(NistPAttr(k), k)
NistPSign(k, m, combined, call) ==
  SignedWith(NistPAttr(k), k, Plain(k.origin, m, call), m, combined)
NistPVerifies(k, s, arg) == VerifiesPlain(NistPForm(k), s, arg)

\* RSA, PKCS #1 v1.5 signatures.
RsaAttr(k)        == Aware(k)
RsaPublic(k)      == Derived(RsaAttr(k), k)
RsaForm(k)        == PublicForm(RsaAttr(k), RsaPublic(k), k)
RsaFingerprint(k) == Fingerprint(RsaAttr(k), RsaPublic(k), k)
RsaSshPublic(k)   == SshPublic(RsaForm(k))
RsaSshPrivate(k)  == SshPrivate(RsaAttr(k), k)
RsaSign(k, m, combined, call) ==
  SignedWith(RsaAttr(k), k, Plain(k.origin, m, call), m, combined)
RsaVerifies(k, s, arg) == VerifiesPlain(RsaForm(k), s, arg)
-----------------------------------------------------------------------------
(***************************************************************************)
(* BLS12-381.  Shares are secret keys too, but a public share is no public *)
(* key.  A share signs and converts only with its parameters, which its    *)
(* public form and its signatures repeat; the parameters themselves are    *)
(* followed in BlsThreshold.                                               *)
(***************************************************************************)
BlsAttr(k) == Attr(k, TRUE, {"Priv", "PrivShare"}, {"Pub"})

\* The secret can be built: a share needs its threshold and limit in the open.
BlsUsable(k) == Usable(BlsAttr(k), k) /\ (k.role = "PrivShare" => k.share)

BlsPublic(k) ==
  IF ~ BlsUsable(k) THEN None
  ELSE IF k.role = "Priv" THEN PublicOf(k)
  ELSE Multikey(k.family, "PubShare", k.origin, TRUE)

\* ThresholdView::split: a share, of origin o, with its parameters.
BlsShare(k, o) ==
  IF k.role = "Priv" /\ BlsUsable(k) THEN Multikey(k.family, "PrivShare", o, TRUE) ELSE None

BlsForm(k)        == PublicForm(BlsAttr(k), BlsPublic(k), k)
BlsFingerprint(k) == Fingerprint(BlsAttr(k), BlsPublic(k), k)

\* The algorithm says whether it is a share, whose parameters go with it.
BlsSshPublic(k) ==
  LET p == BlsForm(k) IN IF p = None \/ (p.role = "PubShare" /\ ~ p.share) THEN None ELSE SshFile(p)

BlsSshPrivate(k) == IF BlsUsable(k) THEN SshFile(k) ELSE None

\* The scheme is asked for, and is an attribute of the signature.
BlsSign(k, m, combined, call, scheme) ==
  IF scheme \in Schemes /\ BlsUsable(k)
  THEN Signature(<<Half(k.origin, m, call, None, scheme)>>, m, combined, scheme,
                 k.role = "PrivShare")
  ELSE None

\* A public share needs its own identifier, which it has even where it hides
\* its threshold, and that of the signature, which it does not compare.
BlsVerifies(k, s, arg) ==
  LET p == BlsForm(k)
  IN /\ p # None
     /\ s.scheme \in Schemes
     /\ \/ p.role = "Pub"
        \/ p.role = "PubShare" /\ s.share
     /\ Effective(s, arg) # None
     /\ Len(s.halves) = 1
     /\ Checks(s.halves[1], p.origin, Effective(s, arg), None, s.scheme)
-----------------------------------------------------------------------------
\* X25519.  The dispatcher answers with x25519::View for attributes, data,
\* conversion and fingerprint, and with xeddsa::View for signatures.
X25519Attr(k)        == Unaware(k)
X25519Public(k)      == Derived(X25519Attr(k), k)
X25519Form(k)        == PublicForm(X25519Attr(k), X25519Public(k), k)
X25519Fingerprint(k) == Fingerprint(X25519Attr(k), X25519Public(k), k)

\* Only challenges of 32 bytes are signed.
XEdDsaSign(k, m, combined, call) ==
  IF m \in Challenges
  THEN SignedWith(X25519Attr(k), k, Plain(k.origin, m, call), m, combined)
  ELSE None

\* Keys made by key generation lift to the prime-order subgroup.
XEdDsaVerifies(k, s, arg) ==
  VerifiesPlain(X25519Form(k), s, arg) /\ Effective(s, arg) \in Challenges
=============================================================================
