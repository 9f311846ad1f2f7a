------------------------------- MODULE SealViews -------------------------------
(***************************************************************************)
(* The sealing views: the KEMs and the X25519 hybrids with their keys, and *)
(* seal and open of the keys that also sign or agree on secrets            *)
(* (src/src/views/{ml_kem,sntrup,frodokem,classic_mceliece,x25519_*,       *)
(* x25519,secp256k1,nist_p,rsa,bls12381}.rs).  A family of keys that only  *)
(* seal has no SSH form, and its views do not read KeyIsEncrypted.         *)
(***************************************************************************)
EXTENDS ClassicalViews, SealForms

\* ML-KEM-768 and ML-KEM-1024.
MlKemAttr(k)        == Unaware(k)
MlKemPublic(k)      == Derived(MlKemAttr(k), k)
MlKemFingerprint(k) == Fingerprint(MlKemAttr(k), MlKemPublic(k), k)
MlKemAeads          == AeadCodecs \ {"AesGcm128"}
MlKemSeal(k, text, aead, aad, call) ==
  KemSeal(MlKemAttr(k), k, MlKemAeads, "MlKem", text, aead, aad, call)
MlKemOpen(k, frame, eph, aad) ==
  KemOpen(MlKemAttr(k), k, MlKemAeads, "MlKem", frame, aad)

\* Streamlined NTRU Prime, five sizes.
SntrupAttr(k)        == Unaware(k)
SntrupPublic(k)      == Derived(SntrupAttr(k), k)
SntrupFingerprint(k) == Fingerprint(SntrupAttr(k), SntrupPublic(k), k)
SntrupAeads          == AeadCodecs \ {"AesGcm128"}
SntrupSeal(k, text, aead, aad, call) ==
  KemSeal(SntrupAttr(k), k, SntrupAeads, "Sntrup", text, aead, aad, call)
SntrupOpen(k, frame, eph, aad) ==
  KemOpen(SntrupAttr(k), k, SntrupAeads, "Sntrup", frame, aad)

\* FrodoKEM, three sizes with AES and with SHAKE; the helper calls the library by them.
FrodoKemAttr(k)        == Unaware(k)
FrodoKemPublic(k)      == Derived(FrodoKemAttr(k), k)
FrodoKemFingerprint(k) == Fingerprint(FrodoKemAttr(k), FrodoKemPublic(k), k)
FrodoKemAeads          == AeadCodecs \ {"AesGcm128"}
FrodoKemSeal(k, text, aead, aad, call) ==
  KemSeal(FrodoKemAttr(k), k, FrodoKemAeads, "FrodoKem", text, aead, aad, call)
FrodoKemOpen(k, frame, eph, aad) ==
  KemOpen(FrodoKemAttr(k), k, FrodoKemAeads, "FrodoKem", frame, aad)

\* Classic McEliece 348864.
ClassicMcelieceAttr(k)        == Unaware(k)
ClassicMceliecePublic(k)      == Derived(ClassicMcelieceAttr(k), k)
ClassicMcelieceFingerprint(k) == Fingerprint(ClassicMcelieceAttr(k), ClassicMceliecePublic(k), k)
ClassicMcelieceAeads          == AeadCodecs \ {"AesGcm128"}
ClassicMcelieceSeal(k, text, aead, aad, call) ==
  KemSeal(ClassicMcelieceAttr(k), k, ClassicMcelieceAeads, "ClassicMceliece", text, aead, aad, call)
ClassicMcelieceOpen(k, frame, eph, aad) ==
  KemOpen(ClassicMcelieceAttr(k), k, ClassicMcelieceAeads, "ClassicMceliece", frame, aad)

-----------------------------------------------------------------------------
\* X25519 and ML-KEM-768.
X25519MlKem768Attr(k)        == Unaware(k)
X25519MlKem768Public(k)      == Derived(X25519MlKem768Attr(k), k)
X25519MlKem768Fingerprint(k) == Fingerprint(X25519MlKem768Attr(k), X25519MlKem768Public(k), k)
X25519MlKem768Seal(k, text, aead, aad, call) ==
  HybridSeal(X25519MlKem768Attr(k), k, "X25519MlKem768", text, aead, aad, call)
X25519MlKem768Open(k, frame, eph, aad) == HybridOpen(X25519MlKem768Attr(k), k, "X25519MlKem768", frame, aad)

\* X25519 and sntrup761.
X25519Sntrup761Attr(k)        == Unaware(k)
X25519Sntrup761Public(k)      == Derived(X25519Sntrup761Attr(k), k)
X25519Sntrup761Fingerprint(k) == Fingerprint(X25519Sntrup761Attr(k), X25519Sntrup761Public(k), k)
X25519Sntrup761Seal(k, text, aead, aad, call) ==
  HybridSeal(X25519Sntrup761Attr(k), k, "X25519Sntrup761", text, aead, aad, call)
X25519Sntrup761Open(k, frame, eph, aad) == HybridOpen(X25519Sntrup761Attr(k), k, "X25519Sntrup761", frame, aad)

\* X25519 and FrodoKEM-640, AES or SHAKE.
X25519FrodoKem640Attr(k)        == Unaware(k)
X25519FrodoKem640Public(k)      == Derived(X25519FrodoKem640Attr(k), k)
X25519FrodoKem640Fingerprint(k) == Fingerprint(X25519FrodoKem640Attr(k), X25519FrodoKem640Public(k), k)
X25519FrodoKem640Seal(k, text, aead, aad, call) ==
  HybridSeal(X25519FrodoKem640Attr(k), k, "X25519FrodoKem640", text, aead, aad, call)
X25519FrodoKem640Open(k, frame, eph, aad) == HybridOpen(X25519FrodoKem640Attr(k), k, "X25519FrodoKem640", frame, aad)

\* X25519 and Classic McEliece 348864.
X25519Mceliece348864Attr(k)        == Unaware(k)
X25519Mceliece348864Public(k)      == Derived(X25519Mceliece348864Attr(k), k)
X25519Mceliece348864Fingerprint(k) == Fingerprint(X25519Mceliece348864Attr(k), X25519Mceliece348864Public(k), k)
X25519Mceliece348864Seal(k, text, aead, aad, call) ==
  HybridSeal(X25519Mceliece348864Attr(k), k, "X25519Mceliece348864", text, aead, aad, call)
X25519Mceliece348864Open(k, frame, eph, aad) == HybridOpen(X25519Mceliece348864Attr(k), k, "X25519Mceliece348864", frame, aad)

-----------------------------------------------------------------------------
\* X25519; AES-GCM-256 is not on its list.
X25519Aeads == {"AesGcm128", "Chacha20Poly1305", "Xchacha20Poly1305"}
X25519Seal(k, text, aead, aad, call) ==
  EcdhSeal(X25519Attr(k), k, X25519Aeads, "X25519", text, aead, aad, call)
X25519Open(k, frame, eph, aad) ==
  EcdhOpen(X25519Attr(k), k, X25519Aeads, "X25519", frame, eph, aad)

\* secp256k1, ECIES.
Secp256k1Aeads == AeadCodecs
Secp256k1Seal(k, text, aead, aad, call) ==
  EcdhSeal(Secp256k1Attr(k), k, Secp256k1Aeads, "Secp256k1", text, aead, aad, call)
Secp256k1Open(k, frame, eph, aad) ==
  EcdhOpen(Secp256k1Attr(k), k, Secp256k1Aeads, "Secp256k1", frame, eph, aad)

\* The NIST curves, ECIES, P-521 among them.
NistPAeads == AeadCodecs
NistPSeal(k, text, aead, aad, call) ==
  EcdhSeal(NistPAttr(k), k, NistPAeads, "NistP", text, aead, aad, call)
NistPOpen(k, frame, eph, aad) ==
  EcdhOpen(NistPAttr(k), k, NistPAeads, "NistP", frame, eph, aad)

\* RSA-OAEP wraps a random AEAD key, so it is a KEM to its caller; a random
\* generator that fails makes seal fail.
RsaAeads == AeadCodecs
RsaSeal(k, text, aead, aad, call) ==
  KemSeal(RsaAttr(k), k, RsaAeads, "Rsa", text, aead, aad, call)
RsaOpen(k, frame, eph, aad) == KemOpen(RsaAttr(k), k, RsaAeads, "Rsa", frame, aad)

\* BLS TimeCrypt to a random identifier that is sent along: the signature of the
\* identifier opens it.  The AEAD codec and the associated data are not used.
\* Shares neither seal nor open.
BlsSeal(k, text, aead, aad, call) ==
  LET id == Encapsulate(k, call)
  IN IF BlsAttr(k).public
     THEN SealResult(EncodeKemSealed(id, None,
            AeadSeal(None, DeriveAeadKey(id, "TimeCrypt"), text, None)), None)
     ELSE None

BlsOpen(k, frame, eph, aad) ==
  IF k.role = "Priv" /\ Usable(BlsAttr(k), k)
  THEN AeadOpen(None, DeriveAeadKey(Decapsulate(k, frame.kem), "TimeCrypt"), frame.body, None)
  ELSE None
=============================================================================
