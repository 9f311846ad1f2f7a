----------------------------- MODULE DispatchedViews -----------------------------
(***************************************************************************)
(* The calls of the view traits (src/src/views.rs) on a Multikey: the      *)
(* dispatcher chooses the family's view and the view answers, None where   *)
(* there is no view or the call returns an error.                          *)
(***************************************************************************)
EXTENDS Dispatch, PostQuantumViews, HybridViews, SealViews

\* A Multikey as the dispatcher sees it.
Asked(k) == [codec |-> CodecOf(k)]

\* AttrView and DataView.
AttrOf(k) ==
  LET v == DispatchAttr(Asked(k)).view IN
  CASE v = "Ed25519"              -> Ed25519Attr(k)
    [] v = "Secp256k1"            -> Secp256k1Attr(k)
    [] v = "NistP"                -> NistPAttr(k)
    [] v = "Rsa"                  -> RsaAttr(k)
    [] v = "Bls"                  -> BlsAttr(k)
    [] v = "X25519"               -> X25519Attr(k)
    [] v = "MlDsa"                -> MlDsaAttr(k)
    [] v = "FnDsa"                -> FnDsaAttr(k)
    [] v = "Mayo"                 -> MayoAttr(k)
    [] v = "SlhDsa"               -> SlhDsaAttr(k)
    [] v = "Lamport"              -> LamportAttr(k)
    [] v = "Ed25519MlDsa65"       -> Ed25519MlDsa65Attr(k)
    [] v = "Ed25519FnDsa512"      -> Ed25519FnDsa512Attr(k)
    [] v = "Ed25519Mayo2"         -> Ed25519Mayo2Attr(k)
    [] v = "BlsMlDsa65"           -> BlsMlDsa65Attr(k)
    [] v = "BlsFnDsa512"          -> BlsFnDsa512Attr(k)
    [] v = "BlsMayo1"             -> BlsMayo1Attr(k)
    [] v = "BlsMayo2"             -> BlsMayo2Attr(k)
    [] v = "MlKem"                -> MlKemAttr(k)
    [] v = "Sntrup"               -> SntrupAttr(k)
    [] v = "FrodoKem"             -> FrodoKemAttr(k)
    [] v = "ClassicMceliece"      -> ClassicMcelieceAttr(k)
    [] v = "X25519MlKem768"       -> X25519MlKem768Attr(k)
    [] v = "X25519Sntrup761"      -> X25519Sntrup761Attr(k)
    [] v = "X25519FrodoKem640"    -> X25519FrodoKem640Attr(k)
    [] v = "X25519Mceliece348864" -> X25519Mceliece348864Attr(k)
    [] OTHER                      -> None

\* ConvView::to_public_key.
PublicKeyOf(k) ==
  LET v == DispatchConv(Asked(k)).view IN
  CASE v = "Ed25519"              -> Ed25519Public(k)
    [] v = "Secp256k1"            -> Secp256k1Public(k)
    [] v = "NistP"                -> NistPPublic(k)
    [] v = "Rsa"                  -> RsaPublic(k)
    [] v = "Bls"                  -> BlsPublic(k)
    [] v = "X25519"               -> X25519Public(k)
    [] v = "MlDsa"                -> MlDsaPublic(k)
    [] v = "FnDsa"                -> FnDsaPublic(k)
    [] v = "Mayo"                 -> MayoPublic(k)
    [] v = "SlhDsa"               -> SlhDsaPublic(k)
    [] v = "Lamport"              -> LamportPublic(k)
    [] v = "Ed25519MlDsa65"       -> Ed25519MlDsa65Public(k)
    [] v = "Ed25519FnDsa512"      -> Ed25519FnDsa512Public(k)
    [] v = "Ed25519Mayo2"         -> Ed25519Mayo2Public(k)
    [] v = "BlsMlDsa65"           -> BlsMlDsa65Public(k)
    [] v = "BlsFnDsa512"          -> BlsFnDsa512Public(k)
    [] v = "BlsMayo1"             -> BlsMayo1Public(k)
    [] v = "BlsMayo2"             -> BlsMayo2Public(k)
    [] v = "MlKem"                -> MlKemPublic(k)
    [] v = "Sntrup"               -> SntrupPublic(k)
    [] v = "FrodoKem"             -> FrodoKemPublic(k)
    [] v = "ClassicMceliece"      -> ClassicMceliecePublic(k)
    [] v = "X25519MlKem768"       -> X25519MlKem768Public(k)
    [] v = "X25519Sntrup761"      -> X25519Sntrup761Public(k)
    [] v = "X25519FrodoKem640"    -> X25519FrodoKem640Public(k)
    [] v = "X25519Mceliece348864" -> X25519Mceliece348864Public(k)
    [] OTHER                      -> None

\* ConvView::to_ssh_public_key.
SshPublicOf(k) ==
  LET v == DispatchConv(Asked(k)).view IN
  CASE v = "Ed25519"   -> Ed25519SshPublic(k)
    [] v = "Secp256k1" -> Secp256k1SshPublic(k)
    [] v = "NistP"     -> NistPSshPublic(k)
    [] v = "Rsa"       -> RsaSshPublic(k)
    [] v = "Bls"       -> BlsSshPublic(k)
    [] v = "MlDsa"     -> MlDsaSshPublic(k)
    [] v = "FnDsa"     -> FnDsaSshPublic(k)
    [] v = "Mayo"      -> MayoSshPublic(k)
    [] v = "SlhDsa"    -> SlhDsaSshPublic(k)
    [] OTHER           -> None

\* ConvView::to_ssh_private_key.
SshPrivateOf(k) ==
  LET v == DispatchConv(Asked(k)).view IN
  CASE v = "Ed25519"   -> Ed25519SshPrivate(k)
    [] v = "Secp256k1" -> Secp256k1SshPrivate(k)
    [] v = "NistP"     -> NistPSshPrivate(k)
    [] v = "Rsa"       -> RsaSshPrivate(k)
    [] v = "Bls"       -> BlsSshPrivate(k)
    [] v = "MlDsa"     -> MlDsaSshPrivate(k)
    [] v = "FnDsa"     -> FnDsaSshPrivate(k)
    [] v = "Mayo"      -> MayoSshPrivate(k)
    [] v = "SlhDsa"    -> SlhDsaSshPrivate(k)
    [] OTHER           -> None

\* FingerprintView::fingerprint.
FingerprintOf(k) ==
  LET v == DispatchFingerprint(Asked(k)).view IN
  CASE v = "Ed25519"              -> Ed25519Fingerprint(k)
    [] v = "Secp256k1"            -> Secp256k1Fingerprint(k)
    [] v = "NistP"                -> NistPFingerprint(k)
    [] v = "Rsa"                  -> RsaFingerprint(k)
    [] v = "Bls"                  -> BlsFingerprint(k)
    [] v = "X25519"               -> X25519Fingerprint(k)
    [] v = "MlDsa"                -> MlDsaFingerprint(k)
    [] v = "FnDsa"                -> FnDsaFingerprint(k)
    [] v = "Mayo"                 -> MayoFingerprint(k)
    [] v = "SlhDsa"               -> SlhDsaFingerprint(k)
    [] v = "Lamport"              -> LamportFingerprint(k)
    [] v = "Ed25519MlDsa65"       -> Ed25519MlDsa65Fingerprint(k)
    [] v = "Ed25519FnDsa512"      -> Ed25519FnDsa512Fingerprint(k)
    [] v = "Ed25519Mayo2"         -> Ed25519Mayo2Fingerprint(k)
    [] v = "BlsMlDsa65"           -> BlsMlDsa65Fingerprint(k)
    [] v = "BlsFnDsa512"          -> BlsFnDsa512Fingerprint(k)
    [] v = "BlsMayo1"             -> BlsMayo1Fingerprint(k)
    [] v = "BlsMayo2"             -> BlsMayo2Fingerprint(k)
    [] v = "MlKem"                -> MlKemFingerprint(k)
    [] v = "Sntrup"               -> SntrupFingerprint(k)
    [] v = "FrodoKem"             -> FrodoKemFingerprint(k)
    [] v = "ClassicMceliece"      -> ClassicMcelieceFingerprint(k)
    [] v = "X25519MlKem768"       -> X25519MlKem768Fingerprint(k)
    [] v = "X25519Sntrup761"      -> X25519Sntrup761Fingerprint(k)
    [] v = "X25519FrodoKem640"    -> X25519FrodoKem640Fingerprint(k)
    [] v = "X25519Mceliece348864" -> X25519Mceliece348864Fingerprint(k)
    [] OTHER                      -> None

\* SignView::sign.
SignWith(k, m, combined, call, scheme) ==
  LET v == DispatchSign(Asked(k)).view IN
  CASE v = "Ed25519"         -> Ed25519Sign(k, m, combined, call)
    [] v = "Secp256k1"       -> Secp256k1Sign(k, m, combined, call)
    [] v = "NistP"           -> NistPSign(k, m, combined, call)
    [] v = "Rsa"             -> RsaSign(k, m, combined, call)
    [] v = "Bls"             -> BlsSign(k, m, combined, call, scheme)
    [] v = "XEdDsa"          -> XEdDsaSign(k, m, combined, call)
    [] v = "MlDsa"           -> MlDsaSign(k, m, combined, call)
    [] v = "FnDsa"           -> FnDsaSign(k, m, combined, call)
    [] v = "Mayo"            -> MayoSign(k, m, combined, call)
    [] v = "SlhDsa"          -> SlhDsaSign(k, m, combined, call)
    [] v = "Lamport"         -> LamportSign(k, m, combined, call)
    [] v = "Ed25519MlDsa65"  -> Ed25519MlDsa65Sign(k, m, combined, call)
    [] v = "Ed25519FnDsa512" -> Ed25519FnDsa512Sign(k, m, combined, call)
    [] v = "Ed25519Mayo2"    -> Ed25519Mayo2Sign(k, m, combined, call)
    [] v = "BlsMlDsa65"      -> BlsMlDsa65Sign(k, m, combined, call)
    [] v = "BlsFnDsa512"     -> BlsFnDsa512Sign(k, m, combined, call)
    [] v = "BlsMayo1"        -> BlsMayo1Sign(k, m, combined, call)
    [] v = "BlsMayo2"        -> BlsMayo2Sign(k, m, combined, call)
    [] OTHER                 -> None

\* VerifyView::verify returns Ok.
VerifiesWith(k, s, arg) ==
  LET v == DispatchVerify(Asked(k)).view IN
  CASE v = "Ed25519"         -> Ed25519Verifies(k, s, arg)
    [] v = "Secp256k1"       -> Secp256k1Verifies(k, s, arg)
    [] v = "NistP"           -> NistPVerifies(k, s, arg)
    [] v = "Rsa"             -> RsaVerifies(k, s, arg)
    [] v = "Bls"             -> BlsVerifies(k, s, arg)
    [] v = "XEdDsa"          -> XEdDsaVerifies(k, s, arg)
    [] v = "MlDsa"           -> MlDsaVerifies(k, s, arg)
    [] v = "FnDsa"           -> FnDsaVerifies(k, s, arg)
    [] v = "Mayo"            -> MayoVerifies(k, s, arg)
    [] v = "SlhDsa"          -> SlhDsaVerifies(k, s, arg)
    [] v = "Lamport"         -> LamportVerifies(k, s, arg)
    [] v = "Ed25519MlDsa65"  -> Ed25519MlDsa65Verifies(k, s, arg)
    [] v = "Ed25519FnDsa512" -> Ed25519FnDsa512Verifies(k, s, arg)
    [] v = "Ed25519Mayo2"    -> Ed25519Mayo2Verifies(k, s, arg)
    [] v = "BlsMlDsa65"      -> BlsMlDsa65Verifies(k, s, arg)
    [] v = "BlsFnDsa512"     -> BlsFnDsa512Verifies(k, s, arg)
    [] v = "BlsMayo1"        -> BlsMayo1Verifies(k, s, arg)
    [] v = "BlsMayo2"        -> BlsMayo2Verifies(k, s, arg)
    [] OTHER                 -> FALSE

\* ThresholdView::split: one of the shares, of origin o.
ShareWith(k, o) ==
  LET v == DispatchThreshold(Asked(k)).view IN
  CASE v = "Bls"     -> BlsShare(k, o)
    [] v = "Lamport" -> LamportShare(k, o)
    [] OTHER         -> None

\* SealView::seal.
SealWith(k, text, aead, aad, call) ==
  LET v == DispatchSeal(Asked(k)).view IN
  CASE v = "Bls"                  -> BlsSeal(k, text, aead, aad, call)
    [] v = "X25519"               -> X25519Seal(k, text, aead, aad, call)
    [] v = "Rsa"                  -> RsaSeal(k, text, aead, aad, call)
    [] v = "NistP"                -> NistPSeal(k, text, aead, aad, call)
    [] v = "Secp256k1"            -> Secp256k1Seal(k, text, aead, aad, call)
    [] v = "MlKem"                -> MlKemSeal(k, text, aead, aad, call)
    [] v = "Sntrup"               -> SntrupSeal(k, text, aead, aad, call)
    [] v = "FrodoKem"             -> FrodoKemSeal(k, text, aead, aad, call)
    [] v = "ClassicMceliece"      -> ClassicMcelieceSeal(k, text, aead, aad, call)
    [] v = "X25519MlKem768"       -> X25519MlKem768Seal(k, text, aead, aad, call)
    [] v = "X25519Sntrup761"      -> X25519Sntrup761Seal(k, text, aead, aad, call)
    [] v = "X25519FrodoKem640"    -> X25519FrodoKem640Seal(k, text, aead, aad, call)
    [] v = "X25519Mceliece348864" -> X25519Mceliece348864Seal(k, text, aead, aad, call)
    [] OTHER                      -> None

\* OpenView::open.
OpenWith(k, frame, eph, aad) ==
  LET v == DispatchOpen(Asked(k)).view IN
  CASE v = "Bls"                  -> BlsOpen(k, frame, eph, aad)
    [] v = "X25519"               -> X25519Open(k, frame, eph, aad)
    [] v = "Rsa"                  -> RsaOpen(k, frame, eph, aad)
    [] v = "NistP"                -> NistPOpen(k, frame, eph, aad)
    [] v = "Secp256k1"            -> Secp256k1Open(k, frame, eph, aad)
    [] v = "MlKem"                -> MlKemOpen(k, frame, eph, aad)
    [] v = "Sntrup"               -> SntrupOpen(k, frame, eph, aad)
    [] v = "FrodoKem"             -> FrodoKemOpen(k, frame, eph, aad)
    [] v = "ClassicMceliece"      -> ClassicMcelieceOpen(k, frame, eph, aad)
    [] v = "X25519MlKem768"       -> X25519MlKem768Open(k, frame, eph, aad)
    [] v = "X25519Sntrup761"      -> X25519Sntrup761Open(k, frame, eph, aad)
    [] v = "X25519FrodoKem640"    -> X25519FrodoKem640Open(k, frame, eph, aad)
    [] v = "X25519Mceliece348864" -> X25519Mceliece348864Open(k, frame, eph, aad)
    [] OTHER                      -> None
=============================================================================
