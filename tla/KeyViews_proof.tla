----------------------------- MODULE KeyViews_proof -----------------------------
(***************************************************************************)
(* Proofs about KeyViews, for any key generations, shares, messages,       *)
(* schemes and number of signatures, and for every family.                 *)
(***************************************************************************)
EXTENDS KeyViews, FiniteSetTheorems, TLAPS

-----------------------------------------------------------------------------
(***************************************************************************)
(* What the views answer for a key pair of any family but BLS12-381: they  *)
(* differ in whether they read KeyIsEncrypted and in the halves they sign. *)
(***************************************************************************)
AwareFamilies == {"Ed25519", "Secp256k1", "NistP", "Rsa"}

\* The families whose sign and verify are those of their halves.
UsualFamilies == AwareFamilies \cup PostQuantum \cup HybridFamilies

PairAttr(k) == IF k.family \in AwareFamilies THEN Aware(k) ELSE Unaware(k)

PairForm(k) == PublicForm(PairAttr(k), Derived(PairAttr(k), k), k)

\* The halves that sign makes.
Halves(f, o, m, call, scheme) ==
  IF f \in HybridFamilies THEN Nested(o, m, call) ELSE <<Half(o, m, call, None, scheme)>>

\* No view is None, which the dispatcher answers with an error.
LEMMA NoView ==
  /\ None \notin Families /\ None # "XEdDsa"
  /\ Families \subseteq Views
<1>1. Families \subseteq Views
  <2>1. \A f \in Families : Codec(f, "Priv") \in AllCodecs /\ Codec(f, "Priv").family = f
    BY DEF AllCodecs, Pairs, Codec
  <2>2. QED
    BY <2>1 DEF Views
<1>2. QED
  BY <1>1, ViewConstants DEF Views

\* The dispatcher finds the views of a key pair.
LEMMA ViewsFound ==
  ASSUME NEW k, k.family \in Families, k.role \in {"Priv", "Pub"}
  PROVE  /\ DispatchAttr(Asked(k)).view = k.family
         /\ DispatchConv(Asked(k)).view = k.family
         /\ DispatchFingerprint(Asked(k)).view = k.family
BY DEF DispatchAttr, DispatchConv, DispatchFingerprint, Asked, CodecOf, Codec, Pairs, View, Arm,
       HashBasedCodecs, BlsCodecs, KeyPairCodecs, OneTime, Roles

LEMMA SignViewsFound ==
  ASSUME NEW k, k.family \in Families, k.role \in {"Priv", "Pub"}
  PROVE  LET v == IF k.family = "X25519" THEN "XEdDsa"
                  ELSE IF k.family \in SigningFamilies THEN k.family ELSE None
         IN DispatchSign(Asked(k)).view = v /\ DispatchVerify(Asked(k)).view = v
BY DEF DispatchSign, DispatchVerify, Asked, CodecOf, Codec, Pairs, View, Arm, Fails, SignCodecs,
   HashBasedCodecs, BlsCodecs, OneTime, Roles, Families, SigningFamilies, SealingFamilies,
   PostQuantum, HybridFamilies, KemFamilies, HybridKems

\* AttrView of all families.
LEMMA PairAttrIs ==
  ASSUME NEW k, k.family \in Families \ {"Bls"}, k.role \in {"Priv", "Pub"}
  PROVE  AttrOf(k) = PairAttr(k)
<1>1. DispatchAttr(Asked(k)).view = k.family
  BY ViewsFound
<1>2. QED
  BY <1>1 DEF AttrOf, PairAttr, AwareFamilies, Families, SigningFamilies, SealingFamilies,
     PostQuantum, HybridFamilies, KemFamilies, HybridKems, Ed25519Attr, Secp256k1Attr,
     NistPAttr, RsaAttr, MlDsaAttr, FnDsaAttr, MayoAttr, SlhDsaAttr, X25519Attr, LamportAttr,
     Ed25519MlDsa65Attr, Ed25519FnDsa512Attr, Ed25519Mayo2Attr, BlsMlDsa65Attr, BlsFnDsa512Attr,
     BlsMayo1Attr, BlsMayo2Attr, MlKemAttr, SntrupAttr, FrodoKemAttr, ClassicMcelieceAttr,
     X25519MlKem768Attr, X25519Sntrup761Attr, X25519FrodoKem640Attr, X25519Mceliece348864Attr

\* to_public_key of all families.
LEMMA PairPublicIs ==
  ASSUME NEW k, k.family \in Families \ {"Bls"}, k.role \in {"Priv", "Pub"}
  PROVE  PublicKeyOf(k) = Derived(PairAttr(k), k)
<1>1. DispatchConv(Asked(k)).view = k.family
  BY ViewsFound
<1>2. QED
  BY <1>1 DEF PublicKeyOf, PairAttr, AwareFamilies, Families, SigningFamilies, SealingFamilies,
     PostQuantum, HybridFamilies, KemFamilies, HybridKems, Ed25519Attr, Secp256k1Attr,
     NistPAttr, RsaAttr, MlDsaAttr, FnDsaAttr, MayoAttr, SlhDsaAttr, X25519Attr, LamportAttr,
     Ed25519MlDsa65Attr, Ed25519FnDsa512Attr, Ed25519Mayo2Attr, BlsMlDsa65Attr, BlsFnDsa512Attr,
     BlsMayo1Attr, BlsMayo2Attr, MlKemAttr, SntrupAttr, FrodoKemAttr, ClassicMcelieceAttr,
     X25519MlKem768Attr, X25519Sntrup761Attr, X25519FrodoKem640Attr, X25519Mceliece348864Attr,
     Ed25519Public, Secp256k1Public, NistPPublic, RsaPublic, MlDsaPublic, FnDsaPublic,
     MayoPublic, SlhDsaPublic, X25519Public, LamportPublic, Ed25519MlDsa65Public,
     Ed25519FnDsa512Public, Ed25519Mayo2Public, BlsMlDsa65Public, BlsFnDsa512Public,
     BlsMayo1Public, BlsMayo2Public, MlKemPublic, SntrupPublic, FrodoKemPublic,
     ClassicMceliecePublic, X25519MlKem768Public, X25519Sntrup761Public,
     X25519FrodoKem640Public, X25519Mceliece348864Public

\* fingerprint of all families.
LEMMA PairFingerprintIs ==
  ASSUME NEW k, k.family \in Families \ {"Bls"}, k.role \in {"Priv", "Pub"}
  PROVE  FingerprintOf(k) = Fingerprint(PairAttr(k), Derived(PairAttr(k), k), k)
<1>1. DispatchFingerprint(Asked(k)).view = k.family
  BY ViewsFound
<1>2. QED
  BY <1>1 DEF FingerprintOf, PairAttr, AwareFamilies, Families, SigningFamilies,
     SealingFamilies, PostQuantum, HybridFamilies, KemFamilies, HybridKems, Ed25519Attr,
     Secp256k1Attr, NistPAttr, RsaAttr, MlDsaAttr, FnDsaAttr, MayoAttr, SlhDsaAttr, X25519Attr,
     LamportAttr, Ed25519MlDsa65Attr, Ed25519FnDsa512Attr, Ed25519Mayo2Attr, BlsMlDsa65Attr,
     BlsFnDsa512Attr, BlsMayo1Attr, BlsMayo2Attr, MlKemAttr, SntrupAttr, FrodoKemAttr,
     ClassicMcelieceAttr, X25519MlKem768Attr, X25519Sntrup761Attr, X25519FrodoKem640Attr,
     X25519Mceliece348864Attr, Ed25519Public, Secp256k1Public, NistPPublic, RsaPublic,
     MlDsaPublic, FnDsaPublic, MayoPublic, SlhDsaPublic, X25519Public, LamportPublic,
     Ed25519MlDsa65Public, Ed25519FnDsa512Public, Ed25519Mayo2Public, BlsMlDsa65Public,
     BlsFnDsa512Public, BlsMayo1Public, BlsMayo2Public, MlKemPublic, SntrupPublic,
     FrodoKemPublic, ClassicMceliecePublic, X25519MlKem768Public, X25519Sntrup761Public,
     X25519FrodoKem640Public, X25519Mceliece348864Public, Ed25519Fingerprint,
     Secp256k1Fingerprint, NistPFingerprint, RsaFingerprint, MlDsaFingerprint, FnDsaFingerprint,
     MayoFingerprint, SlhDsaFingerprint, X25519Fingerprint, LamportFingerprint,
     Ed25519MlDsa65Fingerprint, Ed25519FnDsa512Fingerprint, Ed25519Mayo2Fingerprint,
     BlsMlDsa65Fingerprint, BlsFnDsa512Fingerprint, BlsMayo1Fingerprint, BlsMayo2Fingerprint,
     MlKemFingerprint, SntrupFingerprint, FrodoKemFingerprint, ClassicMcelieceFingerprint,
     X25519MlKem768Fingerprint, X25519Sntrup761Fingerprint, X25519FrodoKem640Fingerprint,
     X25519Mceliece348864Fingerprint

\* to_ssh_public_key and to_ssh_private_key of all families.
LEMMA PairSshPublicIs ==
  ASSUME NEW k, k.family \in Families \ {"Bls"}, k.role \in {"Priv", "Pub"}
  PROVE  SshPublicOf(k) \in {None, SshPublic(PairForm(k))}
<1>1. DispatchConv(Asked(k)).view = k.family
  BY ViewsFound
<1>2. QED
  BY <1>1 DEF SshPublicOf, PairForm, PairAttr, AwareFamilies, Families, SigningFamilies,
     SealingFamilies, PostQuantum, HybridFamilies, KemFamilies, HybridKems, Ed25519SshPublic,
     Secp256k1SshPublic, NistPSshPublic, RsaSshPublic, MlDsaSshPublic, FnDsaSshPublic,
     MayoSshPublic, SlhDsaSshPublic, Ed25519Form, Secp256k1Form, NistPForm, RsaForm, MlDsaForm,
     FnDsaForm, MayoForm, SlhDsaForm, Ed25519Attr, Secp256k1Attr, NistPAttr, RsaAttr, MlDsaAttr,
     FnDsaAttr, MayoAttr, SlhDsaAttr, X25519Attr, LamportAttr, Ed25519MlDsa65Attr,
     Ed25519FnDsa512Attr, Ed25519Mayo2Attr, BlsMlDsa65Attr, BlsFnDsa512Attr, BlsMayo1Attr,
     BlsMayo2Attr, MlKemAttr, SntrupAttr, FrodoKemAttr, ClassicMcelieceAttr, X25519MlKem768Attr,
     X25519Sntrup761Attr, X25519FrodoKem640Attr, X25519Mceliece348864Attr, Ed25519Public,
     Secp256k1Public, NistPPublic, RsaPublic, MlDsaPublic, FnDsaPublic, MayoPublic,
     SlhDsaPublic, X25519Public, LamportPublic, Ed25519MlDsa65Public, Ed25519FnDsa512Public,
     Ed25519Mayo2Public, BlsMlDsa65Public, BlsFnDsa512Public, BlsMayo1Public, BlsMayo2Public,
     MlKemPublic, SntrupPublic, FrodoKemPublic, ClassicMceliecePublic, X25519MlKem768Public,
     X25519Sntrup761Public, X25519FrodoKem640Public, X25519Mceliece348864Public

LEMMA PairSshPrivateIs ==
  ASSUME NEW k, k.family \in Families \ {"Bls"}, k.role \in {"Priv", "Pub"}
  PROVE  SshPrivateOf(k) \in {None, SshPrivate(PairAttr(k), k)}
<1>1. DispatchConv(Asked(k)).view = k.family
  BY ViewsFound
<1>2. QED
  BY <1>1 DEF SshPrivateOf, PairAttr, AwareFamilies, Families, SigningFamilies, SealingFamilies,
     PostQuantum, HybridFamilies, KemFamilies, HybridKems, Ed25519SshPrivate,
     Secp256k1SshPrivate, NistPSshPrivate, RsaSshPrivate, MlDsaSshPrivate, FnDsaSshPrivate,
     MayoSshPrivate, SlhDsaSshPrivate, Ed25519Attr, Secp256k1Attr, NistPAttr, RsaAttr,
     MlDsaAttr, FnDsaAttr, MayoAttr, SlhDsaAttr, X25519Attr, LamportAttr, Ed25519MlDsa65Attr,
     Ed25519FnDsa512Attr, Ed25519Mayo2Attr, BlsMlDsa65Attr, BlsFnDsa512Attr, BlsMayo1Attr,
     BlsMayo2Attr, MlKemAttr, SntrupAttr, FrodoKemAttr, ClassicMcelieceAttr, X25519MlKem768Attr,
     X25519Sntrup761Attr, X25519FrodoKem640Attr, X25519Mceliece348864Attr

\* sign of the usual families.
LEMMA UsualSignIs ==
  ASSUME NEW k, k.family \in UsualFamilies, k.role \in {"Priv", "Pub"},
         NEW m, NEW combined, NEW call, NEW scheme
  PROVE  SignWith(k, m, combined, call, scheme) =
           SignedWith(PairAttr(k), k, Halves(k.family, k.origin, m, call, None), m, combined)
<1>1. DispatchSign(Asked(k)).view = k.family
  BY SignViewsFound DEF UsualFamilies, AwareFamilies, Families, SigningFamilies,
     SealingFamilies, PostQuantum, HybridFamilies, KemFamilies, HybridKems
<1>2. QED
  BY <1>1 DEF SignWith, PairAttr, UsualFamilies, AwareFamilies, PostQuantum, HybridFamilies,
       Halves, Plain,
       Ed25519Sign, Secp256k1Sign, NistPSign, RsaSign, MlDsaSign, FnDsaSign, MayoSign,
       SlhDsaSign, Ed25519MlDsa65Sign, Ed25519FnDsa512Sign, Ed25519Mayo2Sign,
       BlsMlDsa65Sign, BlsFnDsa512Sign, BlsMayo1Sign, BlsMayo2Sign,
       Ed25519Attr, Secp256k1Attr, NistPAttr, RsaAttr, MlDsaAttr, FnDsaAttr, MayoAttr,
       SlhDsaAttr, Ed25519MlDsa65Attr, Ed25519FnDsa512Attr, Ed25519Mayo2Attr,
       BlsMlDsa65Attr, BlsFnDsa512Attr, BlsMayo1Attr, BlsMayo2Attr

\* verify of the usual families.
LEMMA UsualVerifyIs ==
  ASSUME NEW k, k.family \in UsualFamilies, k.role \in {"Priv", "Pub"}, NEW s, NEW arg
  PROVE  VerifiesWith(k, s, arg) <=>
           IF k.family \in HybridFamilies THEN VerifiesNested(PairForm(k), s, arg)
                                          ELSE VerifiesPlain(PairForm(k), s, arg)
<1>1. DispatchVerify(Asked(k)).view = k.family
  BY SignViewsFound DEF UsualFamilies, AwareFamilies, Families, SigningFamilies,
     SealingFamilies, PostQuantum, HybridFamilies, KemFamilies, HybridKems
<1>2. QED
  BY <1>1 DEF VerifiesWith, PairForm, PairAttr, UsualFamilies, AwareFamilies, PostQuantum,
       HybridFamilies,
       Ed25519Verifies, Secp256k1Verifies, NistPVerifies, RsaVerifies, MlDsaVerifies,
       FnDsaVerifies, MayoVerifies, SlhDsaVerifies, Ed25519MlDsa65Verifies,
       Ed25519FnDsa512Verifies, Ed25519Mayo2Verifies, BlsMlDsa65Verifies,
       BlsFnDsa512Verifies, BlsMayo1Verifies, BlsMayo2Verifies, Ed25519Form, Secp256k1Form,
       NistPForm, RsaForm, MlDsaForm, FnDsaForm, MayoForm, SlhDsaForm, Ed25519MlDsa65Form,
       Ed25519FnDsa512Form, Ed25519Mayo2Form, BlsMlDsa65Form, BlsFnDsa512Form, BlsMayo1Form,
       BlsMayo2Form, Ed25519Public, Secp256k1Public, NistPPublic, RsaPublic, MlDsaPublic,
       FnDsaPublic, MayoPublic, SlhDsaPublic, Ed25519MlDsa65Public, Ed25519FnDsa512Public,
       Ed25519Mayo2Public, BlsMlDsa65Public, BlsFnDsa512Public, BlsMayo1Public,
       BlsMayo2Public, Ed25519Attr, Secp256k1Attr, NistPAttr, RsaAttr, MlDsaAttr, FnDsaAttr,
       MayoAttr, SlhDsaAttr, Ed25519MlDsa65Attr, Ed25519FnDsa512Attr, Ed25519Mayo2Attr,
       BlsMlDsa65Attr, BlsFnDsa512Attr, BlsMayo1Attr, BlsMayo2Attr

-----------------------------------------------------------------------------
(***************************************************************************)
(* The forms that a key takes, and what the views make of each.            *)
(***************************************************************************)
\* A pair's half is as key generation, to_public_key or an import made it, or
\* encrypted; a share is one of BLS12-381 or a Lamport one, which is never
\* encrypted; and only secrets are.
KeyOk(k) ==
  /\ k \in Multikeys /\ k.family \in InFamilies
  /\ k.role \in {"Priv", "Pub"} => k.origin \in Generated /\ ~ k.share
  /\ k.role = "PrivShare" =>
       /\ k.origin \in Shares
       /\ k.family = "Bls" \/ (k.family = "Lamport" /\ ~ k.share /\ ~ k.locked)
  /\ k.role = "PubShare" => k.origin \in Shares /\ k.family = "Bls"
  /\ k.locked => k.role \in SecretRoles

IsPair(k) == k.role \in {"Priv", "Pub"}

\* A form is a pair's half, a BLS share, or a Lamport one.
LEMMA Forms ==
  ASSUME NEW k, KeyOk(k)
  PROVE  /\ k.family \in Families /\ k.role \in Roles /\ k.origin \in Origins
         /\ k.locked \in BOOLEAN /\ k.share \in BOOLEAN
         /\ \/ k.family # "Bls" /\ IsPair(k)
            \/ k.family = "Bls"
            \/ k.family = "Lamport" /\ k.role = "PrivShare" /\ ~ k.share /\ ~ k.locked
BY DEF KeyOk, IsPair, Multikeys, Roles

\* Keys that the views make are forms too.
LEMMA MadeForms ==
  ASSUME NEW f \in InFamilies
  PROVE  /\ \A r \in {"Priv", "Pub"}, o \in Generated : KeyOk(Multikey(f, r, o, FALSE))
         /\ f = "Bls" => \A r \in {"PrivShare", "PubShare"}, o \in Shares, share \in BOOLEAN :
                           KeyOk(Multikey(f, r, o, share))
         /\ f = "Lamport" => \A o \in Shares : KeyOk(Multikey(f, "PrivShare", o, FALSE))
BY ViewConstants DEF KeyOk, Multikey, Multikeys, Roles

\* A key is not None, nor are its bytes.
LEMMA SomeKey ==
  ASSUME NEW k, KeyOk(k)
  PROVE  /\ k # None /\ KeyBytes(k) # None
         /\ PublicOf(k) # None /\ KeyBytes(PublicOf(k)) # None
<1>1. k \in Multikeys /\ k.origin \in Origins /\ k.family \in Families
  BY DEF KeyOk, Multikeys
<1>2. PublicOf(k) \in Multikeys
  BY <1>1 DEF PublicOf, Multikey, Multikeys, Roles
<1>3. ASSUME NEW j \in Multikeys
      PROVE  KeyBytes(j) \in [origin : Origins, secret : BOOLEAN, longer : BOOLEAN]
  <2>1. j.origin \in Origins /\ j.locked \in BOOLEAN
    BY DEF Multikeys
  <2>2. QED
    BY <2>1 DEF KeyBytes
<1>4. QED
  BY <1>1, <1>2, <1>3, ViewConstants

\* A public key in the open is its own public form.
LEMMA PublicIsItself ==
  ASSUME NEW k, KeyOk(k), k.role = "Pub"
  PROVE  k = PublicOf(k) /\ ~ k.locked
BY DEF KeyOk, PublicOf, Multikey, Multikeys, SecretRoles

LEMMA PublicFields ==
  ASSUME NEW k
  PROVE  /\ PublicOf(k).family = k.family /\ PublicOf(k).role = "Pub"
         /\ PublicOf(k).origin = k.origin /\ ~ PublicOf(k).locked /\ ~ PublicOf(k).share
BY DEF PublicOf, Multikey

\* A secret key in the open is usable, and nothing else is.
LEMMA PairUsable ==
  ASSUME NEW k, k.locked \in BOOLEAN
  PROVE  /\ PairAttr(k).secret <=> k.role = "Priv"
         /\ HasSecret(PairAttr(k)) => k.role = "Priv"
         /\ Usable(PairAttr(k), k) <=> k.role = "Priv" /\ ~ k.locked
BY DEF PairAttr, Aware, Unaware, Attr, Usable, HasSecret, Parses

\* The public form of a pair's half.
LEMMA PairForms ==
  ASSUME NEW k, KeyOk(k), IsPair(k)
  PROVE  /\ Derived(PairAttr(k), k) = (IF k.role = "Priv" /\ ~ k.locked THEN PublicOf(k) ELSE None)
         /\ PairForm(k) = (IF k.locked THEN None ELSE PublicOf(k))
<1>1. k.locked \in BOOLEAN
  BY Forms
<1>2. Derived(PairAttr(k), k) = (IF k.role = "Priv" /\ ~ k.locked THEN PublicOf(k) ELSE None)
  BY <1>1, PairUsable DEF Derived
<1>3. CASE k.role = "Priv"
  BY <1>1, <1>2, <1>3, PairUsable DEF PairForm, PublicForm
<1>4. CASE k.role = "Pub"
  BY <1>1, <1>2, <1>4, PairUsable, PublicIsItself DEF PairForm, PublicForm
<1>5. QED
  BY <1>2, <1>3, <1>4 DEF IsPair

(***************************************************************************)
(* BLS12-381 keys and shares.                                              *)
(***************************************************************************)
LEMMA BlsViewsFound ==
  ASSUME NEW k, k.family = "Bls", k.role \in Roles
  PROVE  /\ DispatchAttr(Asked(k)).view = "Bls" /\ DispatchConv(Asked(k)).view = "Bls"
         /\ DispatchFingerprint(Asked(k)).view = "Bls"
         /\ DispatchSign(Asked(k)).view = "Bls" /\ DispatchVerify(Asked(k)).view = "Bls"
BY DEF DispatchAttr, DispatchConv, DispatchFingerprint, DispatchSign, DispatchVerify, Asked,
       CodecOf, Codec, View, Arm, SignCodecs, KeyPairCodecs, BlsCodecs

LEMMA BlsViewsAre ==
  ASSUME NEW k, k.family = "Bls", k.role \in Roles,
         NEW m, NEW combined, NEW call, NEW scheme, NEW s, NEW arg
  PROVE  /\ AttrOf(k) = BlsAttr(k) /\ PublicKeyOf(k) = BlsPublic(k)
         /\ FingerprintOf(k) = BlsFingerprint(k)
         /\ SshPublicOf(k) = BlsSshPublic(k) /\ SshPrivateOf(k) = BlsSshPrivate(k)
         /\ SignWith(k, m, combined, call, scheme) = BlsSign(k, m, combined, call, scheme)
         /\ VerifiesWith(k, s, arg) <=> BlsVerifies(k, s, arg)
BY BlsViewsFound DEF AttrOf, PublicKeyOf, FingerprintOf, SshPublicOf, SshPrivateOf, SignWith,
   VerifiesWith

\* The public form of a BLS key: a public key, or a share with parameters.
LEMMA BlsForms ==
  ASSUME NEW k, KeyOk(k), k.family = "Bls"
  PROVE  /\ BlsUsable(k) <=> /\ k.role \in SecretRoles /\ ~ k.locked
                             /\ k.role = "PrivShare" => k.share
         /\ BlsAttr(k).secret <=> k.role \in SecretRoles
         /\ HasSecret(BlsAttr(k)) => k.role \in SecretRoles
         /\ BlsPublic(k) = IF ~ BlsUsable(k) THEN None
                           ELSE IF k.role = "Priv" THEN PublicOf(k)
                           ELSE Multikey("Bls", "PubShare", k.origin, TRUE)
         /\ BlsForm(k) = IF k.role \in {"Pub", "PubShare"} THEN k ELSE BlsPublic(k)
<1>1. k.locked \in BOOLEAN /\ k.role \in Roles
  BY Forms
<1>2. /\ BlsUsable(k) <=> /\ k.role \in SecretRoles /\ ~ k.locked
                          /\ k.role = "PrivShare" => k.share
      /\ BlsAttr(k).secret <=> k.role \in SecretRoles
      /\ HasSecret(BlsAttr(k)) => k.role \in SecretRoles
  BY <1>1 DEF BlsUsable, BlsAttr, Attr, Usable, HasSecret, Parses, SecretRoles
<1>3. BlsPublic(k) = IF ~ BlsUsable(k) THEN None
                     ELSE IF k.role = "Priv" THEN PublicOf(k)
                     ELSE Multikey("Bls", "PubShare", k.origin, TRUE)
  BY DEF BlsPublic
<1>4. BlsForm(k) = IF k.role \in {"Pub", "PubShare"} THEN k ELSE BlsPublic(k)
  BY <1>1, <1>2 DEF BlsForm, PublicForm, SecretRoles, Roles
<1>5. QED
  BY <1>2, <1>3, <1>4

(***************************************************************************)
(* Lamport shares, which are no secret keys for the views.                 *)
(***************************************************************************)
LEMMA LamportShareViews ==
  ASSUME NEW k, k.family = "Lamport", k.role = "PrivShare",
         NEW m, NEW combined, NEW call, NEW scheme, NEW s, NEW arg
  PROVE  /\ AttrOf(k) = Unaware(k) /\ ~ HasSecret(AttrOf(k))
         /\ PublicKeyOf(k) = None /\ FingerprintOf(k) = KeyBytes(k)
         /\ SshPublicOf(k) = None /\ SshPrivateOf(k) = None
         /\ SignWith(k, m, combined, call, scheme) = LamportSign(k, m, combined, call)
         /\ ~ VerifiesWith(k, s, arg)
<1>1. /\ DispatchAttr(Asked(k)).view = "Lamport" /\ DispatchConv(Asked(k)).view = "Lamport"
      /\ DispatchFingerprint(Asked(k)).view = "Lamport"
      /\ DispatchSign(Asked(k)).view = "Lamport" /\ DispatchVerify(Asked(k)).view = "Lamport"
  BY DEF DispatchAttr, DispatchConv, DispatchFingerprint, DispatchSign, DispatchVerify, Asked,
         CodecOf, Codec, View, Arm, SignCodecs, KeyPairCodecs, HashBasedCodecs, OneTime, Pairs,
         BlsCodecs
<1>2. /\ AttrOf(k) = LamportAttr(k) /\ PublicKeyOf(k) = LamportPublic(k)
      /\ FingerprintOf(k) = LamportFingerprint(k)
      /\ SshPublicOf(k) = None /\ SshPrivateOf(k) = None
      /\ SignWith(k, m, combined, call, scheme) = LamportSign(k, m, combined, call)
      /\ VerifiesWith(k, s, arg) <=> LamportVerifies(k, s, arg)
  BY <1>1 DEF AttrOf, PublicKeyOf, FingerprintOf, SshPublicOf, SshPrivateOf, SignWith,
     VerifiesWith
<1>3. ~ Unaware(k).secret
  BY DEF Unaware, Attr
<1>4. LamportPublic(k) = None /\ LamportFingerprint(k) = KeyBytes(k) /\ LamportForm(k) = k
  BY <1>3 DEF LamportPublic, LamportFingerprint, LamportForm, LamportAttr, Derived, Usable,
     HasSecret, Fingerprint, PublicForm
<1>5. ~ LamportVerifies(k, s, arg)
  BY <1>4 DEF LamportVerifies, LamportVerifyBytes
<1>6. QED
  BY <1>2, <1>3, <1>4, <1>5 DEF LamportAttr, HasSecret

-----------------------------------------------------------------------------
(***************************************************************************)
(* What every call makes of a form.                                        *)
(***************************************************************************)
\* to_public_key: a public key, or a share's public share.
LEMMA PublicGives ==
  ASSUME NEW k, KeyOk(k), PublicKeyOf(k) # None
  PROVE  /\ KeyOk(PublicKeyOf(k)) /\ PublicKeyOf(k).family = k.family
         /\ ~ k.locked
<1>1. k.family \in InFamilies
  BY DEF KeyOk
<1>2. CASE k.family # "Bls" /\ IsPair(k)
  <2>1. PublicKeyOf(k) = Derived(PairAttr(k), k)
    BY <1>2, Forms, PairPublicIs DEF IsPair
  <2>2. k.role = "Priv" /\ ~ k.locked /\ PublicKeyOf(k) = PublicOf(k) /\ k.origin \in Generated
    BY <1>2, <2>1, PairForms DEF KeyOk
  <2>3. KeyOk(Multikey(k.family, "Pub", k.origin, FALSE))
    BY <1>1, <2>2, MadeForms
  <2>4. QED
    BY <2>2, <2>3, PublicFields DEF PublicOf
<1>3. CASE k.family = "Bls"
  <2>1. PublicKeyOf(k) = BlsPublic(k)
    BY <1>3, Forms, BlsViewsAre
  <2>2. CASE k.role = "Priv"
    <3>1. PublicKeyOf(k) = PublicOf(k) /\ ~ k.locked /\ k.origin \in Generated
      BY <1>3, <2>1, <2>2, BlsForms DEF KeyOk
    <3>2. KeyOk(Multikey(k.family, "Pub", k.origin, FALSE))
      BY <1>1, <3>1, MadeForms
    <3>3. QED
      BY <3>1, <3>2, PublicFields DEF PublicOf
  <2>3. CASE k.role # "Priv"
    <3>1. /\ PublicKeyOf(k) = Multikey("Bls", "PubShare", k.origin, TRUE)
          /\ ~ k.locked /\ k.role = "PrivShare" /\ k.origin \in Shares
      BY <1>3, <2>1, <2>3, BlsForms DEF KeyOk, SecretRoles
    <3>2. KeyOk(Multikey("Bls", "PubShare", k.origin, TRUE))
      BY <1>1, <1>3, <3>1, MadeForms
    <3>3. QED
      BY <1>3, <3>1, <3>2 DEF Multikey
  <2>4. QED
    BY <2>2, <2>3
<1>4. CASE k.family = "Lamport" /\ k.role = "PrivShare"
  BY <1>4, LamportShareViews
<1>5. QED
  BY <1>2, <1>3, <1>4, Forms

\* An OpenSSH file of a form: of its family and of its origin; those that state a
\* share's parameters are of BLS shares.
IsFileOf(x, k) ==
  /\ x.ssh = k.family /\ x.origin = k.origin
  /\ \/ IsPair(k) /\ x.part = FALSE
     \/ ~ IsPair(k) /\ x.part = TRUE /\ k.family = "Bls"

LEMMA FileOf ==
  ASSUME NEW k, k.role \in Roles, IsPair(k) \/ k.family = "Bls"
  PROVE  IsFileOf(SshFile(k), k)
<1>1. SshFile(k).ssh = k.family /\ SshFile(k).origin = k.origin
  BY DEF SshFile
<1>2. CASE IsPair(k)
  <2>1. (k.role \in {"PrivShare", "PubShare"}) = FALSE
    BY <1>2 DEF IsPair
  <2>2. QED
    BY <1>1, <1>2, <2>1 DEF IsFileOf, SshFile
<1>3. CASE ~ IsPair(k)
  <2>1. (k.role \in {"PrivShare", "PubShare"}) = TRUE
    BY <1>3 DEF IsPair, Roles
  <2>2. QED
    BY <1>1, <1>3, <2>1 DEF IsFileOf, SshFile
<1>4. QED
  BY <1>2, <1>3

\* to_ssh_public_key and to_ssh_private_key.
LEMMA FilesWritten ==
  ASSUME NEW k, KeyOk(k)
  PROVE  /\ SshPublicOf(k) # None => ~ k.locked /\ IsFileOf(SshPublicOf(k), k)
         /\ SshPrivateOf(k) # None => ~ k.locked /\ IsFileOf(SshPrivateOf(k), k)
<1>1. CASE k.family # "Bls" /\ IsPair(k)
  <2>1. ASSUME SshPublicOf(k) # None
        PROVE  ~ k.locked /\ IsFileOf(SshPublicOf(k), k)
    <3>1. SshPublicOf(k) = SshPublic(PairForm(k))
      BY <1>1, <2>1, Forms, PairSshPublicIs DEF IsPair
    <3>2. ~ k.locked /\ SshPublicOf(k) = SshFile(PublicOf(k))
      BY <1>1, <2>1, <3>1, PairForms DEF SshPublic
    <3>3. IsFileOf(SshFile(PublicOf(k)), PublicOf(k))
      BY PublicFields, FileOf DEF IsPair, Roles
    <3>4. QED
      BY <1>1, <3>2, <3>3, PublicFields DEF IsFileOf, IsPair
  <2>2. ASSUME SshPrivateOf(k) # None
        PROVE  ~ k.locked /\ IsFileOf(SshPrivateOf(k), k)
    <3>1. SshPrivateOf(k) = SshPrivate(PairAttr(k), k)
      BY <1>1, <2>2, Forms, PairSshPrivateIs DEF IsPair
    <3>2. ~ k.locked /\ SshPrivateOf(k) = SshFile(k)
      BY <2>2, <3>1, Forms, PairUsable DEF SshPrivate
    <3>3. QED
      BY <1>1, <3>2, Forms, FileOf
  <2>3. QED
    BY <2>1, <2>2
<1>2. CASE k.family = "Bls"
  <2>1. SshPublicOf(k) = BlsSshPublic(k) /\ SshPrivateOf(k) = BlsSshPrivate(k)
    BY <1>2, Forms, BlsViewsAre
  <2>2. ASSUME SshPublicOf(k) # None
        PROVE  ~ k.locked /\ IsFileOf(SshPublicOf(k), k)
    <3>1. SshPublicOf(k) = SshFile(BlsForm(k)) /\ BlsForm(k) # None
      BY <2>1, <2>2 DEF BlsSshPublic
    <3>2. ~ k.locked
      BY <1>2, <3>1, BlsForms DEF KeyOk, SecretRoles, Roles
    <3>3. /\ BlsForm(k).family = "Bls" /\ BlsForm(k).origin = k.origin
          /\ BlsForm(k).role \in Roles /\ (IsPair(BlsForm(k)) <=> IsPair(k))
      <4>1. CASE k.role \in {"Pub", "PubShare"}
        BY <1>2, <4>1, BlsForms DEF Roles
      <4>2. CASE k.role = "Priv"
        <5>1. BlsForm(k) = PublicOf(k)
          BY <1>2, <3>1, <4>2, BlsForms
        <5>2. QED
          BY <1>2, <4>2, <5>1, PublicFields DEF IsPair, Roles
      <4>3. CASE k.role = "PrivShare"
        <5>1. BlsForm(k) = Multikey("Bls", "PubShare", k.origin, TRUE)
          BY <1>2, <3>1, <4>3, BlsForms
        <5>2. QED
          BY <4>3, <5>1 DEF IsPair, Roles, Multikey
      <4>4. QED
        BY <4>1, <4>2, <4>3, Forms DEF Roles
    <3>4. IsFileOf(SshFile(BlsForm(k)), BlsForm(k))
      BY <3>3, FileOf
    <3>5. QED
      BY <1>2, <3>1, <3>2, <3>3, <3>4 DEF IsFileOf
  <2>3. ASSUME SshPrivateOf(k) # None
        PROVE  ~ k.locked /\ IsFileOf(SshPrivateOf(k), k)
    <3>1. BlsUsable(k) /\ SshPrivateOf(k) = SshFile(k)
      BY <2>1, <2>3 DEF BlsSshPrivate
    <3>2. QED
      BY <1>2, <3>1, BlsForms, Forms, FileOf
  <2>4. QED
    BY <2>2, <2>3
<1>3. CASE k.family = "Lamport" /\ k.role = "PrivShare"
  BY <1>3, LamportShareViews
<1>4. QED
  BY <1>1, <1>2, <1>3, Forms

\* new_from_ssh_public_key and new_from_ssh_private_key.
LEMMA Imports ==
  ASSUME NEW x
  PROVE  /\ x.ssh # "Bls" => /\ PublicImport(x) \in {None, Imported(x, "Pub", FALSE)}
                             /\ PrivateImport(x) \in {None, Imported(x, "Priv", FALSE)}
         /\ x.ssh = "Bls" => /\ PublicImport(x) = BlsPublicImport(x)
                             /\ PrivateImport(x) = BlsPrivateImport(x)
BY DEF PublicImport, EcdsaPublicImport, Secp256k1PublicImport, MlDsaPublicImport,
   FnDsaPublicImport, SlhDsaPublicImport, Ed25519PublicImport, PrivateImport,
   EcdsaPrivateImport, Secp256k1PrivateImport, MlDsaPrivateImport, FnDsaPrivateImport,
   SlhDsaPrivateImport, Ed25519PrivateImport

LEMMA FilesRead ==
  ASSUME NEW k, KeyOk(k), NEW x, IsFileOf(x, k),
         NEW j \in {PublicImport(x), PrivateImport(x)}, j # None
  PROVE  KeyOk(j) /\ j.family = k.family
<1>1. k.family \in InFamilies
  BY DEF KeyOk
<1>2. CASE IsPair(k)
  <2>1. k.origin \in Generated /\ x.part = FALSE
    BY <1>2 DEF IsFileOf, KeyOk, IsPair
  <2>2. j \in {Multikey(k.family, r, k.origin, FALSE) : r \in {"Priv", "Pub"}}
    <3>1. CASE k.family # "Bls"
      <4>1. j = Imported(x, "Pub", FALSE) \/ j = Imported(x, "Priv", FALSE)
        BY <3>1, Imports DEF IsFileOf
      <4>2. QED
        BY <4>1 DEF Imported, IsFileOf
    <3>2. CASE k.family = "Bls"
      <4>1. j = BlsPublicImport(x) \/ j = BlsPrivateImport(x)
        BY <3>2, Imports DEF IsFileOf
      <4>2. QED
        BY <2>1, <4>1 DEF BlsPublicImport, BlsPrivateImport, Imported, IsFileOf
    <3>3. QED
      BY <3>1, <3>2
  <2>3. \A r \in {"Priv", "Pub"} : /\ KeyOk(Multikey(k.family, r, k.origin, FALSE))
                                   /\ Multikey(k.family, r, k.origin, FALSE).family = k.family
    BY <1>1, <2>1, MadeForms DEF Multikey
  <2>4. QED
    BY <2>2, <2>3
<1>3. CASE ~ IsPair(k)
  <2>1. k.family = "Bls" /\ x.part = TRUE
    BY <1>3 DEF IsFileOf
  <2>2. k.origin \in Shares
    BY <1>3, Forms DEF KeyOk, IsPair, Roles
  <2>3. j = BlsPublicImport(x) \/ j = BlsPrivateImport(x)
    BY <2>1, Imports DEF IsFileOf
  <2>4. j \in {Multikey(k.family, r, k.origin, TRUE) : r \in {"PrivShare", "PubShare"}}
    BY <2>1, <2>3 DEF BlsPublicImport, BlsPrivateImport, Imported, IsFileOf
  <2>5. \A r \in {"PrivShare", "PubShare"} :
          /\ KeyOk(Multikey(k.family, r, k.origin, TRUE))
          /\ Multikey(k.family, r, k.origin, TRUE).family = k.family
    BY <1>1, <2>1, <2>2, MadeForms DEF Multikey
  <2>6. QED
    BY <2>4, <2>5
<1>4. QED
  BY <1>2, <1>3

\* new_from_seed.
LEMMA SeedGives ==
  ASSUME NEW f \in InFamilies, NEW o \in Generated, SeedKey(f, o) # None
  PROVE  KeyOk(SeedKey(f, o)) /\ SeedKey(f, o).family = f
<1> DEFINE x == [ssh |-> f, secret |-> TRUE, origin |-> o, part |-> FALSE]
<1>1. f = "Ed25519" /\ SeedKey(f, o) = PrivateImport(x)
  BY DEF SeedKey
<1>2. x.ssh = f /\ x.origin = o
  OBVIOUS
<1> HIDE DEF x
<1>3. SeedKey(f, o) = Imported(x, "Priv", FALSE)
  BY <1>1, <1>2, Imports
<1>4. SeedKey(f, o) = Multikey(f, "Priv", o, FALSE)
  BY <1>2, <1>3 DEF Imported
<1>5. QED
  BY <1>4, MadeForms DEF Multikey

\* split: a share of a BLS key with its parameters, or of a Lamport key.
LEMMA SplitGives ==
  ASSUME NEW k, KeyOk(k), NEW o \in Shares, ShareWith(k, o) # None
  PROVE  KeyOk(ShareWith(k, o)) /\ ShareWith(k, o).family = k.family
<1>1. k.family \in InFamilies
  BY DEF KeyOk
<1> DEFINE v == DispatchThreshold(Asked(k)).view
<1>0. v \in {None, k.family}
  BY DEF DispatchThreshold, Asked, CodecOf, Codec, View, Fails, Arm
<1>2. CASE DispatchThreshold(Asked(k)).view = "Bls"
  <2>1. ShareWith(k, o) = Multikey(k.family, "PrivShare", o, TRUE)
    BY <1>2 DEF ShareWith, BlsShare
  <2>2. k.family = "Bls"
    BY <1>0, <1>2, NoView DEF Families, SealingFamilies
  <2>3. KeyOk(Multikey(k.family, "PrivShare", o, TRUE))
    BY <1>1, <2>2, MadeForms
  <2>4. QED
    BY <2>1, <2>3 DEF Multikey
<1>3. CASE DispatchThreshold(Asked(k)).view = "Lamport"
  <2>1. ShareWith(k, o) = Multikey(k.family, "PrivShare", o, FALSE)
    BY <1>3 DEF ShareWith, LamportShare
  <2>2. k.family = "Lamport"
    BY <1>0, <1>3, NoView DEF Families, SigningFamilies
  <2>3. KeyOk(Multikey(k.family, "PrivShare", o, FALSE))
    BY <1>1, <2>2, MadeForms
  <2>4. QED
    BY <2>1, <2>3 DEF Multikey
<1>4. QED
  BY <1>2, <1>3 DEF ShareWith

\* encrypt finds a secret only in private keys and BLS shares.
LEMMA LockGives ==
  ASSUME NEW k, KeyOk(k), HasSecret(AttrOf(k))
  PROVE  KeyOk([k EXCEPT !.locked = TRUE])
<1>1. k.role \in SecretRoles /\ (k.role = "PrivShare" => k.family = "Bls")
  <2>1. CASE k.family # "Bls" /\ IsPair(k)
    <3>1. AttrOf(k) = PairAttr(k)
      BY <2>1, Forms, PairAttrIs DEF IsPair
    <3>2. QED
      BY <3>1, Forms, PairUsable DEF SecretRoles
  <2>2. CASE k.family = "Bls"
    <3>1. AttrOf(k) = BlsAttr(k)
      BY <2>2, Forms, BlsViewsAre
    <3>2. QED
      BY <2>2, <3>1, BlsForms
  <2>3. CASE k.family = "Lamport" /\ k.role = "PrivShare"
    BY <2>3, LamportShareViews
  <2>4. QED
    BY <2>1, <2>2, <2>3, Forms
<1>2. QED
  BY <1>1 DEF KeyOk, Multikeys, SecretRoles

LEMMA UnlockGives ==
  ASSUME NEW k, KeyOk(k)
  PROVE  KeyOk([k EXCEPT !.locked = FALSE])
BY DEF KeyOk, Multikeys

\* to_disclosure hides and shows the parameters of a share.
LEMMA DisclosureGives ==
  ASSUME NEW k, KeyOk(k), k.family = "Bls", k.role \in {"PrivShare", "PubShare"}
  PROVE  KeyOk([k EXCEPT !.share = ~ k.share])
<1>1. CASE k.share
  BY <1>1 DEF KeyOk, Multikeys
<1>2. CASE ~ k.share
  BY <1>2 DEF KeyOk, Multikeys
<1>3. QED
  BY <1>1, <1>2

-----------------------------------------------------------------------------
(***************************************************************************)
(* Signatures.                                                             *)
(***************************************************************************)
\* The fields of a Multisig.
IsMultisig(s) == s = [halves |-> s.halves, embedded |-> s.embedded,
                      scheme |-> s.scheme, share |-> s.share]

\* What sign of family f returned for the secret of origin o.
IsEntry(d, f) ==
  /\ IsMultisig(d.sig) /\ d.by \in Generated \cup Shares /\ d.msg \in Messages
  /\ f \in SigningFamilies
  /\ f = "X25519" => d.msg \in Challenges
  /\ \E call \in 1..MaxCalls, scheme \in (IF f = "Bls" THEN Schemes ELSE {None}) :
       /\ d.sig.halves = Halves(f, d.by, d.msg, call, scheme)
       /\ d.sig.scheme = scheme
  /\ d.sig.embedded \in {d.msg, Empty}
  /\ d.sig.share \in BOOLEAN /\ (f = "Bls" => (d.sig.share <=> d.by \in Shares))

\* What sign returns, of any form of a key that signs at all.
LEMMA SignIs ==
  ASSUME NEW k, KeyOk(k), NEW m, NEW combined, NEW call,
         NEW scheme \in (IF k.family = "Bls" THEN Schemes ELSE {None}),
         SignWith(k, m, combined, call, scheme) # None
  PROVE  /\ k.role \in SecretRoles /\ ~ k.locked /\ k.family \in SigningFamilies
         /\ k.family = "X25519" => m \in Challenges
         /\ SignWith(k, m, combined, call, scheme) =
              Signature(Halves(k.family, k.origin, m, call, scheme), m, combined, scheme,
                        k.role = "PrivShare")
<1> DEFINE s == SignWith(k, m, combined, call, scheme)
<1>1. k.family \in Families
  BY Forms
<1>2. CASE k.family \in UsualFamilies
  <2>1. IsPair(k) /\ scheme = None /\ k.family \in SigningFamilies
    BY <1>2, Forms DEF UsualFamilies, AwareFamilies, PostQuantum, HybridFamilies, SigningFamilies
  <2>2. s = SignedWith(PairAttr(k), k, Halves(k.family, k.origin, m, call, None), m, combined)
    BY <1>2, <2>1, UsualSignIs DEF IsPair
  <2>3. Usable(PairAttr(k), k)
    BY <2>2 DEF SignedWith
  <2>4. k.role = "Priv" /\ ~ k.locked
    BY <2>3, Forms, PairUsable
  <2>5. (k.role = "PrivShare") = FALSE
    BY <2>4
  <2>6. s = Signature(Halves(k.family, k.origin, m, call, scheme), m, combined, scheme,
                      k.role = "PrivShare")
    BY <2>1, <2>2, <2>3, <2>5 DEF SignedWith
  <2>7. k.family # "X25519"
    BY <1>2 DEF UsualFamilies, AwareFamilies, PostQuantum, HybridFamilies
  <2>8. QED
    BY <2>1, <2>4, <2>6, <2>7 DEF SecretRoles
<1>3. CASE k.family = "X25519"
  <2>1. IsPair(k) /\ scheme = None /\ k.family \in SigningFamilies
    BY <1>3, Forms DEF SigningFamilies
  <2>2. DispatchSign(Asked(k)).view = "XEdDsa"
    BY <1>1, <1>3, <2>1, SignViewsFound DEF IsPair
  <2>3. s = XEdDsaSign(k, m, combined, call)
    BY <2>2 DEF SignWith
  <2>4. m \in Challenges /\ s = SignedWith(PairAttr(k), k, Plain(k.origin, m, call), m, combined)
    BY <1>3, <2>3 DEF XEdDsaSign, X25519Attr, PairAttr, AwareFamilies
  <2>5. Usable(PairAttr(k), k)
    BY <2>4 DEF SignedWith
  <2>6. k.role = "Priv" /\ ~ k.locked
    BY <2>5, Forms, PairUsable
  <2>7. Halves(k.family, k.origin, m, call, scheme) = Plain(k.origin, m, call)
    BY <1>3, <2>1 DEF Halves, Plain, HybridFamilies
  <2>8. (k.role = "PrivShare") = FALSE
    BY <2>6
  <2>9. QED
    BY <2>1, <2>4, <2>5, <2>6, <2>7, <2>8 DEF SignedWith, SecretRoles
<1>4. CASE k.family = "Bls"
  <2>1. s = BlsSign(k, m, combined, call, scheme)
    BY <1>4, Forms, BlsViewsAre
  <2>2. BlsUsable(k) /\ k.role \in SecretRoles /\ ~ k.locked
    BY <1>4, <2>1, BlsForms DEF BlsSign
  <2>3. s = Signature(<<Half(k.origin, m, call, None, scheme)>>, m, combined, scheme,
                      k.role = "PrivShare")
    BY <1>4, <2>1, <2>2 DEF BlsSign
  <2>4. Halves(k.family, k.origin, m, call, scheme) = <<Half(k.origin, m, call, None, scheme)>>
    BY <1>4 DEF Halves, HybridFamilies
  <2>5. k.family \in SigningFamilies
    BY <1>4 DEF SigningFamilies
  <2>6. QED
    BY <1>4, <2>2, <2>3, <2>4, <2>5
<1>5. CASE k.family = "Lamport"
  <2>1. s = LamportSign(k, m, combined, call) /\ k.role \in {"Priv", "Pub", "PrivShare"}
    <3>1. CASE IsPair(k)
      <4>1. DispatchSign(Asked(k)).view = "Lamport"
        BY <1>1, <1>5, <3>1, SignViewsFound DEF IsPair, SigningFamilies
      <4>2. QED
        BY <3>1, <4>1 DEF SignWith, IsPair
    <3>2. CASE k.role = "PrivShare"
      BY <1>5, <3>2, LamportShareViews
    <3>3. QED
      BY <1>5, <3>1, <3>2, Forms
  <2>2. /\ k.role \in SecretRoles /\ ~ k.locked
        /\ s = Signature(Plain(k.origin, m, call), m, combined, None, k.role = "PrivShare")
    <3>1. CASE k.role = "PrivShare"
      BY <2>1, <3>1 DEF LamportSign, LamportShareSignBytes, Parses, SecretRoles
    <3>2. CASE k.role # "PrivShare"
      BY <2>1, <3>2 DEF LamportSign, LamportSignBytes, Parses, SecretRoles
    <3>3. QED
      BY <3>1, <3>2
  <2>3. Halves(k.family, k.origin, m, call, scheme) = Plain(k.origin, m, call)
    BY <1>5 DEF Halves, Plain, HybridFamilies
  <2>4. k.family \in SigningFamilies /\ scheme = None
    BY <1>5 DEF SigningFamilies
  <2>5. QED
    BY <1>5, <2>2, <2>3, <2>4
<1>6. CASE k.family \in KemFamilies \cup HybridKems
  <2>1. IsPair(k) /\ k.family \notin SigningFamilies /\ k.family # "X25519"
    BY <1>6, Forms DEF KemFamilies, HybridKems, SigningFamilies, PostQuantum, HybridFamilies
  <2>2. DispatchSign(Asked(k)).view = None
    BY <1>1, <2>1, SignViewsFound DEF IsPair
  <2>3. s = None
    BY <2>2, NoView DEF SignWith, Families, SigningFamilies, SealingFamilies, PostQuantum,
       HybridFamilies, KemFamilies, HybridKems
  <2>4. QED
    BY <2>3
<1>7. QED
  BY <1>1, <1>2, <1>3, <1>4, <1>5, <1>6 DEF UsualFamilies, AwareFamilies, Families,
     SigningFamilies, SealingFamilies, PostQuantum, HybridFamilies, KemFamilies, HybridKems

\* What verify checks, whatever form of its key is asked: e is the message it
\* takes, and a signature is not one for all families.
Accepts(k, s, e) ==
  /\ e # None /\ k.family \in SigningFamilies
  /\ k.family = "X25519" => e \in Challenges
  /\ IF k.family \in HybridFamilies
     THEN /\ Len(s.halves) = 2
          /\ Checks(s.halves[1], k.origin, e, None, None)
          /\ Checks(s.halves[2], k.origin, e, s.halves[1], None)
     ELSE /\ Len(s.halves) = 1
          /\ Checks(s.halves[1], k.origin, e, None, IF k.family = "Bls" THEN s.scheme ELSE None)
  /\ k.family = "Bls" => s.scheme \in Schemes /\ (IsPair(k) \/ s.share)

\* verify accepts that with a form that can verify, and nothing with another.
LEMMA VerifyIs ==
  ASSUME NEW k, KeyOk(k), NEW s, NEW arg
  PROVE  VerifiesWith(k, s, arg) <=> CanVerify(k) /\ Accepts(k, s, Effective(s, arg))
<1> DEFINE e == Effective(s, arg)
<1>1. k.family \in Families
  BY Forms
<1>2. CASE k.family # "Bls" /\ IsPair(k)
  <2>1. CanVerify(k) <=> ~ k.locked
    BY <1>2 DEF CanVerify, IsPair
  <2>2. /\ PairForm(k) # None <=> ~ k.locked
        /\ ~ k.locked => PairForm(k).role = "Pub" /\ PairForm(k).origin = k.origin
    BY <1>2, PairForms, SomeKey, PublicFields
  <2>3. VerifiesPlain(PairForm(k), s, arg) <=>
          /\ ~ k.locked /\ e # None /\ Len(s.halves) = 1
          /\ Checks(s.halves[1], k.origin, e, None, None)
    BY <2>2 DEF VerifiesPlain
  <2>4. VerifiesNested(PairForm(k), s, arg) <=>
          /\ ~ k.locked /\ e # None /\ Len(s.halves) = 2
          /\ Checks(s.halves[1], k.origin, e, None, None)
          /\ Checks(s.halves[2], k.origin, e, s.halves[1], None)
    BY <2>2 DEF VerifiesNested
  <2> HIDE DEF e
  <2>5. CASE k.family \in UsualFamilies
    <3>1. k.family \in SigningFamilies /\ k.family # "X25519"
      BY <2>5 DEF UsualFamilies, AwareFamilies, PostQuantum, HybridFamilies, SigningFamilies
    <3>2. CASE k.family \in HybridFamilies
      <4>1. VerifiesWith(k, s, arg) <=> VerifiesNested(PairForm(k), s, arg)
        BY <1>2, <2>5, <3>2, UsualVerifyIs DEF IsPair
      <4>2. QED
        BY <1>2, <2>1, <2>4, <3>1, <3>2, <4>1 DEF Accepts, e
    <3>3. CASE k.family \notin HybridFamilies
      <4>1. VerifiesWith(k, s, arg) <=> VerifiesPlain(PairForm(k), s, arg)
        BY <1>2, <2>5, <3>3, UsualVerifyIs DEF IsPair
      <4>2. QED
        BY <1>2, <2>1, <2>3, <3>1, <3>3, <4>1 DEF Accepts, e
    <3>4. QED
      BY <3>2, <3>3
  <2>6. CASE k.family = "X25519"
    <3>1. DispatchVerify(Asked(k)).view = "XEdDsa"
      BY <1>1, <1>2, <2>6, SignViewsFound DEF IsPair
    <3>2. VerifiesWith(k, s, arg) <=> XEdDsaVerifies(k, s, arg)
      BY <3>1 DEF VerifiesWith
    <3>3. X25519Form(k) = PairForm(k)
      BY <2>6 DEF X25519Form, X25519Public, X25519Attr, PairForm, PairAttr, AwareFamilies
    <3>4. VerifiesWith(k, s, arg) <=> VerifiesPlain(PairForm(k), s, arg) /\ e \in Challenges
      BY <3>2, <3>3 DEF XEdDsaVerifies, e
    <3>5. k.family \in SigningFamilies /\ k.family \notin HybridFamilies
      BY <2>6 DEF SigningFamilies, HybridFamilies
    <3>6. QED
      BY <1>2, <2>1, <2>3, <2>6, <3>4, <3>5 DEF Accepts, e
  <2>7. CASE k.family = "Lamport"
    <3>1. k.family \in SigningFamilies /\ k.family \notin HybridFamilies
      BY <2>7 DEF SigningFamilies, HybridFamilies
    <3>2. DispatchVerify(Asked(k)).view = "Lamport"
      BY <1>1, <1>2, <2>7, <3>1, SignViewsFound DEF IsPair
    <3>3. VerifiesWith(k, s, arg) <=> LamportVerifies(k, s, arg)
      BY <3>2 DEF VerifiesWith
    <3>4. LamportForm(k) = PairForm(k)
      BY <2>7 DEF LamportForm, LamportPublic, LamportAttr, PairForm, PairAttr, AwareFamilies
    <3>5. VerifiesWith(k, s, arg) <=>
            /\ ~ k.locked /\ e # None /\ Len(s.halves) = 1
            /\ Checks(s.halves[1], k.origin, e, None, None)
      BY <2>2, <3>3, <3>4 DEF LamportVerifies, LamportVerifyBytes, e
    <3>6. QED
      BY <1>2, <2>1, <2>7, <3>1, <3>5 DEF Accepts, e
  <2>8. CASE k.family \in KemFamilies \cup HybridKems
    <3>1. k.family \notin SigningFamilies /\ k.family # "X25519"
      BY <2>8 DEF KemFamilies, HybridKems, SigningFamilies, PostQuantum, HybridFamilies
    <3>2. DispatchVerify(Asked(k)).view = None
      BY <1>1, <1>2, <3>1, SignViewsFound DEF IsPair
    <3>3. ~ VerifiesWith(k, s, arg)
      BY <3>2, NoView DEF VerifiesWith, Families, SigningFamilies, SealingFamilies, PostQuantum,
         HybridFamilies, KemFamilies, HybridKems
    <3>4. QED
      BY <3>1, <3>3 DEF Accepts
  <2>9. QED
    BY <1>1, <1>2, <2>5, <2>6, <2>7, <2>8 DEF UsualFamilies, AwareFamilies, Families,
       SigningFamilies, SealingFamilies, PostQuantum, HybridFamilies, KemFamilies, HybridKems
<1>3. CASE k.family = "Bls"
  <2>1. VerifiesWith(k, s, arg) <=> BlsVerifies(k, s, arg)
    BY <1>3, Forms, BlsViewsAre
  <2>2. BlsForm(k) # None => BlsForm(k).origin = k.origin
    <3>1. /\ PublicOf(k).origin = k.origin
          /\ Multikey("Bls", "PubShare", k.origin, TRUE).origin = k.origin
      BY DEF PublicOf, Multikey
    <3>2. QED
      BY <1>3, <3>1, BlsForms
  <2>3. /\ BlsForm(k) # None
        /\ BlsForm(k).role = "Pub" \/ (BlsForm(k).role = "PubShare" /\ s.share)
        <=> CanVerify(k) /\ (IsPair(k) \/ s.share)
    <3>1. CASE k.role = "Pub"
      <4>1. ~ k.locked /\ BlsForm(k) = k
        BY <1>3, <3>1, BlsForms, PublicIsItself
      <4>2. QED
        BY <3>1, <4>1, SomeKey DEF CanVerify, IsPair
    <3>2. CASE k.role = "PubShare"
      <4>1. ~ k.locked /\ BlsForm(k) = k
        BY <1>3, <3>2, BlsForms DEF KeyOk, SecretRoles
      <4>2. QED
        BY <1>3, <3>2, <4>1, SomeKey DEF CanVerify, IsPair
    <3>3. CASE k.role = "Priv"
      <4>1. BlsForm(k) = IF k.locked THEN None ELSE PublicOf(k)
        BY <1>3, <3>3, BlsForms DEF SecretRoles
      <4>2. QED
        BY <3>3, <4>1, SomeKey, PublicFields DEF CanVerify, IsPair
    <3>4. CASE k.role = "PrivShare"
      <4> DEFINE p == Multikey("Bls", "PubShare", k.origin, TRUE)
      <4>1. BlsForm(k) = IF k.locked \/ ~ k.share THEN None ELSE p
        BY <1>3, <3>4, BlsForms DEF SecretRoles
      <4>2. p.role = "PubShare"
        BY DEF Multikey
      <4>3. p # None
        <5>1. k.family \in InFamilies /\ k.origin \in Shares
          BY <3>4 DEF KeyOk
        <5>2. KeyOk(p)
          BY <1>3, <5>1, MadeForms
        <5>3. QED
          BY <5>2, SomeKey
      <4> HIDE DEF p
      <4>4. QED
        BY <1>3, <3>4, <4>1, <4>2, <4>3 DEF CanVerify, IsPair
    <3>5. QED
      BY <3>1, <3>2, <3>3, <3>4, Forms DEF Roles
  <2>4. k.family \in SigningFamilies /\ k.family \notin HybridFamilies
    BY <1>3 DEF SigningFamilies, HybridFamilies
  <2>5. QED
    BY <1>3, <2>1, <2>2, <2>3, <2>4 DEF BlsVerifies, Accepts
<1>4. CASE k.family = "Lamport" /\ k.role = "PrivShare"
  BY <1>4, LamportShareViews DEF CanVerify
<1>5. QED
  BY <1>2, <1>3, <1>4, Forms

-----------------------------------------------------------------------------
(***************************************************************************)
(* Fingerprints.  Those of all forms that say anything of a pair or of a   *)
(* BLS share are of the public key's bytes.                                *)
(***************************************************************************)
OpenBytes(o) == [origin |-> o, secret |-> FALSE, longer |-> FALSE]

LEMMA PublicBytes ==
  ASSUME NEW f, NEW r \in {"Pub", "PubShare"}, NEW o, NEW share
  PROVE  KeyBytes(Multikey(f, r, o, share)) = OpenBytes(o)
<1> DEFINE k == Multikey(f, r, o, share)
<1>1. k.origin = o /\ k.locked = FALSE /\ k.role = r
  BY DEF Multikey
<1>2. (k.role \in SecretRoles) = FALSE
  BY <1>1 DEF SecretRoles
<1> HIDE DEF k
<1>3. KeyBytes(k) = OpenBytes(o)
  BY <1>1, <1>2 DEF KeyBytes, OpenBytes
<1>4. QED
  BY <1>3 DEF k

LEMMA DerivedBytes ==
  ASSUME NEW k
  PROVE  /\ KeyBytes(PublicOf(k)) = OpenBytes(k.origin)
         /\ KeyBytes(Multikey("Bls", "PubShare", k.origin, TRUE)) = OpenBytes(k.origin)
BY PublicBytes DEF PublicOf

\* fingerprint of every form; a Lamport share's is of its own bytes.
LEMMA FingerprintIs ==
  ASSUME NEW k, KeyOk(k)
  PROVE  /\ k.locked => FingerprintOf(k) = None
         /\ ~ k.locked /\ (IsPair(k) \/ CanVerify(k)) => FingerprintOf(k) = OpenBytes(k.origin)
         /\ FingerprintOf(k) \in {None, KeyBytes(k), OpenBytes(k.origin)}
<1>1. CASE k.family # "Bls" /\ IsPair(k)
  <2> DEFINE p == Derived(PairAttr(k), k)
  <2>1. FingerprintOf(k) = Fingerprint(PairAttr(k), p, k)
    BY <1>1, Forms, PairFingerprintIs DEF IsPair
  <2>2. CASE k.role = "Priv"
    <3>1. FingerprintOf(k) = IF p # None THEN KeyBytes(p) ELSE None
      BY <2>1, <2>2, Forms, PairUsable DEF Fingerprint
    <3>2. p = IF ~ k.locked THEN PublicOf(k) ELSE None
      BY <1>1, <2>2, PairForms
    <3>3. KeyBytes(PublicOf(k)) = OpenBytes(k.origin) /\ PublicOf(k) # None
      BY DerivedBytes, SomeKey
    <3>4. QED
      BY <3>1, <3>2, <3>3
  <2>3. CASE k.role = "Pub"
    <3>1. FingerprintOf(k) = KeyBytes(k)
      BY <2>1, <2>3, Forms, PairUsable DEF Fingerprint
    <3>2. k = PublicOf(k) /\ ~ k.locked
      BY <2>3, PublicIsItself
    <3>3. QED
      BY <3>1, <3>2, DerivedBytes
  <2>4. QED
    BY <1>1, <2>2, <2>3 DEF IsPair
<1>2. CASE k.family = "Bls"
  <2>1. FingerprintOf(k) = BlsFingerprint(k)
    BY <1>2, Forms, BlsViewsAre
  <2>2. CASE k.role \in SecretRoles
    <3>1. FingerprintOf(k) = IF BlsPublic(k) # None THEN KeyBytes(BlsPublic(k)) ELSE None
      BY <1>2, <2>1, <2>2, BlsForms DEF BlsFingerprint, Fingerprint
    <3>2. BlsPublic(k) # None => KeyBytes(BlsPublic(k)) = OpenBytes(k.origin)
      BY <1>2, BlsForms, DerivedBytes
    <3>3. k.locked => BlsPublic(k) = None
      BY <1>2, BlsForms
    <3>4. ~ k.locked /\ (IsPair(k) \/ CanVerify(k)) => BlsPublic(k) # None
      <4>1. CASE k.role = "Priv"
        BY <1>2, <4>1, BlsForms, SomeKey DEF SecretRoles
      <4>2. CASE k.role = "PrivShare"
        <5> DEFINE p == Multikey("Bls", "PubShare", k.origin, TRUE)
        <5>1. k.family \in InFamilies /\ k.origin \in Shares
          BY <4>2 DEF KeyOk
        <5>2. KeyOk(p)
          BY <1>2, <5>1, MadeForms
        <5>3. p # None
          BY <5>2, SomeKey
        <5> HIDE DEF p
        <5>4. ~ k.locked /\ k.share => BlsPublic(k) = p
          BY <1>2, <4>2, BlsForms DEF SecretRoles, p
        <5>5. QED
          BY <4>2, <5>3, <5>4 DEF IsPair, CanVerify
      <4>3. QED
        BY <2>2, <4>1, <4>2 DEF SecretRoles
    <3>5. QED
      BY <3>1, <3>2, <3>3, <3>4
  <2>3. CASE k.role \notin SecretRoles
    <3>1. FingerprintOf(k) = KeyBytes(k)
      BY <1>2, <2>1, <2>3, BlsForms DEF BlsFingerprint, Fingerprint
    <3>2. ~ k.locked /\ k.role \in {"Pub", "PubShare"}
      BY <2>3, Forms DEF KeyOk, SecretRoles, Roles
    <3>3. k = Multikey(k.family, k.role, k.origin, k.share)
      BY <3>2 DEF KeyOk, Multikeys, Multikey
    <3>4. KeyBytes(k) = OpenBytes(k.origin)
      BY <3>2, <3>3, PublicBytes
    <3>5. QED
      BY <3>1, <3>2, <3>4
  <2>4. QED
    BY <2>2, <2>3
<1>3. CASE k.family = "Lamport" /\ k.role = "PrivShare"
  BY <1>3, LamportShareViews, Forms DEF IsPair, CanVerify
<1>4. QED
  BY <1>1, <1>2, <1>3, Forms

-----------------------------------------------------------------------------
(***************************************************************************)
(* The inductive invariant.  The invariants of KeyViews speak of what the  *)
(* views answer; it says which keys, records and signatures there can be.  *)
(***************************************************************************)
MadeInv ==
  /\ IsFiniteSet(made) /\ Cardinality(made) <= MaxCalls
  /\ \A d \in made : IsEntry(d, key.family)

\* A signature under way is put together from halves that sign returned, first
\* ones in the first place and second ones in the second.
SentInv ==
  sent # None =>
    /\ IsMultisig(sent)
    /\ sent.embedded \in Messages /\ sent.share \in BOOLEAN
    /\ sent.scheme \in Schemes \cup {None}
    /\ \E d \in made :
         \/ sent.halves = <<d.sig.halves[1]>>
         \/ /\ key.family \in HybridFamilies
            /\ \E d2 \in made : sent.halves = <<d.sig.halves[1], d2.sig.halves[2]>>

IInv == KeyOk(key) /\ MadeInv /\ SentInv

LEMMA InitInv == Init => IInv
<1> SUFFICES ASSUME Init PROVE IInv
  OBVIOUS
<1>1. KeyOk(key)
  <2>1. PICK f \in InFamilies, o \in Generated : key = GeneratedKey(f, o)
    BY DEF Init
  <2>2. QED
    BY <2>1, MadeForms DEF GeneratedKey
<1>2. MadeInv
  BY FS_EmptySet, ViewConstants DEF Init, MadeInv
<1>3. SentInv
  BY DEF Init, SentInv
<1>4. QED
  BY <1>1, <1>2, <1>3 DEF IInv

\* A step that makes another form of the key at hand.
LEMMA FormStep ==
  ASSUME IInv, KeyOk(key)', key'.family = key.family, UNCHANGED <<made, sent>>
  PROVE  IInv'
<1>1. MadeInv'
  BY DEF IInv, MadeInv
<1>2. SentInv'
  BY DEF IInv, SentInv
<1>3. QED
  BY <1>1, <1>2 DEF IInv

LEMMA FormsKeep ==
  ASSUME IInv,
         \/ \E o \in Generated : TakeUp(o) \/ FromSeed(o)
         \/ ToPublic \/ ThroughSshPublic \/ ThroughSshPrivate
         \/ Lock \/ Unlock
         \/ \E o \in Shares : Split(o)
         \/ ToDisclosure
  PROVE  IInv'
<1>1. KeyOk(key) /\ key.family \in InFamilies
  BY DEF IInv, KeyOk
<1>2. ASSUME NEW o \in Generated, TakeUp(o) PROVE IInv'
  <2>1. key' = Multikey(key.family, "Priv", o, FALSE) /\ UNCHANGED <<made, sent>>
    BY <1>2 DEF TakeUp, GeneratedKey
  <2>2. /\ KeyOk(Multikey(key.family, "Priv", o, FALSE))
        /\ Multikey(key.family, "Priv", o, FALSE).family = key.family
    BY <1>1, MadeForms DEF Multikey
  <2>3. QED
    BY <2>1, <2>2, FormStep
<1>3. ASSUME NEW o \in Generated, FromSeed(o) PROVE IInv'
  BY <1>1, <1>3, SeedGives, FormStep DEF FromSeed
<1>4. CASE ToPublic
  BY <1>1, <1>4, PublicGives, FormStep DEF ToPublic, Becomes
<1>5. CASE ThroughSshPublic
  BY <1>1, <1>5, FilesWritten, FilesRead, FormStep DEF ThroughSshPublic, Becomes
<1>6. CASE ThroughSshPrivate
  BY <1>1, <1>6, FilesWritten, FilesRead, FormStep DEF ThroughSshPrivate, Becomes
<1>7. CASE Lock
  <2>1. KeyOk([key EXCEPT !.locked = TRUE]) /\ [key EXCEPT !.locked = TRUE].family = key.family
    BY <1>1, <1>7, LockGives DEF Lock, KeyOk, Multikeys
  <2>2. QED
    BY <1>7, <2>1, FormStep DEF Lock, Becomes
<1>8. CASE Unlock
  <2>1. KeyOk([key EXCEPT !.locked = FALSE]) /\ [key EXCEPT !.locked = FALSE].family = key.family
    BY <1>1, UnlockGives DEF KeyOk, Multikeys
  <2>2. QED
    BY <1>8, <2>1, FormStep DEF Unlock, Becomes
<1>9. ASSUME NEW o \in Shares, Split(o) PROVE IInv'
  BY <1>1, <1>9, SplitGives, FormStep DEF Split, Becomes
<1>10. CASE ToDisclosure
  <2>1. /\ KeyOk([key EXCEPT !.share = ~ key.share])
        /\ [key EXCEPT !.share = ~ key.share].family = key.family
    BY <1>1, <1>10, DisclosureGives DEF ToDisclosure, KeyOk, Multikeys
  <2>2. QED
    BY <1>10, <2>1, FormStep DEF ToDisclosure, Becomes
<1>11. QED
  BY <1>2, <1>3, <1>4, <1>5, <1>6, <1>7, <1>8, <1>9, <1>10

\* The halves of what sign returned.
LEMMA HalvesAre ==
  ASSUME NEW d, NEW f, IsEntry(d, f)
  PROVE  /\ d.sig.halves[1].by = d.by /\ d.sig.halves[1].msg = d.msg
         /\ d.sig.halves[1].first = None
         /\ d.sig.halves[1].scheme = (IF f = "Bls" THEN d.sig.scheme ELSE None)
         /\ IsHalf(d.sig.halves[1])
         /\ f \notin HybridFamilies => d.sig.halves = <<d.sig.halves[1]>>
         /\ f \in HybridFamilies =>
              /\ d.sig.halves = <<d.sig.halves[1], d.sig.halves[2]>>
              /\ d.sig.halves[2].by = d.by /\ d.sig.halves[2].msg = d.msg
              /\ d.sig.halves[2].first = d.sig.halves[1] /\ d.sig.halves[2].scheme = None
              /\ IsHalf(d.sig.halves[2])
<1>1. PICK call \in 1..MaxCalls, scheme \in (IF f = "Bls" THEN Schemes ELSE {None}) :
        d.sig.halves = Halves(f, d.by, d.msg, call, scheme) /\ d.sig.scheme = scheme
  BY DEF IsEntry
<1>2. d.by \in Origins /\ d.msg \in Messages
  BY ViewConstants DEF IsEntry
<1>3. ASSUME NEW first, NEW c \in Schemes \cup {None}
      PROVE  LET h == Half(d.by, d.msg, call, first, c)
             IN /\ h.by = d.by /\ h.msg = d.msg /\ h.first = first /\ h.scheme = c
                /\ IsHalf(h)
  BY <1>2 DEF Half, IsHalf
<1>4. CASE f \notin HybridFamilies
  <2>1. d.sig.halves = <<Half(d.by, d.msg, call, None, scheme)>>
    BY <1>1, <1>4 DEF Halves
  <2>2. d.sig.halves[1] = Half(d.by, d.msg, call, None, scheme)
    BY <2>1
  <2>3. scheme \in Schemes \cup {None} /\ scheme = (IF f = "Bls" THEN d.sig.scheme ELSE None)
    BY <1>1
  <2>4. QED
    BY <1>3, <1>4, <2>1, <2>2, <2>3
<1>5. CASE f \in HybridFamilies
  <2> DEFINE h1 == Half(d.by, d.msg, call, None, None)
             h2 == Half(d.by, d.msg, call, h1, None)
  <2>1. d.sig.halves = <<h1, h2>>
    BY <1>1, <1>5 DEF Halves, Nested
  <2>2. /\ h1.by = d.by /\ h1.msg = d.msg /\ h1.first = None /\ h1.scheme = None /\ IsHalf(h1)
        /\ h2.by = d.by /\ h2.msg = d.msg /\ h2.first = h1 /\ h2.scheme = None /\ IsHalf(h2)
    BY <1>3
  <2> HIDE DEF h1, h2
  <2>3. d.sig.halves[1] = h1 /\ d.sig.halves[2] = h2
    BY <2>1
  <2>4. f # "Bls"
    BY <1>5 DEF HybridFamilies
  <2>5. QED
    BY <1>5, <2>1, <2>2, <2>3, <2>4
<1>6. QED
  BY <1>4, <1>5

\* What sign returns is on record, and under way.
LEMMA SignKeeps ==
  ASSUME IInv, NEW m \in Messages, NEW combined \in BOOLEAN, NEW scheme \in Asks,
         Sign(m, combined, scheme)
  PROVE  IInv'
<1> DEFINE call == Cardinality(made) + 1
           s == SignWith(key, m, combined, call, scheme)
           d == [by |-> key.origin, msg |-> m, sig |-> s]
<1>1. /\ Cardinality(made) < MaxCalls /\ s # None
      /\ made' = made \cup {d} /\ sent' = s /\ key' = key
  BY DEF Sign
<1>2. /\ KeyOk(key) /\ IsFiniteSet(made) /\ Cardinality(made) \in Nat /\ MaxCalls \in Nat
      /\ \A e \in made : IsEntry(e, key.family)
  BY ViewConstants, FS_CardinalityType DEF IInv, MadeInv
<1>3. scheme \in (IF key.family = "Bls" THEN Schemes ELSE {None})
  BY DEF Asks
<1>4. call \in 1..MaxCalls
  BY <1>1, <1>2
<1>5. /\ key.role \in SecretRoles /\ ~ key.locked /\ key.family \in SigningFamilies
      /\ key.family = "X25519" => m \in Challenges
      /\ s = Signature(Halves(key.family, key.origin, m, call, scheme), m, combined, scheme,
                       key.role = "PrivShare")
  BY <1>1, <1>2, <1>3, SignIs
<1>6. d.by = key.origin /\ d.msg = m /\ d.sig = s
  OBVIOUS
<1> HIDE DEF d, call
<1>7. IsEntry(d, key.family)
  <2>1. /\ s.halves = Halves(key.family, key.origin, m, call, scheme)
        /\ s.scheme = scheme /\ IsMultisig(s)
        /\ s.embedded \in {m, Empty}
    BY <1>5 DEF Signature, IsMultisig
  <2>2. /\ s.share = (key.role = "PrivShare")
        /\ s.share \in BOOLEAN
    BY <1>5 DEF Signature
  <2>3. /\ key.origin \in Generated \cup Shares
        /\ key.role = "PrivShare" <=> key.origin \in Shares
    BY <1>2, <1>5, ViewConstants DEF KeyOk, SecretRoles
  <2>4. s.share <=> key.origin \in Shares
    BY <2>2, <2>3
  <2> HIDE DEF s
  <2>5. \E c \in 1..MaxCalls, x \in (IF key.family = "Bls" THEN Schemes ELSE {None}) :
          d.sig.halves = Halves(key.family, d.by, d.msg, c, x) /\ d.sig.scheme = x
    BY <1>3, <1>4, <1>6, <2>1
  <2>6. QED
    BY <1>5, <1>6, <2>1, <2>2, <2>3, <2>4, <2>5 DEF IsEntry
<1> HIDE DEF s
<1>8. MadeInv'
  <2>1. IsFiniteSet(made \cup {d}) /\ Cardinality(made \cup {d}) <= Cardinality(made) + 1
    <3>1. \/ Cardinality(made \cup {d}) = Cardinality(made)
          \/ Cardinality(made \cup {d}) = Cardinality(made) + 1
      BY <1>2, FS_AddElement
    <3>2. QED
      BY <1>2, <3>1, FS_AddElement
  <2>2. Cardinality(made \cup {d}) \in Nat
    BY <2>1, FS_CardinalityType
  <2>3. QED
    BY <1>1, <1>2, <1>7, <2>1, <2>2 DEF MadeInv
<1>9. SentInv'
  <2>1. /\ IsMultisig(s) /\ s.embedded \in Messages /\ s.share \in BOOLEAN
        /\ s.scheme \in Schemes \cup {None}
    BY <1>6, <1>7, FormConstants DEF IsEntry
  <2>2. \/ s.halves = <<d.sig.halves[1]>>
        \/ key.family \in HybridFamilies /\ s.halves = <<d.sig.halves[1], d.sig.halves[2]>>
    BY <1>6, <1>7, HalvesAre
  <2>3. d \in made'
    BY <1>1
  <2>4. QED
    BY <1>1, <2>1, <2>2, <2>3 DEF SentInv
<1>10. QED
  BY <1>1, <1>2, <1>8, <1>9 DEF IInv

\* Splice puts another in the place of the second of two halves.
LEMMA Spliced == \A a, b, c : [<<a, b>> EXCEPT ![2] = c] = <<a, c>>
OBVIOUS

\* What becomes of a signature under way.
LEMMA TravelKeeps ==
  ASSUME IInv, Travel
  PROVE  IInv'
<1>1. /\ sent # None /\ key' = key /\ made' = made
  BY DEF Travel, Resend, Splice, Truncate, Reembed, Rescheme
<1>2. /\ IsMultisig(sent)
      /\ sent.embedded \in Messages /\ sent.share \in BOOLEAN
      /\ sent.scheme \in Schemes \cup {None}
      /\ \A d \in made : IsEntry(d, key.family)
  BY <1>1 DEF IInv, SentInv, MadeInv
<1>3. PICK d1 \in made :
        \/ sent.halves = <<d1.sig.halves[1]>>
        \/ /\ key.family \in HybridFamilies
           /\ \E d2 \in made : sent.halves = <<d1.sig.halves[1], d2.sig.halves[2]>>
  BY <1>1 DEF IInv, SentInv
<1>4. /\ Len(sent.halves) = 2 => key.family \in HybridFamilies
      /\ sent.halves[1] = d1.sig.halves[1]
      /\ Len(sent.halves) = 2 => sent.halves = <<d1.sig.halves[1], sent.halves[2]>>
  BY <1>3
<1>5. CASE Resend
  <2>1. PICK d \in made : sent' = d.sig
    BY <1>5 DEF Resend
  <2>2. /\ IsMultisig(d.sig) /\ d.sig.embedded \in Messages /\ d.sig.share \in BOOLEAN
        /\ d.sig.scheme \in Schemes \cup {None}
    BY <1>2, FormConstants DEF IsEntry
  <2>3. \/ d.sig.halves = <<d.sig.halves[1]>>
        \/ key.family \in HybridFamilies /\ d.sig.halves = <<d.sig.halves[1], d.sig.halves[2]>>
    BY <1>2, HalvesAre
  <2>4. SentInv'
    BY <1>1, <2>1, <2>2, <2>3 DEF SentInv
  <2>5. QED
    BY <1>1, <2>4 DEF IInv, MadeInv
<1>6. ASSUME NEW h, sent' = [sent EXCEPT !.halves = h],
             \/ h = <<d1.sig.halves[1]>>
             \/ /\ key.family \in HybridFamilies
                /\ \E d2 \in made : h = <<d1.sig.halves[1], d2.sig.halves[2]>>
      PROVE  IInv'
  <2>1. /\ sent'.halves = h /\ IsMultisig(sent')
        /\ sent'.embedded = sent.embedded /\ sent'.share = sent.share
        /\ sent'.scheme = sent.scheme
    BY <1>2, <1>6 DEF IsMultisig
  <2>2. SentInv'
    BY <1>1, <1>2, <1>6, <2>1 DEF SentInv
  <2>3. QED
    BY <1>1, <2>2 DEF IInv, MadeInv
<1>7. CASE Splice
  <2>1. PICK d \in made : /\ Len(sent.halves) = 2
                          /\ sent' = [sent EXCEPT !.halves[2] = d.sig.halves[2]]
    BY <1>7 DEF Splice
  <2>2. [sent.halves EXCEPT ![2] = d.sig.halves[2]] = <<d1.sig.halves[1], d.sig.halves[2]>>
    BY <1>4, <2>1, Spliced
  <2>3. sent' = [sent EXCEPT !.halves = <<d1.sig.halves[1], d.sig.halves[2]>>]
    BY <2>1, <2>2
  <2>4. QED
    BY <1>4, <1>6, <2>1, <2>3
<1>8. CASE Truncate
  <2>1. sent' = [sent EXCEPT !.halves = <<d1.sig.halves[1]>>]
    BY <1>4, <1>8 DEF Truncate
  <2>2. QED
    BY <1>6, <2>1
<1>9. ASSUME NEW m \in Messages, Reembed(m) PROVE IInv'
  <2>1. /\ sent'.halves = sent.halves /\ IsMultisig(sent')
        /\ sent'.embedded = m /\ sent'.share = sent.share /\ sent'.scheme = sent.scheme
    BY <1>2, <1>9 DEF IsMultisig, Reembed
  <2>2. SentInv'
    BY <1>1, <1>2, <1>3, <2>1 DEF SentInv
  <2>3. QED
    BY <1>1, <2>2 DEF IInv, MadeInv
<1>10. ASSUME NEW c \in Schemes, Rescheme(c) PROVE IInv'
  <2>1. /\ sent'.halves = sent.halves /\ IsMultisig(sent')
        /\ sent'.embedded = sent.embedded /\ sent'.share = sent.share /\ sent'.scheme = c
    BY <1>2, <1>10 DEF IsMultisig, Rescheme
  <2>2. SentInv'
    BY <1>1, <1>2, <1>3, <2>1 DEF SentInv
  <2>3. QED
    BY <1>1, <2>2 DEF IInv, MadeInv
<1>11. QED
  BY <1>5, <1>7, <1>8, <1>9, <1>10 DEF Travel

LEMMA NextInv == ASSUME IInv, [Next]_vars PROVE IInv'
<1>1. ASSUME NEW m \in Messages, NEW combined \in BOOLEAN, NEW scheme \in Asks,
             Sign(m, combined, scheme)
      PROVE  IInv'
  BY <1>1, SignKeeps
<1>2. CASE Travel
  BY <1>2, TravelKeeps
<1>3. CASE UNCHANGED vars
  <2>1. key' = key /\ made' = made /\ sent' = sent
    BY <1>3 DEF vars
  <2>2. KeyOk(key)' /\ key'.family = key.family
    BY <2>1 DEF IInv
  <2>3. QED
    BY <2>1, <2>2, FormStep
<1>4. QED
  BY <1>1, <1>2, <1>3, FormsKeep DEF Next

\* The inductive invariant holds of every behaviour.
THEOREM Inductive == Spec => []IInv
BY InitInv, NextInv, PTL DEF Spec

\* Whatever chain of calls led to it, a form of a key has a codec that the crate
\* knows, and signatures have one half or two.
THEOREM TypeCorrect == Spec => []TypeOK
<1>1. ASSUME IInv PROVE CodecOf(key) \in AllCodecs /\ key \in Multikeys
  <2>1. KeyOk(key)
    BY <1>1 DEF IInv
  <2>2. CASE IsPair(key)
    BY <2>1, <2>2, Forms DEF IsPair, CodecOf, Codec, AllCodecs, Pairs, KeyOk
  <2>3. CASE ~ IsPair(key)
    <3>1. \/ key.family = "Bls"
          \/ key.family = "Lamport" /\ key.role = "PrivShare"
      BY <2>1, <2>3, Forms
    <3>2. key.role \in Roles
      BY <2>1, Forms
    <3>3. QED
      BY <2>1, <3>1, <3>2 DEF CodecOf, Codec, AllCodecs, OneTime, KeyOk
  <2>4. QED
    BY <2>2, <2>3
<1>2. ASSUME IInv, NEW d \in made
      PROVE  d.by \in Origins /\ d.msg \in Messages /\ IsSignature(d.sig)
  <2>1. IsEntry(d, key.family)
    BY <1>2 DEF IInv, MadeInv
  <2>2. \/ d.sig.halves = <<d.sig.halves[1]>> /\ IsHalf(d.sig.halves[1])
        \/ /\ d.sig.halves = <<d.sig.halves[1], d.sig.halves[2]>>
           /\ IsHalf(d.sig.halves[1]) /\ IsHalf(d.sig.halves[2])
    BY <2>1, HalvesAre
  <2>3. Len(d.sig.halves) \in {1, 2} /\ \A i \in DOMAIN d.sig.halves : IsHalf(d.sig.halves[i])
    BY <2>2
  <2>4. QED
    BY <2>1, <2>3, FormConstants, ViewConstants DEF IsEntry, IsSignature
<1>3. ASSUME IInv, sent # None PROVE IsSignature(sent)
  <2>1. PICK d \in made :
          \/ sent.halves = <<d.sig.halves[1]>>
          \/ /\ key.family \in HybridFamilies
             /\ \E d2 \in made : sent.halves = <<d.sig.halves[1], d2.sig.halves[2]>>
    BY <1>3 DEF IInv, SentInv
  <2>2. \A e \in made : IsEntry(e, key.family)
    BY <1>3 DEF IInv, MadeInv
  <2>3. \E h : /\ IsHalf(d.sig.halves[1])
               /\ \/ sent.halves = <<d.sig.halves[1]>>
                  \/ IsHalf(h) /\ sent.halves = <<d.sig.halves[1], h>>
    BY <2>1, <2>2, HalvesAre
  <2>4. Len(sent.halves) \in {1, 2} /\ \A i \in DOMAIN sent.halves : IsHalf(sent.halves[i])
    BY <2>3
  <2>5. QED
    BY <1>3, <2>4 DEF IInv, SentInv, IsSignature
<1>4. IInv => TypeOK
  BY <1>1, <1>2, <1>3 DEF TypeOK
<1>5. QED
  BY <1>4, Inductive, PTL

\* What a key signed verifies with every form of it that can verify, with the
\* message given and with the message embedded.
THEOREM GenuineSignaturesVerify == Spec => []GenuineVerifies
<1>1. ASSUME IInv, CanVerify(key), NEW d \in made, d.by = key.origin
      PROVE  Accepts(key, d.sig, d.msg)
  <2>1. KeyOk(key) /\ IsEntry(d, key.family)
    BY <1>1 DEF IInv, MadeInv
  <2>2. /\ d.msg # None /\ key.family \in SigningFamilies
        /\ key.family = "X25519" => d.msg \in Challenges
    BY <2>1, FormConstants DEF IsEntry
  <2>3. CASE key.family \in HybridFamilies
    <3>1. key.family # "Bls"
      BY <2>3 DEF HybridFamilies
    <3>2. Len(d.sig.halves) = 2
      <4>1. d.sig.halves = <<d.sig.halves[1], d.sig.halves[2]>>
        BY <2>1, <2>3, HalvesAre
      <4>2. QED
        BY <4>1
    <3>3. QED
      BY <1>1, <2>1, <2>2, <2>3, <3>1, <3>2, HalvesAre DEF Accepts, Checks
  <2>4. CASE key.family \notin HybridFamilies
    <3>1. Len(d.sig.halves) = 1
      <4>1. d.sig.halves = <<d.sig.halves[1]>>
        BY <2>1, <2>4, HalvesAre
      <4>2. QED
        BY <4>1
    <3>2. ASSUME key.family = "Bls"
          PROVE  d.sig.scheme \in Schemes /\ (IsPair(key) \/ d.sig.share)
      <4>1. d.sig.scheme \in Schemes /\ (d.sig.share <=> d.by \in Shares)
        BY <2>1, <3>2 DEF IsEntry
      <4>2. IsPair(key) \/ key.origin \in Shares
        BY <2>1, Forms DEF KeyOk, IsPair, Roles
      <4>3. QED
        BY <1>1, <4>1, <4>2
    <3>3. Checks(d.sig.halves[1], key.origin, d.msg, None,
                 IF key.family = "Bls" THEN d.sig.scheme ELSE None)
      BY <1>1, <2>1, HalvesAre DEF Checks
    <3>4. QED
      BY <2>2, <2>4, <3>1, <3>2, <3>3 DEF Accepts
  <2>5. QED
    BY <2>3, <2>4
<1>2. ASSUME IInv, CanVerify(key), NEW d \in made, d.by = key.origin
      PROVE  /\ VerifiesWith(key, d.sig, d.msg)
             /\ d.sig.embedded # Empty => VerifiesWith(key, d.sig, None)
  <2>1. KeyOk(key) /\ d.msg # None /\ d.sig.embedded \in {d.msg, Empty}
    BY <1>2, FormConstants DEF IInv, MadeInv, IsEntry
  <2>2. Effective(d.sig, d.msg) = d.msg
    BY <2>1 DEF Effective
  <2>3. d.sig.embedded # Empty => Effective(d.sig, None) = d.msg
    BY <2>1 DEF Effective
  <2>4. QED
    BY <1>1, <1>2, <2>1, <2>2, <2>3, VerifyIs
<1>3. IInv => GenuineVerifies
  BY <1>2 DEF GenuineVerifies
<1>4. QED
  BY <1>3, Inductive, PTL

\* Nothing else verifies: what some form of a key accepts, for the message given
\* or embedded, is in all its halves what one call of sign returned for it.
THEOREM OnlyGenuineVerify == Spec => []VerifiedIsGenuine
<1>1. ASSUME IInv, sent # None, NEW e, Accepts(key, sent, e)
      PROVE  \E d \in made : /\ d.by = key.origin /\ d.msg = e
                             /\ d.sig.halves = sent.halves
  <2>1. PICK d1 \in made :
          \/ sent.halves = <<d1.sig.halves[1]>>
          \/ /\ key.family \in HybridFamilies
             /\ \E d2 \in made : sent.halves = <<d1.sig.halves[1], d2.sig.halves[2]>>
    BY <1>1 DEF IInv, SentInv
  <2>2. \A d \in made : IsEntry(d, key.family)
    BY <1>1 DEF IInv, MadeInv
  <2>3. CASE key.family \in HybridFamilies
    <3>1. /\ Len(sent.halves) = 2
          /\ sent.halves[2].by = key.origin /\ sent.halves[2].msg = e
          /\ sent.halves[2].first = sent.halves[1]
      BY <1>1, <2>3 DEF Accepts, Checks
    <3>2. PICK d2 \in made : sent.halves = <<d1.sig.halves[1], d2.sig.halves[2]>>
      BY <2>1, <3>1
    <3>3. sent.halves[1] = d1.sig.halves[1] /\ sent.halves[2] = d2.sig.halves[2]
      BY <3>2
    <3>4. /\ d2.sig.halves = <<d2.sig.halves[1], d2.sig.halves[2]>>
          /\ d2.sig.halves[2].by = d2.by /\ d2.sig.halves[2].msg = d2.msg
          /\ d2.sig.halves[2].first = d2.sig.halves[1]
      BY <2>2, <2>3, HalvesAre
    <3>5. d1.sig.halves[1] = d2.sig.halves[1]
      BY <3>1, <3>3, <3>4
    <3>6. QED
      BY <3>1, <3>2, <3>3, <3>4, <3>5
  <2>4. CASE key.family \notin HybridFamilies
    <3>1. sent.halves = <<d1.sig.halves[1]>>
      BY <2>1, <2>4
    <3>2. sent.halves[1] = d1.sig.halves[1]
      BY <3>1
    <3>3. sent.halves[1].by = key.origin /\ sent.halves[1].msg = e
      BY <1>1, <2>4 DEF Accepts, Checks
    <3>4. /\ d1.sig.halves = <<d1.sig.halves[1]>>
          /\ d1.sig.halves[1].by = d1.by /\ d1.sig.halves[1].msg = d1.msg
      BY <2>2, <2>4, HalvesAre
    <3>5. QED
      BY <3>1, <3>2, <3>3, <3>4
  <2>5. QED
    BY <2>3, <2>4
<1>2. ASSUME IInv, sent # None, NEW arg \in Messages \cup {None}, VerifiesWith(key, sent, arg)
      PROVE  \E d \in made : /\ d.by = key.origin
                             /\ d.msg = (IF arg # None THEN arg ELSE sent.embedded)
                             /\ d.sig.halves = sent.halves
  <2>1. Accepts(key, sent, Effective(sent, arg))
    BY <1>2, VerifyIs DEF IInv
  <2>2. Effective(sent, arg) = (IF arg # None THEN arg ELSE sent.embedded)
    BY <2>1 DEF Accepts, Effective
  <2>3. QED
    BY <1>1, <1>2, <2>1, <2>2
<1>3. IInv => VerifiedIsGenuine
  BY <1>2 DEF VerifiedIsGenuine
<1>4. QED
  BY <1>3, Inductive, PTL

\* The forms of a key have one fingerprint, and no other key has it.
THEOREM KeysHaveOneIdentity == Spec => []OneIdentity
<1>1. ASSUME NEW f \in InFamilies, NEW o \in Generated
      PROVE  FingerprintOf(GeneratedKey(f, o)) = OpenBytes(o)
  <2> DEFINE g == GeneratedKey(f, o)
  <2>1. KeyOk(g)
    BY MadeForms DEF GeneratedKey
  <2>2. g.origin = o /\ ~ g.locked /\ IsPair(g)
    BY DEF GeneratedKey, Multikey, IsPair
  <2> HIDE DEF g
  <2>3. FingerprintOf(g) = OpenBytes(o)
    BY <2>1, <2>2, FingerprintIs
  <2>4. QED
    BY <2>3 DEF g
<1>2. ASSUME NEW o \in Shares, "Bls" \in InFamilies
      PROVE  FingerprintOf(Multikey("Bls", "PrivShare", o, TRUE)) = OpenBytes(o)
  <2> DEFINE g == Multikey("Bls", "PrivShare", o, TRUE)
  <2>1. KeyOk(g)
    BY <1>2, MadeForms
  <2>2. g.origin = o /\ ~ g.locked /\ CanVerify(g)
    BY DEF Multikey, CanVerify
  <2> HIDE DEF g
  <2>3. FingerprintOf(g) = OpenBytes(o)
    BY <2>1, <2>2, FingerprintIs
  <2>4. QED
    BY <2>3 DEF g
<1>3. ASSUME NEW o \in Origins PROVE OpenBytes(o) # None
  <2>1. OpenBytes(o) \in [origin : Origins, secret : BOOLEAN, longer : BOOLEAN]
    BY DEF OpenBytes
  <2>2. QED
    BY <2>1, ViewConstants
<1>4. ASSUME IInv, ~ key.locked PROVE OneIdentity
  <2>1. KeyOk(key) /\ key.family \in InFamilies /\ key.origin \in Origins
    BY <1>4, Forms DEF IInv, KeyOk
  <2>2. ASSUME IsPair(key)
        PROVE  /\ FingerprintOf(key) = FingerprintOf(GeneratedKey(key.family, key.origin))
               /\ FingerprintOf(key) # None
    <3>1. key.origin \in Generated
      BY <2>1, <2>2 DEF KeyOk, IsPair
    <3>2. QED
      BY <1>1, <1>3, <1>4, <2>1, <2>2, <3>1, FingerprintIs
  <2>3. ASSUME ~ IsPair(key), CanVerify(key)
        PROVE  LET share == Multikey(key.family, "PrivShare", key.origin, TRUE)
               IN FingerprintOf(key) = FingerprintOf(share) /\ FingerprintOf(key) # None
    <3>1. key.family = "Bls" /\ key.origin \in Shares
      BY <2>1, <2>3, Forms DEF CanVerify, IsPair, KeyOk, Roles
    <3>2. QED
      BY <1>2, <1>3, <1>4, <2>1, <2>3, <3>1, FingerprintIs
  <2>4. ASSUME NEW o \in Generated \ {key.origin}
        PROVE  FingerprintOf(key) # FingerprintOf(GeneratedKey(key.family, o))
    <3>1. FingerprintOf(GeneratedKey(key.family, o)) = OpenBytes(o)
      BY <1>1, <2>1
    <3>2. OpenBytes(o).origin = o /\ OpenBytes(o) # None
      BY <1>3, ViewConstants DEF OpenBytes
    <3>3. FingerprintOf(key) \in {None, KeyBytes(key), OpenBytes(key.origin)}
      BY <2>1, FingerprintIs
    <3>4. KeyBytes(key).origin = key.origin /\ OpenBytes(key.origin).origin = key.origin
      BY DEF KeyBytes, OpenBytes
    <3>5. QED
      BY <3>1, <3>2, <3>3, <3>4
  <2>5. QED
    BY <2>2, <2>3, <2>4 DEF OneIdentity, IsPair
<1>5. IInv => OneIdentity
  BY <1>4 DEF OneIdentity
<1>6. QED
  BY <1>5, Inductive, PTL

\* A key encrypted at rest neither signs nor verifies, and shows neither a public
\* key nor a fingerprint, nor is it written to a file.
THEOREM LockedKeysWait == Spec => []LockedIsInert
<1>1. ASSUME IInv, key.locked PROVE LockedIsInert
  <2>1. KeyOk(key)
    BY <1>1 DEF IInv
  <2>2. /\ PublicKeyOf(key) = None /\ FingerprintOf(key) = None
        /\ SshPublicOf(key) = None /\ SshPrivateOf(key) = None
    BY <1>1, <2>1, PublicGives, FingerprintIs, FilesWritten
  <2>3. ASSUME NEW m \in Messages, NEW scheme \in Asks
        PROVE  SignWith(key, m, TRUE, 1, scheme) = None
    BY <1>1, <2>1, <2>3, SignIs DEF Asks
  <2>4. \A d \in made : ~ VerifiesWith(key, d.sig, d.msg)
    BY <1>1, <2>1, VerifyIs DEF CanVerify
  <2>5. QED
    BY <2>2, <2>3, <2>4 DEF LockedIsInert
<1>2. IInv => LockedIsInert
  BY <1>1 DEF LockedIsInert
<1>3. QED
  BY <1>2, Inductive, PTL
=============================================================================
