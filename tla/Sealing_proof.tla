------------------------------ MODULE Sealing_proof ------------------------------
(***************************************************************************)
(* Proofs about Sealing, for every set of holders, texts, associated data  *)
(* and AEADs, every family and every number of calls of seal.              *)
(***************************************************************************)
EXTENDS Sealing, FiniteSetTheorems, TLAPS

\* The families by the shape of what they seal.
Kems == KemFamilies \cup {"Rsa"}

LEMMA Shapes == SealingFamilies = EcdhFamilies \cup Kems \cup HybridKems \cup {"Bls"}
BY DEF SealingFamilies, EcdhFamilies, Kems, KemFamilies, HybridKems

\* The dispatcher finds the views of a family's key pair.
LEMMA ViewsFound ==
  ASSUME NEW k, k.family \in SealingFamilies, k.role \in {"Priv", "Pub"}
  PROVE  DispatchSeal(Asked(k)).view = k.family /\ DispatchOpen(Asked(k)).view = k.family
BY DEF DispatchSeal, DispatchOpen, Asked, CodecOf, Codec, Pairs, View

\* seal of every family is seal of its shape.
LEMMA EcdhSeals ==
  ASSUME NEW k, k.family \in EcdhFamilies, k.role \in {"Priv", "Pub"},
         NEW text, NEW aead, NEW aad, NEW call, SealWith(k, text, aead, aad, call) # None
  PROVE  SealWith(k, text, aead, aad, call) =
           SealResult(EncodeSealed(aead,
             AeadSeal(aead, DeriveAeadKey(Dh(k.origin, call), k.family), text, aad)), call)
<1>1. DispatchSeal(Asked(k)).view = k.family
  BY ViewsFound, Shapes
<1>2. CASE k.family = "X25519"
  <2>1. SealWith(k, text, aead, aad, call) = X25519Seal(k, text, aead, aad, call)
    BY <1>1, <1>2 DEF SealWith
  <2>2. QED
    BY <1>2, <2>1 DEF X25519Seal, EcdhSeal
<1>3. CASE k.family = "Secp256k1"
  <2>1. SealWith(k, text, aead, aad, call) = Secp256k1Seal(k, text, aead, aad, call)
    BY <1>1, <1>3 DEF SealWith
  <2>2. QED
    BY <1>3, <2>1 DEF Secp256k1Seal, EcdhSeal
<1>4. CASE k.family = "NistP"
  <2>1. SealWith(k, text, aead, aad, call) = NistPSeal(k, text, aead, aad, call)
    BY <1>1, <1>4 DEF SealWith
  <2>2. QED
    BY <1>4, <2>1 DEF NistPSeal, EcdhSeal
<1>5. QED
  BY <1>2, <1>3, <1>4 DEF EcdhFamilies

LEMMA KemSeals ==
  ASSUME NEW k, k.family \in Kems, k.role \in {"Priv", "Pub"},
         NEW text, NEW aead, NEW aad, NEW call, SealWith(k, text, aead, aad, call) # None
  PROVE  SealWith(k, text, aead, aad, call) =
           SealResult(EncodeKemSealed(Encapsulate(k, call), aead,
             AeadSeal(aead, DeriveAeadKey(Encapsulate(k, call), k.family), text, aad)), None)
<1>1. DispatchSeal(Asked(k)).view = k.family
  BY ViewsFound, Shapes
<1>2. CASE k.family = "MlKem"
  <2>1. SealWith(k, text, aead, aad, call) = MlKemSeal(k, text, aead, aad, call)
    BY <1>1, <1>2 DEF SealWith
  <2>2. QED
    BY <1>2, <2>1 DEF MlKemSeal, KemSeal
<1>3. CASE k.family = "Sntrup"
  <2>1. SealWith(k, text, aead, aad, call) = SntrupSeal(k, text, aead, aad, call)
    BY <1>1, <1>3 DEF SealWith
  <2>2. QED
    BY <1>3, <2>1 DEF SntrupSeal, KemSeal
<1>4. CASE k.family = "FrodoKem"
  <2>1. SealWith(k, text, aead, aad, call) = FrodoKemSeal(k, text, aead, aad, call)
    BY <1>1, <1>4 DEF SealWith
  <2>2. QED
    BY <1>4, <2>1 DEF FrodoKemSeal, KemSeal
<1>5. CASE k.family = "ClassicMceliece"
  <2>1. SealWith(k, text, aead, aad, call) = ClassicMcelieceSeal(k, text, aead, aad, call)
    BY <1>1, <1>5 DEF SealWith
  <2>2. QED
    BY <1>5, <2>1 DEF ClassicMcelieceSeal, KemSeal
<1>6. CASE k.family = "Rsa"
  <2>1. SealWith(k, text, aead, aad, call) = RsaSeal(k, text, aead, aad, call)
    BY <1>1, <1>6 DEF SealWith
  <2>2. QED
    BY <1>6, <2>1 DEF RsaSeal, KemSeal
<1>7. QED
  BY <1>2, <1>3, <1>4, <1>5, <1>6 DEF Kems, KemFamilies

LEMMA HybridSeals ==
  ASSUME NEW k, k.family \in HybridKems, k.role \in {"Priv", "Pub"},
         NEW text, NEW aead, NEW aad, NEW call, SealWith(k, text, aead, aad, call) # None
  PROVE  SealWith(k, text, aead, aad, call) =
           SealResult(EncodeHybridSealed(call, Encapsulate(k, call),
             AeadSeal(HybridAead,
               DeriveAeadKey(Combine(Encapsulate(k, call), Dh(k.origin, call),
                                     Encapsulate(k, call), call), k.family),
               text, aad)), None)
<1>1. DispatchSeal(Asked(k)).view = k.family
  BY ViewsFound, Shapes
<1>2. CASE k.family = "X25519MlKem768"
  <2>1. SealWith(k, text, aead, aad, call) = X25519MlKem768Seal(k, text, aead, aad, call)
    BY <1>1, <1>2 DEF SealWith
  <2>2. QED
    BY <1>2, <2>1 DEF X25519MlKem768Seal, HybridSeal
<1>3. CASE k.family = "X25519Sntrup761"
  <2>1. SealWith(k, text, aead, aad, call) = X25519Sntrup761Seal(k, text, aead, aad, call)
    BY <1>1, <1>3 DEF SealWith
  <2>2. QED
    BY <1>3, <2>1 DEF X25519Sntrup761Seal, HybridSeal
<1>4. CASE k.family = "X25519FrodoKem640"
  <2>1. SealWith(k, text, aead, aad, call) = X25519FrodoKem640Seal(k, text, aead, aad, call)
    BY <1>1, <1>4 DEF SealWith
  <2>2. QED
    BY <1>4, <2>1 DEF X25519FrodoKem640Seal, HybridSeal
<1>5. CASE k.family = "X25519Mceliece348864"
  <2>1. SealWith(k, text, aead, aad, call) = X25519Mceliece348864Seal(k, text, aead, aad, call)
    BY <1>1, <1>5 DEF SealWith
  <2>2. QED
    BY <1>5, <2>1 DEF X25519Mceliece348864Seal, HybridSeal
<1>6. QED
  BY <1>2, <1>3, <1>4, <1>5 DEF HybridKems

LEMMA BlsSeals ==
  ASSUME NEW k, k.family = "Bls", k.role \in {"Priv", "Pub"},
         NEW text, NEW aead, NEW aad, NEW call, SealWith(k, text, aead, aad, call) # None
  PROVE  SealWith(k, text, aead, aad, call) =
           SealResult(EncodeKemSealed(Encapsulate(k, call), None,
             AeadSeal(None, DeriveAeadKey(Encapsulate(k, call), "TimeCrypt"), text, None)), None)
<1>1. DispatchSeal(Asked(k)).view = k.family
  BY ViewsFound, Shapes
<1>2. SealWith(k, text, aead, aad, call) = BlsSeal(k, text, aead, aad, call)
  BY <1>1 DEF SealWith
<1>3. QED
  BY <1>2 DEF BlsSeal

\* open of every family is open of its shape, and takes a private key in the
\* open: a private key that is locked does not parse, a public one is no secret.
Opens(k, frame0, eph0, aad) == OpenWith(k, frame0, eph0, aad) # None

LEMMA EcdhOpens ==
  ASSUME NEW k, k.family \in EcdhFamilies, k.role \in {"Priv", "Pub"},
         NEW frame0, NEW eph0, NEW aad, Opens(k, frame0, eph0, aad)
  PROVE  /\ k.role = "Priv" /\ ~ k.locked /\ eph0 # None
         /\ OpenWith(k, frame0, eph0, aad) = frame0.body.text
         /\ frame0.body = AeadSeal(frame0.codec, DeriveAeadKey(Dh(k.origin, eph0), k.family),
                                   frame0.body.text, aad)
<1>1. DispatchOpen(Asked(k)).view = k.family
  BY ViewsFound, Shapes
<1>2. CASE k.family = "X25519"
  <2>1. OpenWith(k, frame0, eph0, aad) = X25519Open(k, frame0, eph0, aad)
    BY <1>1, <1>2 DEF OpenWith
  <2>2. QED
    BY <1>2, <2>1 DEF Opens, X25519Open, X25519Attr, EcdhOpen, AeadOpen,
          Usable, HasSecret, Parses, Aware, Unaware, Attr
<1>3. CASE k.family = "Secp256k1"
  <2>1. OpenWith(k, frame0, eph0, aad) = Secp256k1Open(k, frame0, eph0, aad)
    BY <1>1, <1>3 DEF OpenWith
  <2>2. QED
    BY <1>3, <2>1 DEF Opens, Secp256k1Open, Secp256k1Attr, EcdhOpen, AeadOpen,
          Usable, HasSecret, Parses, Aware, Unaware, Attr
<1>4. CASE k.family = "NistP"
  <2>1. OpenWith(k, frame0, eph0, aad) = NistPOpen(k, frame0, eph0, aad)
    BY <1>1, <1>4 DEF OpenWith
  <2>2. QED
    BY <1>4, <2>1 DEF Opens, NistPOpen, NistPAttr, EcdhOpen, AeadOpen,
          Usable, HasSecret, Parses, Aware, Unaware, Attr
<1>5. QED
  BY <1>2, <1>3, <1>4 DEF EcdhFamilies

LEMMA KemOpens ==
  ASSUME NEW k, k.family \in Kems, k.role \in {"Priv", "Pub"},
         NEW frame0, NEW eph0, NEW aad, Opens(k, frame0, eph0, aad)
  PROVE  /\ k.role = "Priv" /\ ~ k.locked
         /\ OpenWith(k, frame0, eph0, aad) = frame0.body.text
         /\ frame0.body = AeadSeal(frame0.codec,
                                   DeriveAeadKey(Decapsulate(k, frame0.kem), k.family),
                                   frame0.body.text, aad)
<1>1. DispatchOpen(Asked(k)).view = k.family
  BY ViewsFound, Shapes
<1>2. CASE k.family = "MlKem"
  <2>1. OpenWith(k, frame0, eph0, aad) = MlKemOpen(k, frame0, eph0, aad)
    BY <1>1, <1>2 DEF OpenWith
  <2>2. QED
    BY <1>2, <2>1 DEF Opens, MlKemOpen, MlKemAttr, KemOpen, AeadOpen,
          Usable, HasSecret, Parses, Aware, Unaware, Attr
<1>3. CASE k.family = "Sntrup"
  <2>1. OpenWith(k, frame0, eph0, aad) = SntrupOpen(k, frame0, eph0, aad)
    BY <1>1, <1>3 DEF OpenWith
  <2>2. QED
    BY <1>3, <2>1 DEF Opens, SntrupOpen, SntrupAttr, KemOpen, AeadOpen,
          Usable, HasSecret, Parses, Aware, Unaware, Attr
<1>4. CASE k.family = "FrodoKem"
  <2>1. OpenWith(k, frame0, eph0, aad) = FrodoKemOpen(k, frame0, eph0, aad)
    BY <1>1, <1>4 DEF OpenWith
  <2>2. QED
    BY <1>4, <2>1 DEF Opens, FrodoKemOpen, FrodoKemAttr, KemOpen, AeadOpen,
          Usable, HasSecret, Parses, Aware, Unaware, Attr
<1>5. CASE k.family = "ClassicMceliece"
  <2>1. OpenWith(k, frame0, eph0, aad) = ClassicMcelieceOpen(k, frame0, eph0, aad)
    BY <1>1, <1>5 DEF OpenWith
  <2>2. QED
    BY <1>5, <2>1 DEF Opens, ClassicMcelieceOpen, ClassicMcelieceAttr, KemOpen, AeadOpen,
          Usable, HasSecret, Parses, Aware, Unaware, Attr
<1>6. CASE k.family = "Rsa"
  <2>1. OpenWith(k, frame0, eph0, aad) = RsaOpen(k, frame0, eph0, aad)
    BY <1>1, <1>6 DEF OpenWith
  <2>2. QED
    BY <1>6, <2>1 DEF Opens, RsaOpen, RsaAttr, KemOpen, AeadOpen,
          Usable, HasSecret, Parses, Aware, Unaware, Attr
<1>7. QED
  BY <1>2, <1>3, <1>4, <1>5, <1>6 DEF Kems, KemFamilies

LEMMA HybridOpens ==
  ASSUME NEW k, k.family \in HybridKems, k.role \in {"Priv", "Pub"},
         NEW frame0, NEW eph0, NEW aad, Opens(k, frame0, eph0, aad)
  PROVE  /\ k.role = "Priv" /\ ~ k.locked
         /\ OpenWith(k, frame0, eph0, aad) = frame0.body.text
         /\ frame0.body =
              AeadSeal(HybridAead,
                DeriveAeadKey(Combine(Decapsulate(k, frame0.kem), Dh(k.origin, frame0.eph),
                                      frame0.kem, frame0.eph), k.family),
                frame0.body.text, aad)
<1>1. DispatchOpen(Asked(k)).view = k.family
  BY ViewsFound, Shapes
<1>2. CASE k.family = "X25519MlKem768"
  <2>1. OpenWith(k, frame0, eph0, aad) = X25519MlKem768Open(k, frame0, eph0, aad)
    BY <1>1, <1>2 DEF OpenWith
  <2>2. QED
    BY <1>2, <2>1 DEF Opens, X25519MlKem768Open, X25519MlKem768Attr, HybridOpen, AeadOpen,
          Usable, HasSecret, Parses, Aware, Unaware, Attr
<1>3. CASE k.family = "X25519Sntrup761"
  <2>1. OpenWith(k, frame0, eph0, aad) = X25519Sntrup761Open(k, frame0, eph0, aad)
    BY <1>1, <1>3 DEF OpenWith
  <2>2. QED
    BY <1>3, <2>1 DEF Opens, X25519Sntrup761Open, X25519Sntrup761Attr, HybridOpen, AeadOpen,
          Usable, HasSecret, Parses, Aware, Unaware, Attr
<1>4. CASE k.family = "X25519FrodoKem640"
  <2>1. OpenWith(k, frame0, eph0, aad) = X25519FrodoKem640Open(k, frame0, eph0, aad)
    BY <1>1, <1>4 DEF OpenWith
  <2>2. QED
    BY <1>4, <2>1 DEF Opens, X25519FrodoKem640Open, X25519FrodoKem640Attr, HybridOpen, AeadOpen,
          Usable, HasSecret, Parses, Aware, Unaware, Attr
<1>5. CASE k.family = "X25519Mceliece348864"
  <2>1. OpenWith(k, frame0, eph0, aad) = X25519Mceliece348864Open(k, frame0, eph0, aad)
    BY <1>1, <1>5 DEF OpenWith
  <2>2. QED
    BY <1>5, <2>1 DEF Opens, X25519Mceliece348864Open, X25519Mceliece348864Attr, HybridOpen, AeadOpen,
          Usable, HasSecret, Parses, Aware, Unaware, Attr
<1>6. QED
  BY <1>2, <1>3, <1>4, <1>5 DEF HybridKems

LEMMA BlsOpens ==
  ASSUME NEW k, k.family = "Bls", k.role \in {"Priv", "Pub"},
         NEW frame0, NEW eph0, NEW aad, Opens(k, frame0, eph0, aad)
  PROVE  /\ k.role = "Priv" /\ ~ k.locked
         /\ OpenWith(k, frame0, eph0, aad) = frame0.body.text
         /\ frame0.body = AeadSeal(None, DeriveAeadKey(Decapsulate(k, frame0.kem), "TimeCrypt"),
                                   frame0.body.text, None)
<1>1. DispatchOpen(Asked(k)).view = k.family
  BY ViewsFound, Shapes
<1>2. OpenWith(k, frame0, eph0, aad) = BlsOpen(k, frame0, eph0, aad)
  BY <1>1 DEF OpenWith
<1>3. QED
  BY <1>2 DEF Opens, BlsOpen, AeadOpen, Usable, Parses
-----------------------------------------------------------------------------
Ct(d) == [to |-> d.to, call |-> d.call]

\* What a call of seal returned, by the shape of the family.
Authentic(d) ==
  /\ family \in EcdhFamilies =>
       /\ d.eph = d.call
       /\ \E codec : d.frame = EncodeSealed(codec,
            AeadSeal(codec, DeriveAeadKey(Dh(d.to, d.call), family), d.text, d.aad))
  /\ family \in Kems =>
       /\ d.eph = None
       /\ \E codec : d.frame = EncodeKemSealed(Ct(d), codec,
            AeadSeal(codec, DeriveAeadKey(Ct(d), family), d.text, d.aad))
  /\ family \in HybridKems =>
       /\ d.eph = None
       /\ d.frame = EncodeHybridSealed(d.call, Ct(d),
            AeadSeal(HybridAead,
              DeriveAeadKey(Combine(Ct(d), Dh(d.to, d.call), Ct(d), d.call), family),
              d.text, d.aad))
  /\ family = "Bls" =>
       /\ d.eph = None
       /\ d.frame = EncodeKemSealed(Ct(d), None,
            AeadSeal(None, DeriveAeadKey(Ct(d), "TimeCrypt"), d.text, None))

\* Every message is of one call of seal.
CallsKnown ==
  /\ IsFiniteSet(sealed)
  /\ \A d \in sealed : /\ d.to \in Holders /\ d.text \in Texts /\ d.aad \in Aads
                       /\ d.call \in 1..Cardinality(sealed)
                       /\ Authentic(d)
  /\ \A d, e \in sealed : d.call = e.call => d = e

\* What is on the way is put together from parts of messages.
PartsKnown ==
  /\ frame # None =>
       \E d, e, f, g \in sealed :
         frame = [eph |-> d.frame.eph, kem |-> e.frame.kem,
                  codec |-> f.frame.codec, body |-> g.frame.body]
  /\ eph # None => \E d \in sealed : eph = d.eph

IInv == family \in InFamilies /\ CallsKnown /\ PartsKnown /\ OpenedAsSealed

LEMMA InitInv == Init => IInv
<1>1. Init => IsFiniteSet(sealed)
  BY FS_EmptySet DEF Init
<1>2. QED
  BY <1>1 DEF Init, IInv, CallsKnown, PartsKnown, OpenedAsSealed

\* A frame is the record of its four parts.
LEMMA FrameOf ==
  ASSUME NEW d, family \in SealingFamilies, Authentic(d)
  PROVE  d.frame = [eph |-> d.frame.eph, kem |-> d.frame.kem,
                    codec |-> d.frame.codec, body |-> d.frame.body]
BY Shapes DEF Authentic, EncodeSealed, EncodeKemSealed, EncodeHybridSealed

LEMMA SealKeeps ==
  ASSUME IInv, NEW h \in Holders, NEW text \in Texts, NEW aead \in Aeads, NEW aad \in Aads,
         Seal(h, text, aead, aad)
  PROVE  IInv'
<1> DEFINE k    == PublicKeyOfHolder(h)
           call == Cardinality(sealed) + 1
           r    == SealWith(k, text, aead, aad, call)
           d    == [to |-> h, text |-> text, aad |-> aad, call |-> call,
                    frame |-> r.frame, eph |-> r.eph]
<1>1. /\ r # None /\ sealed' = sealed \cup {d}
      /\ family' = family /\ frame' = frame /\ eph' = eph /\ opened' = opened
  BY DEF Seal
<1>2. family \in SealingFamilies /\ k.family = family /\ k.role = "Pub" /\ k.origin = h
  BY SealConstants DEF IInv, PublicKeyOfHolder, Multikey
<1>3. IsFiniteSet(sealed) /\ Cardinality(sealed) \in Nat
  BY FS_CardinalityType DEF IInv, CallsKnown
<1>4. d \notin sealed
  BY <1>3 DEF IInv, CallsKnown
<1>5. IsFiniteSet(sealed') /\ Cardinality(sealed') = call
  BY <1>1, <1>3, <1>4, FS_AddElement
<1>6. Encapsulate(k, call) = Ct(d)
  BY <1>2 DEF Encapsulate, Ct
<1>7. Authentic(d)
  <2>1. ASSUME family \in EcdhFamilies
        PROVE  /\ d.eph = call
               /\ d.frame = EncodeSealed(aead, AeadSeal(aead, DeriveAeadKey(Dh(h, call), family), text, aad))
    <3>1. r = SealResult(EncodeSealed(aead,
                AeadSeal(aead, DeriveAeadKey(Dh(h, call), family), text, aad)), call)
      BY <1>1, <1>2, <2>1, EcdhSeals
    <3>2. QED
      BY <3>1 DEF SealResult
  <2>2. ASSUME family \in Kems
        PROVE  /\ d.eph = None
               /\ d.frame = EncodeKemSealed(Ct(d), aead, AeadSeal(aead, DeriveAeadKey(Ct(d), family), text, aad))
    <3>1. r = SealResult(EncodeKemSealed(Ct(d), aead,
                AeadSeal(aead, DeriveAeadKey(Ct(d), family), text, aad)), None)
      BY <1>1, <1>2, <1>6, <2>2, KemSeals
    <3>2. QED
      BY <3>1 DEF SealResult
  <2>3. ASSUME family \in HybridKems
        PROVE  /\ d.eph = None
               /\ d.frame = EncodeHybridSealed(call, Ct(d),
                    AeadSeal(HybridAead,
                      DeriveAeadKey(Combine(Ct(d), Dh(h, call), Ct(d), call), family), text, aad))
    <3>1. r = SealResult(EncodeHybridSealed(call, Ct(d),
                AeadSeal(HybridAead,
                  DeriveAeadKey(Combine(Ct(d), Dh(h, call), Ct(d), call), family), text, aad)), None)
      BY <1>1, <1>2, <1>6, <2>3, HybridSeals
    <3>2. QED
      BY <3>1 DEF SealResult
  <2>4. ASSUME family = "Bls"
        PROVE  /\ d.eph = None
               /\ d.frame = EncodeKemSealed(Ct(d), None,
                    AeadSeal(None, DeriveAeadKey(Ct(d), "TimeCrypt"), text, None))
    <3>1. r = SealResult(EncodeKemSealed(Ct(d), None,
                AeadSeal(None, DeriveAeadKey(Ct(d), "TimeCrypt"), text, None)), None)
      BY <1>1, <1>2, <1>6, <2>4, BlsSeals
    <3>2. QED
      BY <3>1 DEF SealResult
  <2>5. d.to = h /\ d.text = text /\ d.aad = aad /\ d.call = call
    OBVIOUS
  <2>6. QED
    BY <2>1, <2>2, <2>3, <2>4, <2>5 DEF Authentic
<1>8. \A e : Authentic(e)' <=> Authentic(e)
  BY <1>1 DEF Authentic
<1>9. CallsKnown'
  <2>1. \A e \in sealed' : /\ e.to \in Holders /\ e.text \in Texts /\ e.aad \in Aads
                           /\ e.call \in 1..call /\ Authentic(e)
    BY <1>1, <1>3, <1>7 DEF IInv, CallsKnown
  <2>2. \A e, f \in sealed' : e.call = f.call => e = f
    BY <1>1, <1>3 DEF IInv, CallsKnown
  <2>3. QED
    BY <1>5, <1>8, <2>1, <2>2 DEF CallsKnown
<1>10. PartsKnown'
  BY <1>1 DEF IInv, PartsKnown
<1>11. OpenedAsSealed'
  BY <1>1 DEF IInv, OpenedAsSealed, PrivateKeyOfHolder, Label
<1>12. QED
  BY <1>1, <1>9, <1>10, <1>11 DEF IInv

\* Only frame and eph change, and both to parts that are known.
LEMMA ArrivalKeeps ==
  ASSUME IInv, PartsKnown', UNCHANGED <<family, sealed, opened>>
  PROVE  IInv'
<1>1. CallsKnown'
  BY DEF IInv, CallsKnown, Authentic
<1>2. OpenedAsSealed'
  BY DEF IInv, OpenedAsSealed, PrivateKeyOfHolder, Label
<1>3. QED
  BY <1>1, <1>2 DEF IInv

LEMMA FrameKeeps == IInv /\ ReceiveFrame => IInv'
<1> SUFFICES ASSUME IInv, ReceiveFrame PROVE IInv'
  OBVIOUS
<1>1. PICK d \in sealed : frame' = d.frame
  BY DEF ReceiveFrame
<1>2. d.frame = [eph |-> d.frame.eph, kem |-> d.frame.kem,
                 codec |-> d.frame.codec, body |-> d.frame.body]
  BY FrameOf, SealConstants DEF IInv, CallsKnown
<1>3. PartsKnown'
  BY <1>1, <1>2 DEF ReceiveFrame, IInv, PartsKnown
<1>4. QED
  BY <1>3, ArrivalKeeps DEF ReceiveFrame

LEMMA EphKeeps == IInv /\ ReceiveEph => IInv'
<1> SUFFICES ASSUME IInv, ReceiveEph PROVE IInv'
  OBVIOUS
<1>1. PartsKnown'
  BY DEF ReceiveEph, IInv, PartsKnown
<1>2. QED
  BY <1>1, ArrivalKeeps DEF ReceiveEph

LEMMA MixKeeps == IInv /\ MixFrames => IInv'
<1> SUFFICES ASSUME IInv, MixFrames PROVE IInv'
  OBVIOUS
<1>1. PICK m \in sealed : Mix(m)
  BY DEF MixFrames
<1>2. PICK d \in sealed, e \in sealed, f \in sealed, g \in sealed :
        frame = [eph |-> d.frame.eph, kem |-> e.frame.kem,
                 codec |-> f.frame.codec, body |-> g.frame.body]
  BY DEF MixFrames, IInv, PartsKnown
<1>3. \/ frame' = [eph |-> m.frame.eph, kem |-> e.frame.kem,
                   codec |-> f.frame.codec, body |-> g.frame.body]
      \/ frame' = [eph |-> d.frame.eph, kem |-> m.frame.kem,
                   codec |-> f.frame.codec, body |-> g.frame.body]
      \/ frame' = [eph |-> d.frame.eph, kem |-> e.frame.kem,
                   codec |-> m.frame.codec, body |-> g.frame.body]
  BY <1>1, <1>2 DEF Mix
<1>4. PartsKnown'
  BY <1>3 DEF MixFrames, IInv, PartsKnown
<1>5. QED
  BY <1>4, ArrivalKeeps DEF MixFrames
-----------------------------------------------------------------------------
\* A Diffie-Hellman of a holder's key and a call's says which they are: the
\* keys of calls are nobody's.
LEMMA DhParts ==
  ASSUME NEW o \in Holders, NEW p \in Holders, NEW x \in Nat, NEW y \in Nat, Dh(o, x) = Dh(p, y)
  PROVE  o = p /\ x = y
<1>1. o \in Origins /\ p \in Origins /\ o \notin Nat /\ p \notin Nat
  BY SealConstants
<1>2. o \in {p, y} /\ p \in {o, x} /\ x \in {p, y}
  BY DEF Dh
<1>3. o = p
  BY <1>1, <1>2
<1>4. x = y
  BY <1>1, <1>2
<1>5. QED
  BY <1>3, <1>4

\* Equal parts of bodies are of equal secrets, texts and associated data.
LEMMA BodyParts ==
  ASSUME NEW c, NEW s, NEW i, NEW t, NEW a, NEW c2, NEW s2, NEW i2, NEW t2, NEW a2,
         AeadSeal(c, DeriveAeadKey(s, i), t, a) = AeadSeal(c2, DeriveAeadKey(s2, i2), t2, a2)
  PROVE  c = c2 /\ s = s2 /\ t = t2 /\ a = a2
<1>1. /\ c = c2 /\ t = t2 /\ a = a2 /\ DeriveAeadKey(s, i) = DeriveAeadKey(s2, i2)
  BY DEF AeadSeal
<1>2. s = s2
  BY <1>1 DEF DeriveAeadKey
<1>3. QED
  BY <1>1, <1>2

\* A message's frame, by the shape of the family.
LEMMA MessageOf ==
  ASSUME IInv, NEW x \in sealed
  PROVE  /\ Authentic(x) /\ x.to \in Holders /\ x.call \in Nat
         /\ x.frame = [eph |-> x.frame.eph, kem |-> x.frame.kem,
                       codec |-> x.frame.codec, body |-> x.frame.body]
<1>1. Authentic(x) /\ x.to \in Holders /\ x.call \in 1..Cardinality(sealed)
  BY DEF IInv, CallsKnown
<1>2. Cardinality(sealed) \in Nat
  BY FS_CardinalityType DEF IInv, CallsKnown
<1>3. family \in SealingFamilies
  BY SealConstants DEF IInv
<1>4. x.call \in Nat
  BY <1>1, <1>2
<1>5. QED
  BY <1>1, <1>3, <1>4, FrameOf

LEMMA EcdhFrame ==
  ASSUME IInv, family \in EcdhFamilies, NEW x \in sealed
  PROVE  x.frame.eph = None /\ x.frame.kem = None /\ x.eph = x.call
<1>1. PICK codec : x.frame = EncodeSealed(codec,
        AeadSeal(codec, DeriveAeadKey(Dh(x.to, x.call), family), x.text, x.aad))
  BY MessageOf DEF Authentic
<1>2. x.frame.eph = None /\ x.frame.kem = None
  BY <1>1 DEF EncodeSealed
<1>3. QED
  BY <1>2, MessageOf DEF Authentic

LEMMA KemFrame ==
  ASSUME IInv, family \in Kems, NEW x \in sealed
  PROVE  x.frame.eph = None /\ x.frame.kem = Ct(x)
<1>1. PICK codec : x.frame = EncodeKemSealed(Ct(x), codec,
        AeadSeal(codec, DeriveAeadKey(Ct(x), family), x.text, x.aad))
  BY MessageOf DEF Authentic
<1>2. QED
  BY <1>1 DEF EncodeKemSealed

LEMMA HybridFrame ==
  ASSUME IInv, family \in HybridKems, NEW x \in sealed
  PROVE  x.frame.codec = None
<1>1. x.frame = EncodeHybridSealed(x.call, Ct(x),
        AeadSeal(HybridAead,
          DeriveAeadKey(Combine(Ct(x), Dh(x.to, x.call), Ct(x), x.call), family), x.text, x.aad))
  BY MessageOf DEF Authentic
<1>2. QED
  BY <1>1 DEF EncodeHybridSealed

LEMMA BlsFrame ==
  ASSUME IInv, family = "Bls", NEW x \in sealed
  PROVE  /\ x.frame.body = AeadSeal(None, DeriveAeadKey(Ct(x), "TimeCrypt"), x.text, None)
         /\ x.frame.codec = None /\ x.frame.kem = Ct(x) /\ x.frame.eph = None
<1>1. x.frame = EncodeKemSealed(Ct(x), None,
        AeadSeal(None, DeriveAeadKey(Ct(x), "TimeCrypt"), x.text, None))
  BY MessageOf DEF Authentic
<1>2. QED
  BY <1>1 DEF EncodeKemSealed

\* Equal ciphertexts are of one holder and one call.
LEMMA CtParts ==
  ASSUME NEW k, NEW e, NEW g, Decapsulate(k, Ct(e)) = Ct(g)
  PROVE  k.origin = g.to /\ e.call = g.call
<1>1. [to |-> k.origin, call |-> e.call] = [to |-> g.to, call |-> g.call]
  BY DEF Decapsulate, Ct
<1>2. QED
  BY <1>1

\* What opens was sealed: the heart of the proof, one step for each shape.
LEMMA OpenedWasSealed ==
  ASSUME IInv, NEW h \in Holders, NEW k \in FormsOf(h), NEW aad \in Aads, frame # None,
         OpenWith(k, frame, eph, aad) # None
  PROVE  \E g \in sealed : /\ k = PrivateKeyOfHolder(g.to)
                           /\ OpenWith(k, frame, eph, aad) = g.text
                           /\ Label(aad) = Label(g.aad)
                           /\ frame = g.frame
                           /\ family \in EcdhFamilies => eph = g.eph
<1>1. /\ family \in SealingFamilies /\ k.family = family /\ k.origin = h
      /\ k.role \in {"Priv", "Pub"}
      /\ (k.role = "Priv" /\ ~ k.locked) => k = PrivateKeyOfHolder(h)
  BY SealConstants DEF IInv, FormsOf, PublicKeyOfHolder, PrivateKeyOfHolder, Multikey
<1>2. PICK d \in sealed, e \in sealed, f \in sealed, g \in sealed :
        frame = [eph |-> d.frame.eph, kem |-> e.frame.kem,
                 codec |-> f.frame.codec, body |-> g.frame.body]
  BY DEF IInv, PartsKnown
<1>3. /\ frame.eph = d.frame.eph /\ frame.kem = e.frame.kem
      /\ frame.codec = f.frame.codec /\ frame.body = g.frame.body
  BY <1>2
<1>4. \A x \in sealed : /\ Authentic(x) /\ x.to \in Holders /\ x.call \in Nat
                        /\ x.frame = [eph |-> x.frame.eph, kem |-> x.frame.kem,
                                      codec |-> x.frame.codec, body |-> x.frame.body]
  BY MessageOf
<1>5. Opens(k, frame, eph, aad)
  BY DEF Opens
<1>6. \A x, y \in sealed : x.call = y.call => x = y
  BY DEF IInv, CallsKnown
<1>7. CASE family \in EcdhFamilies
  <2>1. /\ k.role = "Priv" /\ ~ k.locked /\ eph # None
        /\ OpenWith(k, frame, eph, aad) = frame.body.text
        /\ frame.body = AeadSeal(frame.codec, DeriveAeadKey(Dh(h, eph), family), frame.body.text, aad)
    BY <1>1, <1>5, <1>7, EcdhOpens
  <2>2. PICK codec : g.frame = EncodeSealed(codec,
          AeadSeal(codec, DeriveAeadKey(Dh(g.to, g.call), family), g.text, g.aad))
    BY <1>4, <1>7 DEF Authentic
  <2>3. g.frame.body = AeadSeal(codec, DeriveAeadKey(Dh(g.to, g.call), family), g.text, g.aad)
        /\ g.frame.codec = codec
    BY <2>2 DEF EncodeSealed
  <2>4. /\ frame.codec = codec /\ Dh(h, eph) = Dh(g.to, g.call)
        /\ frame.body.text = g.text /\ aad = g.aad
    BY <1>3, <2>1, <2>3, BodyParts
  <2>5. PICK c \in sealed : eph = c.eph
    BY <2>1 DEF IInv, PartsKnown
  <2>6. c.eph = c.call /\ g.eph = g.call
    BY <1>7, EcdhFrame
  <2>7. h = g.to /\ eph = g.eph
    <3>1. g.to \in Holders /\ c.call \in Nat /\ g.call \in Nat
      BY <1>4
    <3>2. Dh(h, c.call) = Dh(g.to, g.call)
      BY <2>4, <2>5, <2>6
    <3>3. h = g.to /\ c.call = g.call
      BY <3>1, <3>2, DhParts
    <3>4. QED
      BY <3>3, <2>5, <2>6
  <2>8. \A x \in sealed : x.frame.eph = None /\ x.frame.kem = None
    BY <1>7, EcdhFrame
  <2>9. frame = g.frame
    BY <1>2, <1>3, <1>4, <2>3, <2>4, <2>8
  <2>10. QED
    BY <1>1, <2>1, <2>4, <2>7, <2>9
<1>8. CASE family \in Kems
  <2>1. /\ k.role = "Priv" /\ ~ k.locked
        /\ OpenWith(k, frame, eph, aad) = frame.body.text
        /\ frame.body = AeadSeal(frame.codec, DeriveAeadKey(Decapsulate(k, frame.kem), family),
                                 frame.body.text, aad)
    BY <1>1, <1>5, <1>8, KemOpens
  <2>2. PICK codec : g.frame = EncodeKemSealed(Ct(g), codec,
          AeadSeal(codec, DeriveAeadKey(Ct(g), family), g.text, g.aad))
    BY <1>4, <1>8 DEF Authentic
  <2>3. /\ g.frame.body = AeadSeal(codec, DeriveAeadKey(Ct(g), family), g.text, g.aad)
        /\ g.frame.codec = codec /\ g.frame.kem = Ct(g) /\ g.frame.eph = None
    BY <2>2 DEF EncodeKemSealed
  <2>4. /\ frame.codec = codec /\ Decapsulate(k, frame.kem) = Ct(g)
        /\ frame.body.text = g.text /\ aad = g.aad
    BY <1>3, <2>1, <2>3, BodyParts
  <2>5. \A x \in sealed : x.frame.kem = Ct(x) /\ x.frame.eph = None
    BY <1>8, KemFrame
  <2>6. h = g.to /\ e.call = g.call
    <3>1. Decapsulate(k, Ct(e)) = Ct(g)
      BY <1>3, <2>4, <2>5
    <3>2. QED
      BY <1>1, <3>1, CtParts
  <2>7. e = g
    BY <1>6, <2>6
  <2>8. frame = g.frame
    BY <1>2, <1>3, <1>4, <2>3, <2>4, <2>5, <2>7
  <2>9. family \notin EcdhFamilies
    BY <1>8 DEF Kems, KemFamilies, EcdhFamilies
  <2>10. QED
    BY <1>1, <2>1, <2>4, <2>6, <2>8, <2>9
<1>9. CASE family \in HybridKems
  <2> DEFINE both(x) == Combine(Ct(x), Dh(x.to, x.call), Ct(x), x.call)
  <2>1. /\ k.role = "Priv" /\ ~ k.locked
        /\ OpenWith(k, frame, eph, aad) = frame.body.text
        /\ frame.body =
             AeadSeal(HybridAead,
               DeriveAeadKey(Combine(Decapsulate(k, frame.kem), Dh(k.origin, frame.eph),
                                     frame.kem, frame.eph), family), frame.body.text, aad)
    BY <1>1, <1>5, <1>9, HybridOpens
  <2>2. g.frame = EncodeHybridSealed(g.call, Ct(g),
          AeadSeal(HybridAead, DeriveAeadKey(both(g), family), g.text, g.aad))
    BY <1>4, <1>9 DEF Authentic
  <2>3. /\ g.frame.body = AeadSeal(HybridAead, DeriveAeadKey(both(g), family), g.text, g.aad)
        /\ g.frame.codec = None /\ g.frame.kem = Ct(g) /\ g.frame.eph = g.call
    BY <2>2 DEF EncodeHybridSealed
  <2>4. /\ Combine(Decapsulate(k, frame.kem), Dh(k.origin, frame.eph), frame.kem, frame.eph) = both(g)
        /\ frame.body.text = g.text /\ aad = g.aad
    BY <1>3, <2>1, <2>3, BodyParts
  <2>5. /\ Decapsulate(k, frame.kem) = Ct(g) /\ frame.kem = Ct(g) /\ frame.eph = g.call
    BY <2>4 DEF Combine
  <2>6. h = g.to
    BY <1>1, <2>5 DEF Decapsulate, Ct
  <2>7. f.frame.codec = None
    BY <1>9, HybridFrame
  <2>8. frame = g.frame
    BY <1>2, <1>3, <1>4, <2>3, <2>5, <2>7
  <2>9. family \notin EcdhFamilies
    BY <1>9 DEF HybridKems, EcdhFamilies
  <2>10. QED
    BY <1>1, <2>1, <2>4, <2>6, <2>8, <2>9
<1>10. CASE family = "Bls"
  <2>1. /\ k.role = "Priv" /\ ~ k.locked
        /\ OpenWith(k, frame, eph, aad) = frame.body.text
        /\ frame.body = AeadSeal(None, DeriveAeadKey(Decapsulate(k, frame.kem), "TimeCrypt"),
                                 frame.body.text, None)
    BY <1>1, <1>5, <1>10, BlsOpens
  <2>2. \A x \in sealed :
          /\ x.frame.body = AeadSeal(None, DeriveAeadKey(Ct(x), "TimeCrypt"), x.text, None)
          /\ x.frame.codec = None /\ x.frame.kem = Ct(x) /\ x.frame.eph = None
    BY <1>10, BlsFrame
  <2>3. Decapsulate(k, frame.kem) = Ct(g) /\ frame.body.text = g.text
    BY <1>3, <2>1, <2>2, BodyParts
  <2>4. h = g.to /\ e.call = g.call
    <3>1. Decapsulate(k, Ct(e)) = Ct(g)
      BY <1>3, <2>2, <2>3
    <3>2. QED
      BY <1>1, <3>1, CtParts
  <2>5. e = g
    BY <1>6, <2>4
  <2>6. frame = g.frame
    BY <1>2, <1>3, <1>4, <2>2, <2>5
  <2>7. family \notin EcdhFamilies /\ Label(aad) = Label(g.aad)
    BY <1>10 DEF EcdhFamilies, Label
  <2>8. QED
    BY <1>1, <2>1, <2>3, <2>4, <2>6, <2>7
<1>11. QED
  BY <1>1, <1>7, <1>8, <1>9, <1>10, Shapes

LEMMA OpenKeeps ==
  ASSUME IInv, NEW h \in Holders, NEW aad \in Aads, NEW k \in FormsOf(h), Open(k, aad)
  PROVE  IInv'
<1> DEFINE text == OpenWith(k, frame, eph, aad)
<1>1. /\ frame # None
      /\ opened' = IF text = None THEN None
                   ELSE [key |-> k, text |-> text, aad |-> aad, frame |-> frame, eph |-> eph]
      /\ UNCHANGED <<family, sealed, frame, eph>>
  BY DEF Open
<1>2. CallsKnown' /\ PartsKnown'
  BY <1>1 DEF IInv, CallsKnown, PartsKnown, Authentic
<1>3. OpenedAsSealed'
  <2>1. CASE text = None
    BY <1>1, <2>1 DEF OpenedAsSealed
  <2>2. CASE text # None
    <3>1. PICK g \in sealed : /\ k = PrivateKeyOfHolder(g.to) /\ text = g.text
                              /\ Label(aad) = Label(g.aad) /\ frame = g.frame
                              /\ family \in EcdhFamilies => eph = g.eph
      BY <1>1, <2>2, OpenedWasSealed
    <3>2. /\ opened'.key = k /\ opened'.text = text /\ opened'.aad = aad
          /\ opened'.frame = frame /\ opened'.eph = eph
      BY <1>1, <2>2
    <3>3. QED
      <4>1. PrivateKeyOfHolder(g.to)' = PrivateKeyOfHolder(g.to)
        BY <1>1 DEF PrivateKeyOfHolder
      <4>2. Label(aad)' = Label(aad) /\ Label(g.aad)' = Label(g.aad)
        BY <1>1 DEF Label
      <4>3. Label(opened.aad)' = Label(aad)'
        BY <3>2 DEF Label
      <4>4. QED
        <5>1. sealed' = sealed /\ family' = family
          BY <1>1
        <5>2. g \in sealed'
          BY <5>1
        <5>3. opened'.key = PrivateKeyOfHolder(g.to)'
          BY <3>1, <3>2, <4>1
        <5>4. opened'.text = g.text /\ opened'.frame = g.frame
          BY <3>1, <3>2
        <5>5. Label(opened.aad)' = Label(g.aad)'
          BY <3>1, <4>2, <4>3
        <5>6. (family \in EcdhFamilies)' => opened'.eph = g.eph
          BY <3>1, <3>2, <5>1 DEF EcdhFamilies
        <5>7. QED
          BY <5>2, <5>3, <5>4, <5>5, <5>6 DEF OpenedAsSealed
  <2>3. QED
    BY <2>1, <2>2
<1>4. QED
  BY <1>1, <1>2, <1>3 DEF IInv

LEMMA NextInv == IInv /\ [Next]_vars => IInv'
<1> SUFFICES ASSUME IInv, [Next]_vars PROVE IInv'
  OBVIOUS
<1>1. ASSUME NEW h \in Holders, NEW text \in Texts, NEW aead \in Aeads, NEW aad \in Aads,
             Seal(h, text, aead, aad)
      PROVE  IInv'
  BY <1>1, SealKeeps
<1>2. CASE ReceiveFrame
  BY <1>2, FrameKeeps
<1>3. CASE ReceiveEph
  BY <1>3, EphKeeps
<1>4. CASE MixFrames
  BY <1>4, MixKeeps
<1>5. ASSUME NEW h \in Holders, NEW aad \in Aads, NEW k \in FormsOf(h), Open(k, aad)
      PROVE  IInv'
  BY <1>5, OpenKeeps
<1>6. CASE UNCHANGED vars
  <2>1. PartsKnown' /\ UNCHANGED <<family, sealed, opened>>
    BY <1>6 DEF vars, IInv, PartsKnown
  <2>2. QED
    BY <2>1, ArrivalKeeps
<1>7. QED
  BY <1>1, <1>2, <1>3, <1>4, <1>5, <1>6 DEF Next

\* Messages are of one call of seal each, with the secret that the family's
\* shape gives it, and all that is under way is parts of them.
THEOREM Inductive == Spec => []IInv
<1>1. QED
  BY InitInv, NextInv, PTL DEF Spec

\* The text in a message's body is the text that was sealed.
LEMMA BodyText == ASSUME IInv, NEW x \in sealed PROVE x.frame.body.text = x.text
<1>1. Authentic(x) /\ family \in SealingFamilies
  BY MessageOf, SealConstants DEF IInv
<1>2. CASE family \in EcdhFamilies
  <2>1. PICK codec : x.frame = EncodeSealed(codec,
          AeadSeal(codec, DeriveAeadKey(Dh(x.to, x.call), family), x.text, x.aad))
    BY <1>1, <1>2 DEF Authentic
  <2>2. QED
    BY <2>1 DEF EncodeSealed, AeadSeal
<1>3. CASE family \in Kems
  <2>1. PICK codec : x.frame = EncodeKemSealed(Ct(x), codec,
          AeadSeal(codec, DeriveAeadKey(Ct(x), family), x.text, x.aad))
    BY <1>1, <1>3 DEF Authentic
  <2>2. QED
    BY <2>1 DEF EncodeKemSealed, AeadSeal
<1>4. CASE family \in HybridKems
  BY <1>1, <1>4 DEF Authentic, EncodeHybridSealed, AeadSeal
<1>5. CASE family = "Bls"
  <2>1. x.frame.body = AeadSeal(None, DeriveAeadKey(Ct(x), "TimeCrypt"), x.text, None)
    BY <1>5, BlsFrame
  <2>2. QED
    BY <2>1 DEF AeadSeal
<1>6. QED
  BY <1>1, <1>2, <1>3, <1>4, <1>5, Shapes

\* Messages and results are of the holders and of the texts.
THEOREM TypeCorrect == Spec => []TypeOK
<1>1. IInv => TypeOK
  <2> SUFFICES ASSUME IInv PROVE TypeOK
    OBVIOUS
  <2>1. \A d \in sealed : /\ d.to \in Holders /\ d.text \in Texts /\ d.aad \in Aads
                          /\ d.frame.body.text \in Texts
    BY BodyText DEF IInv, CallsKnown
  <2>2. frame # None => frame.body.text \in Texts
    BY <2>1 DEF IInv, PartsKnown
  <2>3. ASSUME eph # None PROVE eph \in Nat
    <3>1. PICK d \in sealed : eph = d.eph
      BY <2>3 DEF IInv, PartsKnown
    <3>2. family \in SealingFamilies
      BY SealConstants DEF IInv
    <3>3. d.eph = d.call \/ d.eph = None
      BY <3>2, MessageOf, Shapes DEF Authentic
    <3>4. QED
      BY <2>3, <3>1, <3>3, MessageOf
  <2>4. ASSUME opened # None PROVE opened.key.origin \in Holders /\ opened.text \in Texts
    <3>1. PICK d \in sealed : opened.key = PrivateKeyOfHolder(d.to) /\ opened.text = d.text
      BY <2>4 DEF IInv, OpenedAsSealed
    <3>2. opened.key.origin = d.to
      BY <3>1 DEF PrivateKeyOfHolder, Multikey
    <3>3. QED
      BY <2>1, <3>1, <3>2
  <2>5. QED
    BY <2>1, <2>2, <2>3, <2>4 DEF IInv, TypeOK
<1>2. QED
  BY <1>1, Inductive, PTL

\* Whatever is lost, repeated, reordered or put together on the way, what open
\* returns is a message that was sealed to the opener's key under its associated
\* data, whole: for every family that seals and every number of messages.
THEOREM OnlySealedOpens == Spec => []OpenedAsSealed
<1>1. IInv => OpenedAsSealed
  BY DEF IInv
<1>2. QED
  BY <1>1, Inductive, PTL

-----------------------------------------------------------------------------
\* What a call of seal to h returned, h opens, whatever the shape.
ReturnOpens(f, h, text, aead, aad, call) ==
  LET r == SealWith(Multikey(f, "Pub", h, FALSE), text, aead, aad, call)
  IN OpenWith(Multikey(f, "Priv", h, FALSE), r.frame, r.eph, aad) = text

\* Both sides compute one secret of the same two keys, and open takes the AEADs
\* that seal takes.
LEMMA EcdhReturnOpens ==
  ASSUME NEW f \in EcdhFamilies, NEW h, NEW text, NEW aead, NEW aad, NEW call, call # None,
         SealWith(Multikey(f, "Pub", h, FALSE), text, aead, aad, call) # None
  PROVE  ReturnOpens(f, h, text, aead, aad, call)
<1> DEFINE pub == Multikey(f, "Pub", h, FALSE)
           priv == Multikey(f, "Priv", h, FALSE)
           r == SealWith(pub, text, aead, aad, call)
<1>1. /\ pub.family = f /\ pub.role = "Pub" /\ pub.origin = h
      /\ priv.family = f /\ priv.role = "Priv" /\ priv.origin = h /\ ~ priv.locked
  BY DEF Multikey
<1>2. DispatchSeal(Asked(pub)).view = f /\ DispatchOpen(Asked(priv)).view = f
  BY <1>1, ViewsFound, Shapes
<1>3. Usable(Aware(priv), priv) /\ Usable(Unaware(priv), priv)
  BY <1>1 DEF Usable, HasSecret, Parses, Aware, Unaware, Attr
<1> HIDE DEF pub, priv
<1>4. CASE f = "X25519"
  <2>1. r = X25519Seal(pub, text, aead, aad, call)
    BY <1>2, <1>4 DEF SealWith
  <2>2. OpenWith(priv, r.frame, r.eph, aad) = X25519Open(priv, r.frame, r.eph, aad)
    BY <1>2, <1>4 DEF OpenWith
  <2>3. r # None
    BY DEF pub
  <2>4. X25519Open(priv, r.frame, r.eph, aad) = text
    BY <1>1, <1>3, <2>1, <2>3
    DEF X25519Seal, X25519Open, X25519Attr, SealResult, AeadSeal, AeadOpen, EcdhSeal, EcdhOpen, EncodeSealed
  <2>5. QED
    BY <2>2, <2>4 DEF pub, priv, ReturnOpens
<1>5. CASE f = "Secp256k1"
  <2>1. r = Secp256k1Seal(pub, text, aead, aad, call)
    BY <1>2, <1>5 DEF SealWith
  <2>2. OpenWith(priv, r.frame, r.eph, aad) = Secp256k1Open(priv, r.frame, r.eph, aad)
    BY <1>2, <1>5 DEF OpenWith
  <2>3. r # None
    BY DEF pub
  <2>4. Secp256k1Open(priv, r.frame, r.eph, aad) = text
    BY <1>1, <1>3, <2>1, <2>3
    DEF Secp256k1Seal, Secp256k1Open, Secp256k1Attr, SealResult, AeadSeal, AeadOpen, EcdhSeal, EcdhOpen, EncodeSealed
  <2>5. QED
    BY <2>2, <2>4 DEF pub, priv, ReturnOpens
<1>6. CASE f = "NistP"
  <2>1. r = NistPSeal(pub, text, aead, aad, call)
    BY <1>2, <1>6 DEF SealWith
  <2>2. OpenWith(priv, r.frame, r.eph, aad) = NistPOpen(priv, r.frame, r.eph, aad)
    BY <1>2, <1>6 DEF OpenWith
  <2>3. r # None
    BY DEF pub
  <2>4. NistPOpen(priv, r.frame, r.eph, aad) = text
    BY <1>1, <1>3, <2>1, <2>3
    DEF NistPSeal, NistPOpen, NistPAttr, SealResult, AeadSeal, AeadOpen, EcdhSeal, EcdhOpen, EncodeSealed
  <2>5. QED
    BY <2>2, <2>4 DEF pub, priv, ReturnOpens
<1>7. QED
  BY <1>4, <1>5, <1>6 DEF EcdhFamilies

\* Decapsulation gives the secret of the encapsulation inside.
LEMMA KemReturnOpens ==
  ASSUME NEW f \in Kems, NEW h, NEW text, NEW aead, NEW aad, NEW call, call # None,
         SealWith(Multikey(f, "Pub", h, FALSE), text, aead, aad, call) # None
  PROVE  ReturnOpens(f, h, text, aead, aad, call)
<1> DEFINE pub == Multikey(f, "Pub", h, FALSE)
           priv == Multikey(f, "Priv", h, FALSE)
           r == SealWith(pub, text, aead, aad, call)
<1>1. /\ pub.family = f /\ pub.role = "Pub" /\ pub.origin = h
      /\ priv.family = f /\ priv.role = "Priv" /\ priv.origin = h /\ ~ priv.locked
  BY DEF Multikey
<1>2. DispatchSeal(Asked(pub)).view = f /\ DispatchOpen(Asked(priv)).view = f
  BY <1>1, ViewsFound, Shapes
<1>3. Usable(Aware(priv), priv) /\ Usable(Unaware(priv), priv)
  BY <1>1 DEF Usable, HasSecret, Parses, Aware, Unaware, Attr
<1> HIDE DEF pub, priv
<1>4. CASE f = "MlKem"
  <2>1. r = MlKemSeal(pub, text, aead, aad, call)
    BY <1>2, <1>4 DEF SealWith
  <2>2. OpenWith(priv, r.frame, r.eph, aad) = MlKemOpen(priv, r.frame, r.eph, aad)
    BY <1>2, <1>4 DEF OpenWith
  <2>3. r # None
    BY DEF pub
  <2>4. MlKemOpen(priv, r.frame, r.eph, aad) = text
    BY <1>1, <1>3, <2>1, <2>3
    DEF MlKemSeal, MlKemOpen, MlKemAttr, SealResult, AeadSeal, AeadOpen, KemSeal, KemOpen, EncodeKemSealed, Encapsulate, Decapsulate
  <2>5. QED
    BY <2>2, <2>4 DEF pub, priv, ReturnOpens
<1>5. CASE f = "Sntrup"
  <2>1. r = SntrupSeal(pub, text, aead, aad, call)
    BY <1>2, <1>5 DEF SealWith
  <2>2. OpenWith(priv, r.frame, r.eph, aad) = SntrupOpen(priv, r.frame, r.eph, aad)
    BY <1>2, <1>5 DEF OpenWith
  <2>3. r # None
    BY DEF pub
  <2>4. SntrupOpen(priv, r.frame, r.eph, aad) = text
    BY <1>1, <1>3, <2>1, <2>3
    DEF SntrupSeal, SntrupOpen, SntrupAttr, SealResult, AeadSeal, AeadOpen, KemSeal, KemOpen, EncodeKemSealed, Encapsulate, Decapsulate
  <2>5. QED
    BY <2>2, <2>4 DEF pub, priv, ReturnOpens
<1>6. CASE f = "FrodoKem"
  <2>1. r = FrodoKemSeal(pub, text, aead, aad, call)
    BY <1>2, <1>6 DEF SealWith
  <2>2. OpenWith(priv, r.frame, r.eph, aad) = FrodoKemOpen(priv, r.frame, r.eph, aad)
    BY <1>2, <1>6 DEF OpenWith
  <2>3. r # None
    BY DEF pub
  <2>4. FrodoKemOpen(priv, r.frame, r.eph, aad) = text
    BY <1>1, <1>3, <2>1, <2>3
    DEF FrodoKemSeal, FrodoKemOpen, FrodoKemAttr, SealResult, AeadSeal, AeadOpen, KemSeal, KemOpen, EncodeKemSealed, Encapsulate, Decapsulate
  <2>5. QED
    BY <2>2, <2>4 DEF pub, priv, ReturnOpens
<1>7. CASE f = "ClassicMceliece"
  <2>1. r = ClassicMcelieceSeal(pub, text, aead, aad, call)
    BY <1>2, <1>7 DEF SealWith
  <2>2. OpenWith(priv, r.frame, r.eph, aad) = ClassicMcelieceOpen(priv, r.frame, r.eph, aad)
    BY <1>2, <1>7 DEF OpenWith
  <2>3. r # None
    BY DEF pub
  <2>4. ClassicMcelieceOpen(priv, r.frame, r.eph, aad) = text
    BY <1>1, <1>3, <2>1, <2>3
    DEF ClassicMcelieceSeal, ClassicMcelieceOpen, ClassicMcelieceAttr, SealResult, AeadSeal, AeadOpen, KemSeal, KemOpen, EncodeKemSealed, Encapsulate, Decapsulate
  <2>5. QED
    BY <2>2, <2>4 DEF pub, priv, ReturnOpens
<1>8. CASE f = "Rsa"
  <2>1. r = RsaSeal(pub, text, aead, aad, call)
    BY <1>2, <1>8 DEF SealWith
  <2>2. OpenWith(priv, r.frame, r.eph, aad) = RsaOpen(priv, r.frame, r.eph, aad)
    BY <1>2, <1>8 DEF OpenWith
  <2>3. r # None
    BY DEF pub
  <2>4. RsaOpen(priv, r.frame, r.eph, aad) = text
    BY <1>1, <1>3, <2>1, <2>3
    DEF RsaSeal, RsaOpen, RsaAttr, SealResult, AeadSeal, AeadOpen, KemSeal, KemOpen, EncodeKemSealed, Encapsulate, Decapsulate
  <2>5. QED
    BY <2>2, <2>4 DEF pub, priv, ReturnOpens
<1>9. QED
  BY <1>4, <1>5, <1>6, <1>7, <1>8 DEF Kems, KemFamilies

\* Both sides hash the same two secrets and the same public values.
LEMMA HybridReturnOpens ==
  ASSUME NEW f \in HybridKems, NEW h, NEW text, NEW aead, NEW aad, NEW call, call # None,
         SealWith(Multikey(f, "Pub", h, FALSE), text, aead, aad, call) # None
  PROVE  ReturnOpens(f, h, text, aead, aad, call)
<1> DEFINE pub == Multikey(f, "Pub", h, FALSE)
           priv == Multikey(f, "Priv", h, FALSE)
           r == SealWith(pub, text, aead, aad, call)
<1>1. /\ pub.family = f /\ pub.role = "Pub" /\ pub.origin = h
      /\ priv.family = f /\ priv.role = "Priv" /\ priv.origin = h /\ ~ priv.locked
  BY DEF Multikey
<1>2. DispatchSeal(Asked(pub)).view = f /\ DispatchOpen(Asked(priv)).view = f
  BY <1>1, ViewsFound, Shapes
<1>3. Usable(Aware(priv), priv) /\ Usable(Unaware(priv), priv)
  BY <1>1 DEF Usable, HasSecret, Parses, Aware, Unaware, Attr
<1> HIDE DEF pub, priv
<1>4. CASE f = "X25519MlKem768"
  <2>1. r = X25519MlKem768Seal(pub, text, aead, aad, call)
    BY <1>2, <1>4 DEF SealWith
  <2>2. OpenWith(priv, r.frame, r.eph, aad) = X25519MlKem768Open(priv, r.frame, r.eph, aad)
    BY <1>2, <1>4 DEF OpenWith
  <2>3. r # None
    BY DEF pub
  <2>4. X25519MlKem768Open(priv, r.frame, r.eph, aad) = text
    BY <1>1, <1>3, <2>1, <2>3
    DEF X25519MlKem768Seal, X25519MlKem768Open, X25519MlKem768Attr, SealResult, AeadSeal, AeadOpen, HybridSeal, HybridOpen, EncodeHybridSealed, Encapsulate, Decapsulate
  <2>5. QED
    BY <2>2, <2>4 DEF pub, priv, ReturnOpens
<1>5. CASE f = "X25519Sntrup761"
  <2>1. r = X25519Sntrup761Seal(pub, text, aead, aad, call)
    BY <1>2, <1>5 DEF SealWith
  <2>2. OpenWith(priv, r.frame, r.eph, aad) = X25519Sntrup761Open(priv, r.frame, r.eph, aad)
    BY <1>2, <1>5 DEF OpenWith
  <2>3. r # None
    BY DEF pub
  <2>4. X25519Sntrup761Open(priv, r.frame, r.eph, aad) = text
    BY <1>1, <1>3, <2>1, <2>3
    DEF X25519Sntrup761Seal, X25519Sntrup761Open, X25519Sntrup761Attr, SealResult, AeadSeal, AeadOpen, HybridSeal, HybridOpen, EncodeHybridSealed, Encapsulate, Decapsulate
  <2>5. QED
    BY <2>2, <2>4 DEF pub, priv, ReturnOpens
<1>6. CASE f = "X25519FrodoKem640"
  <2>1. r = X25519FrodoKem640Seal(pub, text, aead, aad, call)
    BY <1>2, <1>6 DEF SealWith
  <2>2. OpenWith(priv, r.frame, r.eph, aad) = X25519FrodoKem640Open(priv, r.frame, r.eph, aad)
    BY <1>2, <1>6 DEF OpenWith
  <2>3. r # None
    BY DEF pub
  <2>4. X25519FrodoKem640Open(priv, r.frame, r.eph, aad) = text
    BY <1>1, <1>3, <2>1, <2>3
    DEF X25519FrodoKem640Seal, X25519FrodoKem640Open, X25519FrodoKem640Attr, SealResult, AeadSeal, AeadOpen, HybridSeal, HybridOpen, EncodeHybridSealed, Encapsulate, Decapsulate
  <2>5. QED
    BY <2>2, <2>4 DEF pub, priv, ReturnOpens
<1>7. CASE f = "X25519Mceliece348864"
  <2>1. r = X25519Mceliece348864Seal(pub, text, aead, aad, call)
    BY <1>2, <1>7 DEF SealWith
  <2>2. OpenWith(priv, r.frame, r.eph, aad) = X25519Mceliece348864Open(priv, r.frame, r.eph, aad)
    BY <1>2, <1>7 DEF OpenWith
  <2>3. r # None
    BY DEF pub
  <2>4. X25519Mceliece348864Open(priv, r.frame, r.eph, aad) = text
    BY <1>1, <1>3, <2>1, <2>3
    DEF X25519Mceliece348864Seal, X25519Mceliece348864Open, X25519Mceliece348864Attr, SealResult, AeadSeal, AeadOpen, HybridSeal, HybridOpen, EncodeHybridSealed, Encapsulate, Decapsulate
  <2>5. QED
    BY <2>2, <2>4 DEF pub, priv, ReturnOpens
<1>8. QED
  BY <1>4, <1>5, <1>6, <1>7 DEF HybridKems

\* TimeCrypt encrypts to an identity of its own making.
LEMMA BlsReturnOpens ==
  ASSUME NEW h, NEW text, NEW aead, NEW aad, NEW call
  PROVE  ReturnOpens("Bls", h, text, aead, aad, call)
<1> DEFINE pub == Multikey("Bls", "Pub", h, FALSE)
           priv == Multikey("Bls", "Priv", h, FALSE)
           r == SealWith(pub, text, aead, aad, call)
<1>1. /\ pub.family = "Bls" /\ pub.role = "Pub" /\ pub.origin = h
      /\ priv.family = "Bls" /\ priv.role = "Priv" /\ priv.origin = h /\ ~ priv.locked
  BY DEF Multikey
<1>2. DispatchSeal(Asked(pub)).view = "Bls" /\ DispatchOpen(Asked(priv)).view = "Bls"
  BY <1>1, ViewsFound, Shapes
<1>3. BlsAttr(pub).public /\ Usable(BlsAttr(priv), priv)
  BY <1>1 DEF Usable, HasSecret, Parses, BlsAttr, Attr
<1> HIDE DEF pub, priv
<1>4. r = BlsSeal(pub, text, aead, aad, call)
  BY <1>2 DEF SealWith
<1>5. OpenWith(priv, r.frame, r.eph, aad) = BlsOpen(priv, r.frame, r.eph, aad)
  BY <1>2 DEF OpenWith
<1>6. BlsOpen(priv, r.frame, r.eph, aad) = text
  BY <1>1, <1>3, <1>4
  DEF BlsSeal, BlsOpen, SealResult, EncodeKemSealed, AeadSeal, AeadOpen, Encapsulate, Decapsulate
<1>7. QED
  BY <1>5, <1>6 DEF pub, priv, ReturnOpens

\* Every holder of a message, its ephemeral key and its associated data opens
\* it: seal and open of each family agree on keys, AEADs and frames.
THEOREM OwnersOpen == Spec => []OwnerOpens
<1>1. Init => OwnerOpens
  BY DEF Init, OwnerOpens
<1>2. IInv /\ OwnerOpens /\ [Next]_vars => OwnerOpens'
  <2> SUFFICES ASSUME IInv, OwnerOpens, [Next]_vars PROVE OwnerOpens'
    OBVIOUS
  <2>1. family' = family
    BY DEF Next, vars, Seal, ReceiveFrame, ReceiveEph, MixFrames, Open
  <2>2. ASSUME NEW h \in Holders, NEW text \in Texts, NEW aead \in Aeads, NEW aad \in Aads,
               Seal(h, text, aead, aad)
        PROVE  OwnerOpens'
    <3> DEFINE call == Cardinality(sealed) + 1
               r == SealWith(PublicKeyOfHolder(h), text, aead, aad, call)
               new == [to |-> h, text |-> text, aad |-> aad, call |-> call,
                       frame |-> r.frame, eph |-> r.eph]
    <3>1. r # None /\ sealed' = sealed \cup {new}
      BY <2>2 DEF Seal
    <3>2. call # None
      BY SealConstants, FS_CardinalityType DEF IInv, CallsKnown
    <3>3. family \in SealingFamilies
      BY SealConstants DEF IInv
    <3>4. ReturnOpens(family, h, text, aead, aad, call)
      <4> HIDE DEF call
      <4>1. SealWith(Multikey(family, "Pub", h, FALSE), text, aead, aad, call) # None
        BY <3>1 DEF PublicKeyOfHolder
      <4>2. QED
        BY <3>2, <3>3, <4>1, Shapes, EcdhReturnOpens, KemReturnOpens, HybridReturnOpens,
           BlsReturnOpens
    <3>5. OpenWith(PrivateKeyOfHolder(h), r.frame, r.eph, aad) = text
      BY <3>4 DEF ReturnOpens, PublicKeyOfHolder, PrivateKeyOfHolder
    <3> HIDE DEF r, call
    <3>6. OpenWith(PrivateKeyOfHolder(new.to), new.frame, new.eph, new.aad) = new.text
      BY <3>5
    <3>7. \A d \in sealed' :
            OpenWith(PrivateKeyOfHolder(d.to), d.frame, d.eph, d.aad) = d.text
      BY <3>1, <3>6 DEF OwnerOpens
    <3>8. QED
      BY <2>1, <3>7 DEF OwnerOpens, PrivateKeyOfHolder
  <2>3. CASE sealed' = sealed
    BY <2>1, <2>3 DEF OwnerOpens, PrivateKeyOfHolder
  <2>4. QED
    BY <2>2, <2>3 DEF Next, vars, ReceiveFrame, ReceiveEph, MixFrames, Open
<1>3. QED
  BY <1>1, <1>2, Inductive, PTL DEF Spec

-----------------------------------------------------------------------------
LEMMA BoxInit == Init => Box!Init
BY DEF Init, Box!Init

\* The boxes and what was taken, as the refinement maps them.
Closed == {BoxOf(d.to, d.text, d.aad) : d \in sealed}
Taken  == IF opened = None THEN None ELSE BoxOf(opened.key.origin, opened.text, opened.aad)

LEMMA BoxStep ==
  ASSUME IInv, IInv', [Next]_vars
  PROVE  [Box!Next]_<<Closed, Taken>>
<1> USE DEF Closed, Taken
<1>1. ASSUME NEW h \in Holders, NEW text \in Texts, NEW aead \in Aeads, NEW aad \in Aads,
             Seal(h, text, aead, aad)
      PROVE  Box!Next
  <2> DEFINE b == BoxOf(h, text, aad)
  <2>1. b \in Box!Boxes
    BY DEF BoxOf, Label, Box!Boxes
  <2> DEFINE r == SealWith(PublicKeyOfHolder(h), text, aead, aad, Cardinality(sealed) + 1)
             d == [to |-> h, text |-> text, aad |-> aad, call |-> Cardinality(sealed) + 1,
                   frame |-> r.frame, eph |-> r.eph]
  <2>2. /\ sealed' = sealed \cup {d} /\ d.to = h /\ d.text = text /\ d.aad = aad
        /\ family' = family /\ opened' = opened
    BY <1>1 DEF Seal
  <2> HIDE DEF d
  <2>3. Taken' = Taken /\ Closed' = Closed \cup {b}
    BY <2>2 DEF BoxOf, Label
  <2>4. Box!Close(b)
    BY <2>3 DEF Box!Close
  <2>5. QED
    BY <2>1, <2>4 DEF Box!Next
<1>2. ASSUME UNCHANGED <<family, sealed, opened>>
      PROVE  UNCHANGED <<Closed, Taken>>
  BY <1>2 DEF BoxOf, Label
<1>3. ASSUME NEW h \in Holders, NEW aad \in Aads, NEW k \in FormsOf(h), Open(k, aad)
      PROVE  Box!Next
  <2>1. family' = family /\ sealed' = sealed
    BY <1>3 DEF Open
  <2>2. Closed' = Closed
    BY <2>1 DEF BoxOf, Label
  <2>3. CASE opened' = None
    BY <2>2, <2>3 DEF Box!Refuse, Box!Next
  <2>4. CASE opened' # None
    <3>1. PICK d \in sealed : /\ opened'.key = PrivateKeyOfHolder(d.to) /\ opened'.text = d.text
                              /\ Label(opened'.aad) = Label(d.aad)
      BY <2>1, <2>4 DEF IInv, OpenedAsSealed, PrivateKeyOfHolder, Label
    <3>2. opened'.key.origin = d.to
      BY <3>1 DEF PrivateKeyOfHolder, Multikey
    <3>3. Taken' = BoxOf(d.to, d.text, d.aad)
      BY <2>1, <2>4, <3>1, <3>2 DEF BoxOf, Label
    <3>4. Box!Open
      BY <2>2, <3>3 DEF Box!Open
    <3>5. QED
      BY <3>4 DEF Box!Next
  <2>5. QED
    BY <2>3, <2>4
<1>4. CASE ReceiveFrame \/ ReceiveEph \/ MixFrames \/ UNCHANGED vars
  BY <1>2, <1>4 DEF ReceiveFrame, ReceiveEph, MixFrames, vars
<1>5. QED
  BY <1>1, <1>3, <1>4 DEF Next

\* Sealing implements the sealed box: what is taken out of a box was put into
\* it for the one who takes it.
THEOREM ImplementsBox == Spec => SealsBoxes
<1>1. Init => Box!Init
  BY BoxInit
<1>2. IInv /\ IInv' /\ [Next]_vars => [Box!Next]_<<Closed, Taken>>
  BY BoxStep
<1>3. QED
  BY <1>1, <1>2, Inductive, PTL DEF Spec, SealsBoxes, Box!Spec, Closed, Taken
=============================================================================
