-------------------------- MODULE ThresholdMarker_proof --------------------------
(***************************************************************************)
(* Proofs about ThresholdMarker, for any controllers, groups, participant  *)
(* maps, meta keys and numbers, and any number of signatures.              *)
(***************************************************************************)
EXTENDS ThresholdMarker, FiniteSetTheorems, TLAPS

(***************************************************************************)
(* sign, verify and to_public_key of every family, for its key pairs.      *)
(***************************************************************************)
\* The families with one half and no scheme.
OneHalf == {"Ed25519", "Secp256k1", "NistP", "Rsa"} \cup PostQuantum

\* The dispatcher finds the views of a signing family's key pair.
LEMMA ViewsFound ==
  ASSUME NEW k, k.family \in SigningFamilies, k.role \in {"Priv", "Pub"}
  PROVE  LET v == IF k.family = "X25519" THEN "XEdDsa" ELSE k.family
         IN /\ DispatchSign(Asked(k)).view = v /\ DispatchVerify(Asked(k)).view = v
            /\ DispatchConv(Asked(k)).view = k.family
BY DEF DispatchSign, DispatchVerify, DispatchConv, Asked, CodecOf, Codec, Pairs, View, Arm,
       SignCodecs, HashBasedCodecs, BlsCodecs, KeyPairCodecs, OneTime, Roles, Families

\* The families of one half sign and verify alike.
LEMMA OneHalfViews ==
  ASSUME NEW k, k.family \in OneHalf, k.role \in {"Priv", "Pub"},
         NEW m, NEW combined, NEW call, NEW scheme, NEW s, NEW arg
  PROVE  \E a \in {Aware(k), Unaware(k)} :
           /\ SignWith(k, m, combined, call, scheme) =
                SignedWith(a, k, Plain(k.origin, m, call), m, combined)
           /\ PublicKeyOf(k) = Derived(a, k)
           /\ VerifiesWith(k, s, arg) <=> VerifiesPlain(PublicForm(a, Derived(a, k), k), s, arg)
<1>1. /\ DispatchSign(Asked(k)).view = k.family /\ DispatchVerify(Asked(k)).view = k.family
      /\ DispatchConv(Asked(k)).view = k.family
  BY ViewsFound DEF OneHalf, PostQuantum, SigningFamilies
<1>2. CASE k.family \in OneHalf \ PostQuantum
  BY <1>1, <1>2 DEF OneHalf, PostQuantum, SignWith, PublicKeyOf, VerifiesWith, Ed25519Sign,
     Secp256k1Sign, NistPSign, RsaSign, Ed25519Public, Secp256k1Public, NistPPublic, RsaPublic,
     Ed25519Verifies, Secp256k1Verifies, NistPVerifies, RsaVerifies, Ed25519Form, Secp256k1Form,
     NistPForm, RsaForm, Ed25519Attr, Secp256k1Attr, NistPAttr, RsaAttr
<1>3. CASE k.family \in PostQuantum
  BY <1>1, <1>3 DEF PostQuantum, SignWith, PublicKeyOf, VerifiesWith, MlDsaSign, FnDsaSign,
     MayoSign, SlhDsaSign, MlDsaPublic, FnDsaPublic, MayoPublic, SlhDsaPublic, MlDsaVerifies,
     FnDsaVerifies, MayoVerifies, SlhDsaVerifies, MlDsaForm, FnDsaForm, MayoForm, SlhDsaForm,
     MlDsaAttr, FnDsaAttr, MayoAttr, SlhDsaAttr
<1>4. QED
  BY <1>2, <1>3 DEF OneHalf

\* And so do the hybrid families.
LEMMA HybridViewsAlike ==
  ASSUME NEW k, k.family \in HybridFamilies, k.role \in {"Priv", "Pub"},
         NEW m, NEW combined, NEW call, NEW scheme, NEW s, NEW arg
  PROVE  /\ SignWith(k, m, combined, call, scheme) =
              SignedWith(Unaware(k), k, Nested(k.origin, m, call), m, combined)
         /\ PublicKeyOf(k) = Derived(Unaware(k), k)
         /\ VerifiesWith(k, s, arg) <=>
              VerifiesNested(PublicForm(Unaware(k), Derived(Unaware(k), k), k), s, arg)
<1>1. /\ DispatchSign(Asked(k)).view = k.family /\ DispatchVerify(Asked(k)).view = k.family
      /\ DispatchConv(Asked(k)).view = k.family
  BY ViewsFound DEF HybridFamilies, SigningFamilies
<1>2. QED
  BY <1>1 DEF HybridFamilies, SignWith, PublicKeyOf, VerifiesWith, Ed25519MlDsa65Sign,
     Ed25519FnDsa512Sign, Ed25519Mayo2Sign, BlsMlDsa65Sign, BlsFnDsa512Sign, BlsMayo1Sign,
     BlsMayo2Sign, Ed25519MlDsa65Public, Ed25519FnDsa512Public, Ed25519Mayo2Public,
     BlsMlDsa65Public, BlsFnDsa512Public, BlsMayo1Public, BlsMayo2Public,
     Ed25519MlDsa65Verifies, Ed25519FnDsa512Verifies, Ed25519Mayo2Verifies, BlsMlDsa65Verifies,
     BlsFnDsa512Verifies, BlsMayo1Verifies, BlsMayo2Verifies, Ed25519MlDsa65Form,
     Ed25519FnDsa512Form, Ed25519Mayo2Form, BlsMlDsa65Form, BlsFnDsa512Form, BlsMayo1Form,
     BlsMayo2Form, Ed25519MlDsa65Attr, Ed25519FnDsa512Attr, Ed25519Mayo2Attr, BlsMlDsa65Attr,
     BlsFnDsa512Attr, BlsMayo1Attr, BlsMayo2Attr

\* The attributes of a plain view: only private keys in the open are usable, and
\* the public form keeps the origin.
LEMMA PairAttr ==
  ASSUME NEW k, NEW a \in {Aware(k), Unaware(k)}
  PROVE  /\ a.secret <=> k.role = "Priv"
         /\ Usable(a, k) => k.role = "Priv" /\ ~ k.locked
         /\ k.role = "Priv" /\ ~ k.locked => Usable(a, k)
<1>1. /\ a.secret = (k.role \in {"Priv"})
      /\ a.encrypted = (TRUE /\ k.locked) \/ a.encrypted = (FALSE /\ k.locked)
  <2>1. CASE a = Aware(k)
    BY <2>1 DEF Aware, Attr
  <2>2. CASE a = Unaware(k)
    BY <2>2 DEF Unaware, Attr
  <2>3. QED
    BY <2>1, <2>2
<1>2. QED
  BY <1>1 DEF Usable, HasSecret, Parses

LEMMA FormOrigin ==
  ASSUME NEW k, NEW a \in {Aware(k), Unaware(k)}
  PROVE  LET p == PublicForm(a, Derived(a, k), k)
         IN p # None => p.origin = k.origin
<1>1. PublicOf(k).origin = k.origin
  BY DEF PublicOf, Multikey
<1>2. QED
  BY <1>1 DEF PublicForm, Derived

\* What sign returns begins with a half of the key and of the message.
MadeBy(s, o, m) == s.halves[1].by = o /\ s.halves[1].msg = m

LEMMA HalfMade ==
  ASSUME NEW o, NEW m, NEW call, NEW scheme, NEW combined, NEW asked0, NEW share
  PROVE  /\ MadeBy(Signature(Plain(o, m, call), m, combined, asked0, share), o, m)
         /\ MadeBy(Signature(Nested(o, m, call), m, combined, asked0, share), o, m)
         /\ MadeBy(Signature(<<Half(o, m, call, None, scheme)>>, m, combined, asked0, share), o, m)
BY DEF MadeBy, Signature, Plain, Nested, Half

\* What a BLS key signs, with the scheme asked for.
LEMMA BlsSigns ==
  ASSUME NEW k, k.family = "Bls", k.role \in {"Priv", "Pub"},
         NEW m, NEW combined, NEW call, NEW scheme,
         SignWith(k, m, combined, call, scheme) # None
  PROVE  /\ k.role = "Priv" /\ ~ k.locked /\ scheme \in Schemes
         /\ SignWith(k, m, combined, call, scheme) =
              Signature(<<Half(k.origin, m, call, None, scheme)>>, m, combined, scheme, FALSE)
<1>1. DispatchSign(Asked(k)).view = "Bls"
  BY ViewsFound DEF SigningFamilies
<1>2. SignWith(k, m, combined, call, scheme) = BlsSign(k, m, combined, call, scheme)
  BY <1>1 DEF SignWith
<1>3. BlsUsable(k) /\ scheme \in Schemes
  BY <1>2 DEF BlsSign
<1>4. k.role = "Priv" /\ ~ k.locked
  BY <1>3 DEF BlsUsable, BlsAttr, Attr, Usable, HasSecret, Parses
<1>5. (k.role = "PrivShare") = FALSE
  BY <1>4
<1>6. QED
  BY <1>2, <1>3, <1>4, <1>5 DEF BlsSign

\* What sign returns, by the kind of family; the key is private and in the open.
LEMMA SignShape ==
  ASSUME NEW k, k.family \in SigningFamilies, k.role \in {"Priv", "Pub"},
         NEW m, NEW combined, NEW call, NEW scheme,
         SignWith(k, m, combined, call, scheme) # None
  PROVE  /\ k.role = "Priv" /\ ~ k.locked
         /\ k.family \in OneHalf \cup {"X25519", "Lamport"} =>
              SignWith(k, m, combined, call, scheme) =
                Signature(Plain(k.origin, m, call), m, combined, None, FALSE)
         /\ k.family \in HybridFamilies =>
              SignWith(k, m, combined, call, scheme) =
                Signature(Nested(k.origin, m, call), m, combined, None, FALSE)
         /\ k.family = "Bls" =>
              /\ scheme \in Schemes
              /\ SignWith(k, m, combined, call, scheme) =
                   Signature(<<Half(k.origin, m, call, None, scheme)>>, m, combined, scheme, FALSE)
<1> USE DEF OneHalf, PostQuantum, HybridFamilies
<1>1. CASE k.family \in OneHalf
  <2>1. PICK a \in {Aware(k), Unaware(k)} :
          SignWith(k, m, combined, call, scheme) =
            SignedWith(a, k, Plain(k.origin, m, call), m, combined)
    BY <1>1, OneHalfViews
  <2>2. Usable(a, k)
    BY <2>1 DEF SignedWith
  <2>3. SignWith(k, m, combined, call, scheme) =
          Signature(Plain(k.origin, m, call), m, combined, None, FALSE)
    BY <2>1, <2>2 DEF SignedWith
  <2>4. QED
    BY <1>1, <2>2, <2>3, PairAttr
<1>2. CASE k.family \in HybridFamilies
  <2>1. SignWith(k, m, combined, call, scheme) =
          SignedWith(Unaware(k), k, Nested(k.origin, m, call), m, combined)
    BY <1>2, HybridViewsAlike
  <2>2. Usable(Unaware(k), k)
    BY <2>1 DEF SignedWith
  <2>3. SignWith(k, m, combined, call, scheme) =
          Signature(Nested(k.origin, m, call), m, combined, None, FALSE)
    BY <2>1, <2>2 DEF SignedWith
  <2>4. QED
    BY <1>2, <2>2, <2>3, PairAttr
<1>3. CASE k.family = "X25519"
  <2>1. DispatchSign(Asked(k)).view = "XEdDsa"
    BY <1>3, ViewsFound
  <2>2. SignWith(k, m, combined, call, scheme) = XEdDsaSign(k, m, combined, call)
    BY <2>1 DEF SignWith
  <2>3. Usable(Unaware(k), k)
    BY <2>2 DEF XEdDsaSign, X25519Attr, SignedWith
  <2>4. SignWith(k, m, combined, call, scheme) =
          Signature(Plain(k.origin, m, call), m, combined, None, FALSE)
    BY <2>2, <2>3 DEF XEdDsaSign, X25519Attr, SignedWith
  <2>5. QED
    BY <1>3, <2>3, <2>4, PairAttr
<1>4. CASE k.family = "Bls"
  BY <1>4, BlsSigns
<1>5. CASE k.family = "Lamport"
  <2>1. DispatchSign(Asked(k)).view = "Lamport"
    BY <1>5, ViewsFound
  <2>2. SignWith(k, m, combined, call, scheme) = LamportSign(k, m, combined, call)
    BY <2>1 DEF SignWith
  <2>3. k.role # "PrivShare"
    OBVIOUS
  <2>4. LamportSign(k, m, combined, call) # None => LamportSignBytes(k, m, call) # None
    BY <2>3 DEF LamportSign
  <2>5. k.role = "Priv" /\ ~ k.locked /\ LamportSignBytes(k, m, call) = Plain(k.origin, m, call)
    BY <2>2, <2>4 DEF LamportSignBytes, Parses
  <2>6. LamportSign(k, m, combined, call) =
          Signature(Plain(k.origin, m, call), m, combined, None, FALSE)
    <3>1. (k.role = "PrivShare") = FALSE
      BY <2>3
    <3>2. QED
      BY <2>2, <2>4, <2>5, <3>1 DEF LamportSign
  <2>7. QED
    BY <1>5, <2>2, <2>5, <2>6
<1>6. QED
  BY <1>1, <1>2, <1>3, <1>4, <1>5 DEF SigningFamilies

\* X25519 keys sign challenges only.
LEMMA OnlyChallenges ==
  ASSUME NEW k, k.family = "X25519", k.role \in {"Priv", "Pub"},
         NEW m, NEW combined, NEW call, NEW scheme,
         SignWith(k, m, combined, call, scheme) # None
  PROVE  m \in Challenges
<1>1. DispatchSign(Asked(k)).view = "XEdDsa"
  BY ViewsFound DEF SigningFamilies
<1>2. SignWith(k, m, combined, call, scheme) = XEdDsaSign(k, m, combined, call)
  BY <1>1 DEF SignWith
<1>3. QED
  BY <1>2 DEF XEdDsaSign

LEMMA SignMakes ==
  ASSUME NEW k, k.family \in SigningFamilies, k.role \in {"Priv", "Pub"},
         NEW m, NEW combined, NEW call, NEW scheme,
         SignWith(k, m, combined, call, scheme) # None
  PROVE  MadeBy(SignWith(k, m, combined, call, scheme), k.origin, m)
<1>1. k.family \in OneHalf \cup {"X25519", "Lamport"} \cup HybridFamilies \cup {"Bls"}
  BY DEF SigningFamilies, OneHalf
<1> DEFINE s == SignWith(k, m, combined, call, scheme)
<1>2. CASE k.family \in OneHalf \cup {"X25519", "Lamport"}
  <2>1. s = Signature(Plain(k.origin, m, call), m, combined, None, FALSE)
    BY <1>2, SignShape
  <2>2. QED
    BY <2>1, HalfMade
<1>3. CASE k.family \in HybridFamilies
  <2>1. s = Signature(Nested(k.origin, m, call), m, combined, None, FALSE)
    BY <1>3, SignShape
  <2>2. QED
    BY <2>1, HalfMade
<1>4. CASE k.family = "Bls"
  <2>1. s = Signature(<<Half(k.origin, m, call, None, scheme)>>, m, combined, scheme, FALSE)
    BY <1>4, SignShape
  <2>2. QED
    BY <2>1, HalfMade
<1>5. QED
  BY <1>1, <1>2, <1>3, <1>4

\* verify accepts only what begins with a half of the key for the message given.
LEMMA VerifyBinds ==
  ASSUME NEW k, k.family \in SigningFamilies, k.role \in {"Priv", "Pub"},
         NEW s, NEW arg, arg # None, VerifiesWith(k, s, arg)
  PROVE  MadeBy(s, k.origin, arg)
<1> DEFINE p(a) == PublicForm(a, Derived(a, k), k)
<1>0. Effective(s, arg) = arg
  BY DEF Effective
<1>1. CASE k.family \in OneHalf
  <2>1. PICK a \in {Aware(k), Unaware(k)} : VerifiesPlain(p(a), s, arg)
    BY <1>1, OneHalfViews
  <2>2. QED
    BY <1>0, <2>1, FormOrigin DEF VerifiesPlain, Checks, MadeBy
<1>2. CASE k.family \in HybridFamilies
  <2>1. VerifiesNested(p(Unaware(k)), s, arg)
    BY <1>2, HybridViewsAlike
  <2>2. QED
    BY <1>0, <2>1, FormOrigin DEF VerifiesNested, Checks, MadeBy
<1>3. CASE k.family = "X25519"
  <2>1. DispatchVerify(Asked(k)).view = "XEdDsa"
    BY <1>3, ViewsFound
  <2>2. VerifiesWith(k, s, arg) <=> XEdDsaVerifies(k, s, arg)
    BY <2>1 DEF VerifiesWith
  <2>3. VerifiesPlain(p(Unaware(k)), s, arg)
    BY <2>2 DEF XEdDsaVerifies, X25519Form, X25519Public, X25519Attr
  <2>4. QED
    BY <1>0, <2>3, FormOrigin DEF VerifiesPlain, Checks, MadeBy
<1>4. CASE k.family = "Bls"
  <2>1. DispatchVerify(Asked(k)).view = "Bls"
    BY <1>4, ViewsFound
  <2>2. VerifiesWith(k, s, arg) <=> BlsVerifies(k, s, arg)
    BY <2>1 DEF VerifiesWith
  <2>3. /\ BlsForm(k) # None
        /\ Checks(s.halves[1], BlsForm(k).origin, arg, None, s.scheme)
    BY <1>0, <2>2 DEF BlsVerifies
  <2>4. BlsForm(k).origin = k.origin
    <3>1. /\ PublicOf(k).origin = k.origin
          /\ Multikey(k.family, "PubShare", k.origin, TRUE).origin = k.origin
      BY DEF PublicOf, Multikey
    <3>2. QED
      BY <2>3, <3>1 DEF BlsForm, PublicForm, BlsPublic
  <2>5. QED
    BY <2>3, <2>4 DEF Checks, MadeBy
<1>5. CASE k.family = "Lamport"
  <2>1. DispatchVerify(Asked(k)).view = "Lamport"
    BY <1>5, ViewsFound
  <2>2. VerifiesWith(k, s, arg) <=> LamportVerifies(k, s, arg)
    BY <2>1 DEF VerifiesWith
  <2>3. /\ p(Unaware(k)) # None
        /\ Checks(s.halves[1], p(Unaware(k)).origin, arg, None, None)
    BY <1>0, <2>2 DEF LamportVerifies, LamportVerifyBytes, LamportForm, LamportPublic, LamportAttr
  <2>4. QED
    BY <2>3, FormOrigin DEF Checks, MadeBy
<1>6. QED
  BY <1>1, <1>2, <1>3, <1>4, <1>5 DEF SigningFamilies, OneHalf, PostQuantum

\* A private key in the open and its public key have that public key as form.
LEMMA FormOf ==
  ASSUME NEW f, NEW o, NEW k \in {Multikey(f, "Priv", o, FALSE), Multikey(f, "Pub", o, FALSE)},
         NEW a \in {Aware(k), Unaware(k)}
  PROVE  PublicForm(a, Derived(a, k), k) = Multikey(f, "Pub", o, FALSE)
<1>1. CASE k = Multikey(f, "Priv", o, FALSE)
  <2>1. /\ k.role = "Priv" /\ ~ k.locked
        /\ PublicOf(k) = Multikey(f, "Pub", o, FALSE)
    BY <1>1 DEF Multikey, PublicOf
  <2>2. QED
    BY <2>1, PairAttr DEF PublicForm, Derived
<1>2. CASE k = Multikey(f, "Pub", o, FALSE)
  <2>1. k.role # "Priv"
    BY <1>2 DEF Multikey
  <2>2. QED
    BY <1>2, <2>1, PairAttr DEF PublicForm
<1>3. QED
  BY <1>1, <1>2

\* What a key signed, without the message in it, both forms of it verify.
LEMMA SignVerifies ==
  ASSUME NEW f \in SigningFamilies, NEW o \in Origins, NEW m \in Messages, NEW call, NEW scheme,
         Multikey(f, "Pub", o, FALSE) # None,
         SignWith(Multikey(f, "Priv", o, FALSE), m, FALSE, call, scheme) # None,
         NEW k \in {Multikey(f, "Priv", o, FALSE), Multikey(f, "Pub", o, FALSE)}
  PROVE  VerifiesWith(k, SignWith(Multikey(f, "Priv", o, FALSE), m, FALSE, call, scheme), m)
<1> DEFINE key == Multikey(f, "Priv", o, FALSE)
           pub == Multikey(f, "Pub", o, FALSE)
           s   == SignWith(key, m, FALSE, call, scheme)
<1>1. /\ key.family = f /\ key.role = "Priv" /\ key.origin = o
      /\ pub.family = f /\ pub.role = "Pub" /\ pub.origin = o
      /\ k.family = f /\ k.role \in {"Priv", "Pub"}
  BY DEF Multikey
<1>2. m # None /\ Effective(s, m) = m
  BY FormConstants DEF Effective
<1> HIDE DEF key, pub, s
<1>3. key = Multikey(f, "Priv", o, FALSE) /\ pub = Multikey(f, "Pub", o, FALSE) /\ pub # None
  BY DEF key, pub
<1>4. s = SignWith(key, m, FALSE, call, scheme) /\ s # None
  BY DEF key, s
<1>5. /\ f \in OneHalf \cup {"X25519", "Lamport"} => s.halves = Plain(o, m, call)
      /\ f \in HybridFamilies => s.halves = Nested(o, m, call)
      /\ f = "Bls" => /\ scheme \in Schemes /\ s.scheme = scheme
                      /\ s.halves = <<Half(o, m, call, None, scheme)>>
      /\ f = "X25519" => m \in Challenges
  <2>1. /\ f \in OneHalf \cup {"X25519", "Lamport"} =>
             s = Signature(Plain(o, m, call), m, FALSE, None, FALSE)
        /\ f \in HybridFamilies => s = Signature(Nested(o, m, call), m, FALSE, None, FALSE)
        /\ f = "Bls" =>
             /\ scheme \in Schemes
             /\ s = Signature(<<Half(o, m, call, None, scheme)>>, m, FALSE, scheme, FALSE)
        /\ f = "X25519" => m \in Challenges
    <3>1. key.family \in SigningFamilies /\ key.role \in {"Priv", "Pub"}
      BY <1>1
    <3>2. SignWith(key, m, FALSE, call, scheme) # None
      BY <1>4
    <3>3. key.family = f /\ key.origin = o
      BY <1>1
    <3>4. ASSUME key.family \in OneHalf \cup {"X25519", "Lamport"}
          PROVE  s = Signature(Plain(key.origin, m, call), m, FALSE, None, FALSE)
      BY <1>4, <3>1, <3>2, <3>4, SignShape, Zenon
    <3>5. ASSUME key.family \in HybridFamilies
          PROVE  s = Signature(Nested(key.origin, m, call), m, FALSE, None, FALSE)
      BY <1>4, <3>1, <3>2, <3>5, SignShape, Zenon
    <3>6. ASSUME key.family = "Bls"
          PROVE  /\ scheme \in Schemes
                 /\ s = Signature(<<Half(key.origin, m, call, None, scheme)>>, m, FALSE, scheme, FALSE)
      BY <1>4, <3>1, <3>2, <3>6, BlsSigns, Zenon
    <3>7. key.family = "X25519" => m \in Challenges
      BY <3>1, <3>2, OnlyChallenges, Zenon
    <3>8. QED
      BY ONLY <3>3, <3>4, <3>5, <3>6, <3>7
  <2>2. \A h, c : /\ Signature(h, m, FALSE, c, FALSE).halves = h
                  /\ Signature(h, m, FALSE, c, FALSE).scheme = c
    BY DEF Signature
  <2>3. f \in OneHalf \cup {"X25519", "Lamport"} => s.halves = Plain(o, m, call)
    BY <2>1, <2>2
  <2>4. f \in HybridFamilies => s.halves = Nested(o, m, call)
    BY <2>1, <2>2
  <2>5. f = "Bls" => /\ scheme \in Schemes /\ s.scheme = scheme
                     /\ s.halves = <<Half(o, m, call, None, scheme)>>
    BY <2>1, <2>2
  <2>6. QED
    BY <2>1, <2>3, <2>4, <2>5
<1>6. s.halves = Plain(o, m, call) => VerifiesPlain(pub, s, m)
  <2>1. /\ Len(Plain(o, m, call)) = 1 /\ Plain(o, m, call)[1] = Half(o, m, call, None, None)
        /\ Checks(Half(o, m, call, None, None), o, m, None, None)
    BY DEF Plain, Half, Checks
  <2>2. QED
    BY <1>1, <1>2, <1>3, <2>1 DEF VerifiesPlain
<1>7. s.halves = Nested(o, m, call) => VerifiesNested(pub, s, m)
  <2> DEFINE n  == Nested(o, m, call)
             h1 == Half(o, m, call, None, None)
  <2>1. Len(n) = 2 /\ n[1] = h1 /\ n[2] = Half(o, m, call, h1, None)
    <3>1. \A x, y : Len(<<x, y>>) = 2 /\ <<x, y>>[1] = x /\ <<x, y>>[2] = y
      OBVIOUS
    <3>2. n = <<h1, Half(o, m, call, h1, None)>>
      BY DEF Nested
    <3>3. QED
      BY <3>1, <3>2
  <2>2. Checks(h1, o, m, None, None) /\ Checks(Half(o, m, call, h1, None), o, m, h1, None)
    BY DEF Half, Checks
  <2> HIDE DEF h1, n
  <2>3. n = Nested(o, m, call)
    BY DEF n
  <2>4. QED
    BY <1>1, <1>2, <1>3, <2>1, <2>2, <2>3 DEF VerifiesNested
<1>8. \A a \in {Aware(k), Unaware(k)} : PublicForm(a, Derived(a, k), k) = pub
  BY <1>3, FormOf
<1>9. VerifiesWith(k, s, m)
  <2>1. CASE f \in OneHalf
    BY <1>1, <1>5, <1>6, <1>8, <2>1, OneHalfViews
  <2>2. CASE f \in HybridFamilies
    BY <1>1, <1>5, <1>7, <1>8, <2>2, HybridViewsAlike
  <2>3. CASE f = "X25519"
    <3>1. DispatchVerify(Asked(k)).view = "XEdDsa"
      BY <1>1, <2>3, ViewsFound
    <3>2. VerifiesWith(k, s, m) <=> XEdDsaVerifies(k, s, m)
      BY <3>1 DEF VerifiesWith
    <3>3. X25519Form(k) = pub
      BY <1>8 DEF X25519Form, X25519Public, X25519Attr
    <3>4. QED
      BY <1>2, <1>5, <1>6, <2>3, <3>2, <3>3 DEF XEdDsaVerifies
  <2>4. CASE f = "Bls"
    <3>1. DispatchVerify(Asked(k)).view = "Bls"
      BY <1>1, <2>4, ViewsFound
    <3>2. VerifiesWith(k, s, m) <=> BlsVerifies(k, s, m)
      BY <3>1 DEF VerifiesWith
    <3>3. BlsForm(k) = pub
      <4>1. CASE k = key
        <5>1. k.role = "Priv" /\ ~ k.locked /\ PublicOf(k) = pub
          BY <1>3, <4>1 DEF Multikey, PublicOf
        <5>2. BlsAttr(k).secret /\ BlsUsable(k)
          BY <5>1 DEF BlsUsable, BlsAttr, Attr, Usable, HasSecret, Parses
        <5>3. QED
          BY <5>1, <5>2 DEF BlsForm, PublicForm, BlsPublic
      <4>2. CASE k = pub
        <5>1. ~ BlsAttr(k).secret
          BY <1>1, <4>2 DEF BlsAttr, Attr
        <5>2. QED
          BY <4>2, <5>1 DEF BlsForm, PublicForm
      <4>3. QED
        BY <1>3, <4>1, <4>2
    <3>4. Len(s.halves) = 1 /\ Checks(s.halves[1], o, m, None, s.scheme)
      BY <1>5, <2>4 DEF Half, Checks
    <3>5. QED
      BY <1>1, <1>2, <1>3, <1>5, <2>4, <3>2, <3>3, <3>4 DEF BlsVerifies
  <2>5. CASE f = "Lamport"
    <3>1. DispatchVerify(Asked(k)).view = "Lamport"
      BY <1>1, <2>5, ViewsFound
    <3>2. VerifiesWith(k, s, m) <=> LamportVerifies(k, s, m)
      BY <3>1 DEF VerifiesWith
    <3>3. LamportForm(k) = pub
      BY <1>8 DEF LamportForm, LamportPublic, LamportAttr
    <3>4. Len(s.halves) = 1 /\ Checks(s.halves[1], o, m, None, None)
      BY <1>5, <2>5 DEF Plain, Half, Checks
    <3>5. QED
      BY <1>1, <1>2, <1>3, <3>2, <3>3, <3>4 DEF LamportVerifies, LamportVerifyBytes
  <2>6. QED
    BY <2>1, <2>2, <2>3, <2>4, <2>5 DEF SigningFamilies, OneHalf
<1>10. QED
  BY <1>9 DEF key, s

\* to_public_key of a private key in the open.
LEMMA PublicForms ==
  ASSUME NEW f \in SigningFamilies, NEW o
  PROVE  PublicKeyOf(Multikey(f, "Priv", o, FALSE)) = Multikey(f, "Pub", o, FALSE)
<1> DEFINE k == Multikey(f, "Priv", o, FALSE)
<1>1. /\ k.family = f /\ k.role = "Priv" /\ ~ k.locked
      /\ PublicOf(k) = Multikey(f, "Pub", o, FALSE)
  BY DEF Multikey, PublicOf
<1> HIDE DEF k
<1>2. \A a \in {Aware(k), Unaware(k)} : Derived(a, k) = PublicOf(k)
  BY <1>1, PairAttr DEF Derived
<1>3. PublicKeyOf(k) = PublicOf(k)
  <2>1. CASE f \in OneHalf
    BY <1>1, <1>2, <2>1, OneHalfViews
  <2>2. CASE f \in HybridFamilies
    BY <1>1, <1>2, <2>2, HybridViewsAlike
  <2>3. CASE f = "X25519"
    <3>1. PublicKeyOf(k) = X25519Public(k)
      BY <1>1, <2>3, ViewsFound DEF PublicKeyOf
    <3>2. QED
      BY <1>2, <3>1 DEF X25519Public, X25519Attr
  <2>4. CASE f = "Bls"
    <3>1. PublicKeyOf(k) = BlsPublic(k)
      BY <1>1, <2>4, ViewsFound DEF PublicKeyOf
    <3>2. BlsUsable(k)
      BY <1>1 DEF BlsUsable, BlsAttr, Attr, Usable, HasSecret, Parses
    <3>3. QED
      BY <1>1, <3>1, <3>2 DEF BlsPublic
  <2>5. CASE f = "Lamport"
    <3>1. PublicKeyOf(k) = LamportPublic(k)
      BY <1>1, <2>5, ViewsFound DEF PublicKeyOf
    <3>2. QED
      BY <1>2, <3>1 DEF LamportPublic, LamportAttr
  <2>6. QED
    BY <2>1, <2>2, <2>3, <2>4, <2>5 DEF SigningFamilies, OneHalf
<1>4. QED
  BY <1>1, <1>3 DEF k
-----------------------------------------------------------------------------
(***************************************************************************)
(* The disclosure attributes.                                              *)
(***************************************************************************)
Numbers == Nat \cup {None}

\* The parameters state a.threshold and a.limit, each once, in the open or
\* encrypted.
Meant(p, a) ==
  /\ p.threshold # None => D!DisclosureMode(p) = "Full" /\ Says(p.threshold, a.threshold)
  /\ p.limit # None => D!DisclosureMode(p) # "FullConfidential" /\ Says(p.limit, a.limit)
  /\ D!DisclosureMode(p) # "Full" /\ p.enc # None => Says(p.enc.threshold, a.threshold)
  /\ D!DisclosureMode(p) = "FullConfidential" /\ p.enc # None /\ p.enc.limit # None =>
       Says(p.enc.limit, a.limit)

\* They state exactly t and n.
Kept(p, t, n) ==
  /\ p.threshold = (IF D!DisclosureMode(p) = "Full" THEN t ELSE None)
  /\ p.limit = (IF D!DisclosureMode(p) = "FullConfidential" THEN None ELSE n)
  /\ D!DisclosureMode(p) # "Full" => p.enc.threshold = t
  /\ D!DisclosureMode(p) = "FullConfidential" => p.enc.limit = n

\* The cast to u16.
LEMMA Cast ==
  ASSUME NEW v \in Nat
  PROVE  /\ D!AsU16(v) \in 0..Width - 1
         /\ v < Width => D!AsU16(v) = v
<1>1. Width \in Nat /\ Width > 0
  BY MarkerConstants
<1>2. QED
  BY <1>1 DEF D!AsU16

LEMMA CastSays ==
  ASSUME NEW v \in Nat, NEW a \in Numbers, Says(v, a)
  PROVE  Says(D!AsU16(v), a)
<1>1. a # None /\ a \in Nat
  BY MarkerConstants DEF Says, Numbers
<1>2. CASE v = a
  BY <1>1, <1>2 DEF Says
<1>3. CASE v = D!AsU16(a)
  <2>1. v < Width
    BY <1>1, <1>3, Cast, MarkerConstants
  <2>2. D!AsU16(v) = D!AsU16(a)
    BY <1>3, <2>1, Cast
  <2>3. QED
    BY <1>1, <2>2 DEF Says
<1>4. QED
  BY <1>2, <1>3 DEF Says

\* What a reader of well-typed parameters reads is a pair of numbers.
LEMMA ReadNumbers ==
  ASSUME NEW p \in D!Params, NEW k \in Keys, D!ReadWith(p, k)
  PROVE  D!ReadThreshold(p) \in Nat /\ D!ReadLimit(p) \in Nat
<1>1. p.enc # None => p.enc.threshold \in Nat /\ p.enc.limit \in Numbers
  BY DEF D!Params, D!Encryptions, Numbers
<1>2. p.threshold \in Numbers /\ p.limit \in Numbers
  BY DEF D!Params, Numbers
<1>3. QED
  BY <1>1, <1>2 DEF D!ReadWith, D!ReadThreshold, D!ReadLimit, Numbers

LEMMA ReadMeant ==
  ASSUME NEW p \in D!Params, NEW k \in Keys, D!ReadWith(p, k), NEW a, Meant(p, a)
  PROVE  Says(D!ReadThreshold(p), a.threshold) /\ Says(D!ReadLimit(p), a.limit)
BY DEF D!ReadWith, D!ReadThreshold, D!ReadLimit, Meant

LEMMA ReadKept ==
  ASSUME NEW p, NEW t, NEW n, Kept(p, t, n), D!DisclosureMode(p) \in D!Modes
  PROVE  D!ReadThreshold(p) = t /\ D!ReadLimit(p) = n
BY DEF D!ReadThreshold, D!ReadLimit, Kept, D!Modes

\* Stamped parameters, mode by mode.
LEMMA StampedShape ==
  ASSUME NEW p, NEW mode \in D!Modes, NEW t \in Nat, NEW n \in Nat, NEW k \in Keys,
         D!CanStamp(mode, k)
  PROVE  LET q == D!Stamped(p, mode, t, n, k)
         IN /\ q \in D!Params /\ D!DisclosureMode(q) = mode
            /\ q.threshold = (IF mode = "Full" THEN t ELSE None)
            /\ q.limit = (IF mode = "FullConfidential" THEN None ELSE n)
            /\ mode # "Full" => q.enc.threshold = D!AsU16(t)
            /\ mode = "FullConfidential" => q.enc.limit = D!AsU16(n)
<1> DEFINE q == D!Stamped(p, mode, t, n, k)
           e == [key |-> k, threshold |-> D!AsU16(t),
                 limit |-> IF mode = "Partial" THEN None ELSE D!AsU16(n)]
<1>1. mode # None /\ D!AsU16(t) \in Nat /\ D!AsU16(n) \in Nat
  BY Cast, MarkerConstants
<1>2. q = [threshold |-> IF mode = "Full" THEN t ELSE None,
           limit |-> IF mode = "FullConfidential" THEN None ELSE n,
           mode |-> mode,
           enc |-> IF mode = "Full" THEN None ELSE e]
  BY DEF D!Stamped, D!Cleared
<1>3. mode # "Full" => e \in D!Encryptions
  <2>1. mode # "Full" => k \in MetaKeys
    BY DEF D!CanStamp
  <2>2. QED
    BY <1>1, <2>1 DEF D!Encryptions
<1>4. e.threshold = D!AsU16(t) /\ e.limit = IF mode = "Partial" THEN None ELSE D!AsU16(n)
  OBVIOUS
<1> HIDE DEF e, q
<1>5. q \in D!Params
  BY <1>2, <1>3 DEF D!Params
<1>6. q.mode = mode /\ D!DisclosureMode(q) = mode
  BY <1>1, <1>2 DEF D!DisclosureMode
<1>7. QED
  BY <1>2, <1>4, <1>5, <1>6 DEF q

LEMMA StampedMeant ==
  ASSUME NEW p, NEW mode \in D!Modes, NEW t \in Nat, NEW n \in Nat, NEW k \in Keys,
         D!CanStamp(mode, k), NEW a, a.threshold \in Numbers, a.limit \in Numbers,
         Says(t, a.threshold), Says(n, a.limit)
  PROVE  LET q == D!Stamped(p, mode, t, n, k) IN Meant(q, a) /\ Coherent(q)
<1>1. Says(D!AsU16(t), a.threshold) /\ Says(D!AsU16(n), a.limit)
  BY CastSays
<1>2. QED
  BY <1>1, StampedShape DEF Meant, Coherent

LEMMA StampedKept ==
  ASSUME NEW p, NEW mode \in D!Modes, NEW t \in 0..Width - 1, NEW n \in 0..Width - 1,
         NEW k \in Keys, D!CanStamp(mode, k)
  PROVE  Kept(D!Stamped(p, mode, t, n, k), t, n)
<1>1. /\ t \in Nat /\ n \in Nat
      /\ D!AsU16(t) = t /\ D!AsU16(n) = n
  BY Cast, MarkerConstants
<1>2. QED
  BY <1>1, StampedShape DEF Kept
-----------------------------------------------------------------------------
(***************************************************************************)
(* The inductive invariant.                                                *)
(***************************************************************************)
IsMarker(mk) ==
  mk = [params |-> mk.params, group |-> mk.group, participants |-> mk.participants, sig |-> mk.sig]

IsAsked(a) == a = [threshold |-> a.threshold, limit |-> a.limit]

ShapeInv ==
  /\ TypeOK /\ IsMarker(marker)
  /\ asked # None => IsAsked(asked)
  /\ ~ built => since = None

\* The parameters state what was asked for last, once.
AskedInv == asked # None => Coherent(marker.params) /\ Meant(marker.params, asked)

VerifyingKeys(c) == {ControllerKey(c), Multikey(family, "Pub", c, FALSE)}

\* What sign_marker signed is of its controller and of a bundle of attributes.
SignedInv ==
  \A d \in signed : /\ d.by \in Controllers /\ d.sig # None
                    /\ MadeBy(d.sig, d.by, d.says)

\* The signature at the key is one that sign_marker made.
SigInv == marker.sig # None => \E d \in signed : marker.sig = d.sig

\* The attributes that were signed last still say so, in one mode or another.
SinceInv ==
  since # None =>
    /\ since.by \in Controllers /\ since.bundle \in Bundles
    /\ marker.group = since.bundle.group
    /\ marker.participants = since.bundle.participants
    /\ marker.participants \notin Oversized
    /\ Kept(marker.params, since.bundle.threshold, since.bundle.limit)
    /\ marker.sig # None
    /\ \A k \in VerifyingKeys(since.by) : VerifiesWith(k, marker.sig, since.bundle)

IInv == ShapeInv /\ AskedInv /\ SignedInv /\ SigInv /\ SinceInv

\* A new Builder.
LEMMA InitInv == Init => IInv
<1> SUFFICES ASSUME Init PROVE IInv
  OBVIOUS
<1>1. marker.params = NoParams /\ marker.group = None /\ marker.participants = None
        /\ marker.sig = None /\ IsMarker(marker)
  BY DEF Init, Unmarked, IsMarker
<1>2. NoParams \in D!Params
  BY DEF NoParams, D!Params
<1>3. ShapeInv
  BY <1>1, <1>2 DEF Init, ShapeInv, TypeOK, IsAsked
<1>4. AskedInv
  BY <1>1, MarkerConstants DEF Init, AskedInv, Coherent, Meant, NoParams, D!DisclosureMode
<1>5. SignedInv /\ SigInv /\ SinceInv
  BY <1>1 DEF Init, SignedInv, SigInv, SinceInv
<1>6. QED
  BY <1>3, <1>4, <1>5 DEF IInv

\* Neither the keys nor what verifies depends on anything but the family.
LEMMA KeysStay ==
  ASSUME UNCHANGED family
  PROVE  /\ \A c : (ControllerKey(c))' = ControllerKey(c)
         /\ \A c : (VerifyingKeys(c))' = VerifyingKeys(c)
<1>1. \A c : (ControllerKey(c))' = ControllerKey(c)
  BY DEF ControllerKey, Multikey
<1>2. QED
  BY <1>1 DEF VerifyingKeys, Multikey

\* A call of the Builder.
LEMMA AsksKeeps ==
  ASSUME IInv, NEW p \in D!Params, NEW a, Asks(p, a),
         Coherent(p) /\ a # None =>
           /\ IsAsked(a) /\ a.threshold \in Numbers /\ a.limit \in Numbers
           /\ Meant(p, a)
  PROVE  IInv'
<1>1. /\ ~ built /\ marker' = [marker EXCEPT !.params = p]
      /\ asked' = (IF Coherent(p) THEN a ELSE None)
      /\ UNCHANGED <<family, built, signed, since>>
  BY DEF Asks
<1>2. /\ marker'.params = p /\ marker'.group = marker.group
      /\ marker'.participants = marker.participants /\ marker'.sig = marker.sig
      /\ IsMarker(marker)'
  BY <1>1 DEF IInv, ShapeInv, IsMarker
<1>3. asked' # None => asked' = a /\ Coherent(p) /\ a # None
  BY <1>1
<1>4. ShapeInv'
  BY <1>1, <1>2, <1>3 DEF IInv, ShapeInv, TypeOK, Numbers
<1>5. AskedInv'
  BY <1>2, <1>3 DEF AskedInv
<1>6. SignedInv' /\ SigInv'
  BY <1>1, <1>2 DEF IInv, SignedInv, SigInv
<1>7. SinceInv'
  BY <1>1 DEF IInv, ShapeInv, SinceInv
<1>8. QED
  BY <1>4, <1>5, <1>6, <1>7 DEF IInv

\* A number stated in the open is a number.
LEMMA ParamsWith ==
  ASSUME NEW p \in D!Params, NEW v \in Nat
  PROVE  /\ [p EXCEPT !.threshold = v] \in D!Params
         /\ [p EXCEPT !.limit = v] \in D!Params
BY DEF D!Params

LEMMA WithThresholdKeeps ==
  ASSUME IInv, NEW v \in Values, WithThreshold(v)
  PROVE  IInv'
<1> DEFINE p == marker.params
           q == [p EXCEPT !.threshold = v]
           a == IF asked = None THEN None ELSE [asked EXCEPT !.threshold = v]
<1>1. v \in Nat /\ v # None /\ p \in D!Params /\ q \in D!Params
  BY MarkerConstants, ParamsWith DEF IInv, ShapeInv, TypeOK
<1>2. q.threshold = v /\ q.limit = p.limit /\ q.mode = p.mode /\ q.enc = p.enc
  BY <1>1 DEF D!Params
<1>3. D!DisclosureMode(q) = D!DisclosureMode(p)
  BY <1>2 DEF D!DisclosureMode
<1>4. ASSUME Coherent(q), a # None
      PROVE  IsAsked(a) /\ a.threshold \in Numbers /\ a.limit \in Numbers /\ Meant(q, a)
  <2>1. /\ asked # None /\ IsAsked(asked)
        /\ asked.threshold \in Numbers /\ asked.limit \in Numbers
    BY <1>4 DEF IInv, ShapeInv, TypeOK, Numbers
  <2>2. a = [threshold |-> v, limit |-> asked.limit]
    BY <2>1 DEF IsAsked
  <2>3. a.threshold = v /\ a.limit = asked.limit /\ IsAsked(a)
    BY <2>2 DEF IsAsked
  <2>4. D!DisclosureMode(p) = "Full"
    BY <1>1, <1>2, <1>3, <1>4 DEF Coherent
  <2>5. Meant(p, asked)
    BY <2>1 DEF IInv, AskedInv
  <2>6. Meant(q, a)
    BY <1>2, <1>3, <2>3, <2>4, <2>5 DEF Meant, Says
  <2>7. QED
    BY <1>1, <2>1, <2>3, <2>6 DEF Numbers
<1>5. Asks(q, a)
  BY DEF WithThreshold
<1> HIDE DEF q, a
<1>6. QED
  BY <1>1, <1>4, <1>5, AsksKeeps

LEMMA WithLimitKeeps ==
  ASSUME IInv, NEW v \in Values, WithLimit(v)
  PROVE  IInv'
<1> DEFINE p == marker.params
           q == [p EXCEPT !.limit = v]
           a == IF asked = None THEN None ELSE [asked EXCEPT !.limit = v]
<1>1. v \in Nat /\ v # None /\ p \in D!Params /\ q \in D!Params
  BY MarkerConstants, ParamsWith DEF IInv, ShapeInv, TypeOK
<1>2. q.limit = v /\ q.threshold = p.threshold /\ q.mode = p.mode /\ q.enc = p.enc
  BY <1>1 DEF D!Params
<1>3. D!DisclosureMode(q) = D!DisclosureMode(p)
  BY <1>2 DEF D!DisclosureMode
<1>4. ASSUME Coherent(q), a # None
      PROVE  IsAsked(a) /\ a.threshold \in Numbers /\ a.limit \in Numbers /\ Meant(q, a)
  <2>1. /\ asked # None /\ IsAsked(asked)
        /\ asked.threshold \in Numbers /\ asked.limit \in Numbers
    BY <1>4 DEF IInv, ShapeInv, TypeOK, Numbers
  <2>2. a = [threshold |-> asked.threshold, limit |-> v]
    BY <2>1 DEF IsAsked
  <2>3. a.threshold = asked.threshold /\ a.limit = v /\ IsAsked(a)
    BY <2>2 DEF IsAsked
  <2>4. D!DisclosureMode(p) # "FullConfidential"
    BY <1>1, <1>2, <1>3, <1>4 DEF Coherent
  <2>5. Meant(p, asked)
    BY <2>1 DEF IInv, AskedInv
  <2>6. Meant(q, a)
    BY <1>2, <1>3, <2>3, <2>4, <2>5 DEF Meant, Says
  <2>7. QED
    BY <1>1, <2>1, <2>3, <2>6 DEF Numbers
<1>5. Asks(q, a)
  BY DEF WithLimit
<1> HIDE DEF q, a
<1>6. QED
  BY <1>1, <1>4, <1>5, AsksKeeps

LEMMA WithDisclosureKeeps ==
  ASSUME IInv, NEW mode \in D!Modes, NEW k \in Keys, NEW t \in Values, NEW n \in Values,
         WithDisclosure(mode, k, t, n)
  PROVE  IInv'
<1> DEFINE a == [threshold |-> t, limit |-> n]
<1>1. /\ t \in Nat /\ n \in Nat
      /\ IsAsked(a) /\ a.threshold = t /\ a.limit = n
      /\ Says(t, a.threshold) /\ Says(n, a.limit)
  BY MarkerConstants DEF IsAsked, Says
<1>2. t \in Numbers /\ n \in Numbers
  BY <1>1 DEF Numbers
<1> HIDE DEF a
<1>3. CASE D!CanStamp(mode, k)
  <2> DEFINE q == D!Stamped(marker.params, mode, t, n, k)
  <2>1. q \in D!Params
    BY <1>1, <1>3, StampedShape
  <2>2. Meant(q, a)
    BY <1>1, <1>2, <1>3, StampedMeant
  <2>3. Asks(q, a)
    BY <1>3 DEF WithDisclosure, a
  <2> HIDE DEF q
  <2>4. QED
    BY <1>1, <1>2, <2>1, <2>2, <2>3, AsksKeeps
<1>4. CASE ~ D!CanStamp(mode, k)
  <2> DEFINE q == D!Cleared(marker.params)
  <2>1. q = [threshold |-> None, limit |-> None, mode |-> None, enc |-> None]
    BY DEF D!Cleared
  <2>2. q \in D!Params /\ q.threshold = None /\ q.limit = None /\ q.enc = None
    BY <2>1 DEF D!Params
  <2>3. Meant(q, a)
    BY <2>2 DEF Meant
  <2>4. Asks(q, a)
    BY <1>4 DEF WithDisclosure, a
  <2> HIDE DEF q
  <2>5. QED
    BY <1>1, <1>2, <2>2, <2>3, <2>4, AsksKeeps
<1>5. QED
  BY <1>3, <1>4

LEMMA WithEncryptedMetaKeeps ==
  ASSUME IInv, NEW mode \in D!Modes, NEW k \in MetaKeys, NEW t \in Values, NEW n \in Values,
         NEW l \in Values \cup {None},
         WithEncryptedMeta(mode, [key |-> k, threshold |-> t, limit |-> n], l)
  PROVE  IInv'
<1> DEFINE e == [key |-> k, threshold |-> t, limit |-> n]
           q == [threshold |-> None, limit |-> l, mode |-> mode, enc |-> e]
           a == [threshold |-> e.threshold, limit |-> IF mode = "FullConfidential" THEN e.limit ELSE l]
<1>1. t \in Nat /\ n \in Nat /\ l \in Numbers
  BY MarkerConstants DEF Numbers
<1>2. e.threshold = t /\ e.limit = n /\ e \in D!Encryptions
  BY <1>1 DEF D!Encryptions
<1>3. /\ q \in D!Params /\ q.threshold = None /\ q.limit = l /\ q.enc = e /\ q.mode = mode
  BY <1>1, <1>2 DEF D!Params, Numbers
<1>4. D!DisclosureMode(q) = mode
  BY <1>3, MarkerConstants DEF D!DisclosureMode
<1>5. /\ IsAsked(a) /\ a.threshold = t
      /\ a.limit = IF mode = "FullConfidential" THEN n ELSE l
  BY <1>2 DEF IsAsked
<1>6. Asks(q, a)
  BY DEF WithEncryptedMeta
<1> HIDE DEF e, q, a
<1>7. Coherent(q) => Meant(q, a)
  BY <1>2, <1>3, <1>4, <1>5 DEF Coherent, Meant, Says
<1>8. a.threshold \in Numbers /\ a.limit \in Numbers
  BY <1>1, <1>5 DEF Numbers
<1>9. QED
  BY <1>3, <1>5, <1>6, <1>7, <1>8, AsksKeeps

LEMMA TryBuildKeeps == ASSUME IInv, TryBuild PROVE IInv'
<1>1. built' = TRUE /\ UNCHANGED <<family, marker, signed, asked, since>>
  BY DEF TryBuild
<1>2. /\ ShapeInv' /\ AskedInv' /\ SignedInv' /\ SigInv'
  BY <1>1 DEF IInv, ShapeInv, TypeOK, AskedInv, SignedInv, SigInv
<1>3. SinceInv'
  BY <1>1, KeysStay DEF IInv, SinceInv
<1>4. QED
  BY <1>2, <1>3 DEF IInv

\* An attribute of the marker is written.
LEMMA SetKeeps ==
  ASSUME IInv, NEW g \in Groups \cup {None}, NEW r \in Registries \cup {None}, NEW s,
         s # None => \E d \in signed : s = d.sig,
         marker' = [params |-> marker.params, group |-> g, participants |-> r, sig |-> s],
         since' = None, UNCHANGED <<family, built, signed, asked>>
  PROVE  IInv'
<1>1. /\ marker'.params = marker.params /\ marker'.group = g
      /\ marker'.participants = r /\ marker'.sig = s /\ IsMarker(marker)'
  BY DEF IsMarker
<1>2. ShapeInv'
  BY <1>1 DEF IInv, ShapeInv, TypeOK
<1>3. AskedInv' /\ SignedInv' /\ SigInv' /\ SinceInv'
  BY <1>1 DEF IInv, AskedInv, SignedInv, SigInv, SinceInv
<1>4. QED
  BY <1>2, <1>3 DEF IInv

LEMMA SettersKeep ==
  ASSUME IInv,
         \/ \E g \in Groups : SetGroupPublicKey(g)
         \/ \E r \in Registries : SetParticipants(r)
         \/ \E d \in signed : TakeSignature(d)
  PROVE  IInv'
<1>1. /\ IsMarker(marker) /\ marker.group \in Groups \cup {None}
      /\ marker.participants \in Registries \cup {None}
      /\ marker.sig # None => \E d \in signed : marker.sig = d.sig
  BY DEF IInv, ShapeInv, TypeOK, SigInv
<1>2. ASSUME NEW g \in Groups, SetGroupPublicKey(g) PROVE IInv'
  <2>1. marker' = [params |-> marker.params, group |-> g,
                   participants |-> marker.participants, sig |-> marker.sig]
    BY <1>1, <1>2 DEF SetGroupPublicKey, IsMarker
  <2>2. since' = None /\ UNCHANGED <<family, built, signed, asked>>
    BY <1>2 DEF SetGroupPublicKey
  <2>3. QED
    BY <1>1, <2>1, <2>2, SetKeeps
<1>3. ASSUME NEW r \in Registries, SetParticipants(r) PROVE IInv'
  <2>1. marker' = [params |-> marker.params, group |-> marker.group,
                   participants |-> r, sig |-> marker.sig]
    BY <1>1, <1>3 DEF SetParticipants, IsMarker
  <2>2. since' = None /\ UNCHANGED <<family, built, signed, asked>>
    BY <1>3 DEF SetParticipants
  <2>3. QED
    BY <1>1, <2>1, <2>2, SetKeeps
<1>4. ASSUME NEW d \in signed, TakeSignature(d) PROVE IInv'
  <2>1. marker' = [params |-> marker.params, group |-> marker.group,
                   participants |-> marker.participants, sig |-> d.sig]
    BY <1>1, <1>4 DEF TakeSignature, IsMarker
  <2>2. since' = None /\ UNCHANGED <<family, built, signed, asked>>
    BY <1>4 DEF TakeSignature
  <2>3. QED
    BY <1>1, <2>1, <2>2, SetKeeps
<1>5. QED
  BY <1>2, <1>3, <1>4

\* The tuple that is signed has the attributes as they are.
LEMMA CanonicalIs ==
  ASSUME NEW mk, CanonicalMarkerBytes(mk) # None,
         mk.group \in Groups \cup {None}, mk.participants \in Registries \cup {None},
         mk.params \in D!Params
  PROVE  /\ CanonicalMarkerBytes(mk) = Attested(mk)
         /\ Attested(mk) \in Bundles
         /\ mk.participants \notin Oversized
<1> DEFINE b == [group |-> mk.group, participants |-> MarkerParticipants(mk),
                 threshold |-> MarkerNumber(mk.params.threshold),
                 limit |-> MarkerNumber(mk.params.limit)]
<1>1. CanonicalMarkerBytes(mk) = b /\ None \notin {b.group, b.participants, b.threshold, b.limit}
  BY DEF CanonicalMarkerBytes
<1>2. /\ mk.group # None /\ MarkerParticipants(mk) # None
      /\ MarkerNumber(mk.params.threshold) # None /\ MarkerNumber(mk.params.limit) # None
  BY <1>1
<1>3. MarkerParticipants(mk) = mk.participants /\ mk.participants \notin Oversized
        /\ mk.participants \in Registries
  BY <1>2 DEF MarkerParticipants
<1>4. /\ MarkerNumber(mk.params.threshold) = mk.params.threshold
      /\ MarkerNumber(mk.params.limit) = mk.params.limit
      /\ mk.params.threshold # None /\ mk.params.threshold < Width
      /\ mk.params.limit # None /\ mk.params.limit < Width
  BY <1>2 DEF MarkerNumber
<1>5. mk.params.threshold \in 0..Width - 1 /\ mk.params.limit \in 0..Width - 1
  <2>1. mk.params.threshold \in Nat /\ mk.params.limit \in Nat /\ Width \in Nat
    BY <1>4, MarkerConstants DEF D!Params
  <2>2. QED
    BY <1>4, <2>1
<1>6. b = Attested(mk)
  BY <1>3, <1>4 DEF Attested
<1>7. Attested(mk) \in Bundles
  BY <1>2, <1>3, <1>5 DEF Attested, Bundles
<1>8. QED
  BY <1>1, <1>3, <1>6, <1>7

\* The forms of a controller's key.
LEMMA ControllerForms ==
  ASSUME ShapeInv, NEW c \in Controllers
  PROVE  /\ family \in SigningFamilies /\ c \in Origins
         /\ ControllerKey(c) = Multikey(family, "Priv", c, FALSE)
         /\ Multikey(family, "Pub", c, FALSE) # None
         /\ PublicKeyOf(ControllerKey(c)) = Multikey(family, "Pub", c, FALSE)
         /\ \A k \in FormsOf(c) :
              /\ k.family = family /\ k.role \in {"Priv", "Pub"} /\ k.origin = c
              /\ k.role = "Priv" /\ ~ k.locked => k = ControllerKey(c)
<1>1. family \in SigningFamilies /\ c \in Origins
  BY MarkerConstants DEF ShapeInv, TypeOK
<1>2. ControllerKey(c) = Multikey(family, "Priv", c, FALSE)
  BY DEF ControllerKey
<1>3. PublicKeyOf(ControllerKey(c)) = Multikey(family, "Pub", c, FALSE)
  BY <1>1, <1>2, PublicForms
<1>4. Multikey(family, "Pub", c, FALSE) \in Multikeys
  BY <1>1 DEF Multikey, Multikeys, Families, Roles
<1>5. Multikey(family, "Pub", c, FALSE) # None
  BY <1>4, MarkerConstants
<1>6. ASSUME NEW k \in FormsOf(c)
      PROVE  /\ k.family = family /\ k.role \in {"Priv", "Pub"} /\ k.origin = c
             /\ k.role = "Priv" /\ ~ k.locked => k = ControllerKey(c)
  <2> DEFINE key == ControllerKey(c)
  <2>1. CASE k = key
    BY <1>2, <2>1 DEF Multikey
  <2>2. CASE k = [key EXCEPT !.locked = TRUE]
    BY <1>2, <2>2 DEF Multikey
  <2>3. CASE k = PublicKeyOf(key)
    BY <1>3, <2>3 DEF Multikey
  <2>4. QED
    BY <1>6, <2>1, <2>2, <2>3 DEF FormsOf
<1>7. QED
  BY <1>1, <1>2, <1>3, <1>5, <1>6

LEMMA SignKeeps ==
  ASSUME IInv, NEW c \in Controllers, NEW scheme, NEW k \in FormsOf(c), SignMarker(k, scheme)
  PROVE  IInv'
<1> DEFINE b    == CanonicalMarkerBytes(marker)
           call == Cardinality(signed) + 1
           s    == SignWith(k, b, FALSE, call, scheme)
           d    == [by |-> k.origin, says |-> Attested(marker), sig |-> s]
<1>1. /\ built /\ b # None /\ s # None
      /\ marker' = [marker EXCEPT !.sig = s]
      /\ signed' = signed \cup {d}
      /\ since' = (IF Coherent(marker.params) THEN [by |-> k.origin, bundle |-> b] ELSE None)
      /\ UNCHANGED <<family, built, asked>>
  BY DEF SignMarker
<1>2. b = Attested(marker) /\ b \in Bundles /\ b # None /\ marker.participants \notin Oversized
  BY <1>1, CanonicalIs DEF IInv, ShapeInv, TypeOK
<1>3. b \in Messages
  BY <1>2, MarkerConstants
<1>4. /\ family \in SigningFamilies /\ c \in Origins
      /\ k.family = family /\ k.role \in {"Priv", "Pub"} /\ k.origin = c
      /\ k.role = "Priv" /\ ~ k.locked => k = Multikey(family, "Priv", c, FALSE)
      /\ Multikey(family, "Pub", c, FALSE) # None
      /\ VerifyingKeys(c) = {Multikey(family, "Priv", c, FALSE), Multikey(family, "Pub", c, FALSE)}
  BY ControllerForms DEF IInv, VerifyingKeys
<1>5. MadeBy(s, k.origin, b)
  BY <1>1, <1>4, SignMakes
<1>6. k = Multikey(family, "Priv", c, FALSE)
  BY <1>1, <1>4, SignShape
<1>7. \A k2 \in VerifyingKeys(c) : VerifiesWith(k2, s, b)
  <2> DEFINE priv == Multikey(family, "Priv", c, FALSE)
             pub  == Multikey(family, "Pub", c, FALSE)
  <2>1. s = SignWith(priv, b, FALSE, call, scheme) /\ s # None
    BY <1>1, <1>6
  <2> HIDE DEF s, b, call
  <2>2. \A k2 \in {priv, pub} : VerifiesWith(k2, SignWith(priv, b, FALSE, call, scheme), b)
    BY <1>3, <1>4, <2>1, SignVerifies
  <2> HIDE DEF priv, pub
  <2>3. VerifyingKeys(c) = {priv, pub}
    BY <1>4 DEF priv, pub
  <2>4. QED
    BY ONLY <2>1, <2>2, <2>3
<1>8. /\ marker'.params = marker.params /\ marker'.group = marker.group
      /\ marker'.participants = marker.participants /\ marker'.sig = s /\ IsMarker(marker)'
  <2>1. IsMarker(marker) /\ marker' = [marker EXCEPT !.sig = s]
    BY <1>1 DEF IInv, ShapeInv
  <2>2. QED
    BY ONLY <2>1 DEF IsMarker
<1>9. d.by = c /\ d.says = b /\ d.sig = s
  BY <1>2, <1>4
<1>10. /\ Attested(marker).group = marker.group
       /\ Attested(marker).participants = marker.participants
       /\ Attested(marker).threshold = marker.params.threshold
       /\ Attested(marker).limit = marker.params.limit
  BY DEF Attested
<1> HIDE DEF b, s, d
<1>11. ShapeInv'
  BY <1>1, <1>8 DEF IInv, ShapeInv, TypeOK
<1>12. AskedInv'
  BY <1>1, <1>8 DEF IInv, AskedInv
<1>13. SignedInv'
  BY <1>1, <1>4, <1>5, <1>9 DEF IInv, SignedInv
<1>14. SigInv'
  BY <1>1, <1>8, <1>9 DEF SigInv
<1>15. SinceInv'
  <2> SUFFICES ASSUME since' # None PROVE SinceInv'
    BY DEF SinceInv
  <2>1. Coherent(marker.params) /\ since' = [by |-> k.origin, bundle |-> b]
    BY <1>1
  <2>2. since'.by = c /\ since'.bundle = b
    BY <1>4, <2>1
  <2>3. b.threshold \in 0..Width - 1 /\ b.limit \in 0..Width - 1
    BY <1>2 DEF Bundles
  <2>4. b.threshold # None /\ b.limit # None
    BY <2>3, MarkerConstants
  <2>5. D!DisclosureMode(marker.params) = "Full"
    BY <1>2, <1>10, <2>1, <2>4 DEF Coherent
  <2>6. Kept(marker.params, b.threshold, b.limit)
    BY <1>2, <1>10, <2>5 DEF Kept
  <2>7. \A k2 \in (VerifyingKeys(c))' : VerifiesWith(k2, s, b)
    BY <1>1, <1>7, KeysStay
  <2>8. QED
    BY <1>1, <1>2, <1>8, <1>10, <2>2, <2>6, <2>7 DEF SinceInv
<1>16. QED
  BY <1>11, <1>12, <1>13, <1>14, <1>15 DEF IInv

LEMMA ToDisclosureKeeps ==
  ASSUME IInv, NEW mode \in D!Modes, NEW new \in Keys, NEW current \in Keys,
         ToDisclosure(mode, new, current)
  PROVE  IInv'
<1> DEFINE p == marker.params
           t == D!ReadThreshold(p)
           n == D!ReadLimit(p)
           q == D!Stamped(p, mode, t, n, new)
<1>1. /\ built /\ D!ReadWith(p, current) /\ D!CanStamp(mode, new)
      /\ marker' = [marker EXCEPT !.params = q]
      /\ UNCHANGED <<family, built, signed, asked, since>>
  BY DEF ToDisclosure, D!CanConvert, D!Converted
<1>2. p \in D!Params /\ D!DisclosureMode(p) \in D!Modes
  BY DEF IInv, ShapeInv, TypeOK, D!Params, D!DisclosureMode, D!Modes
<1>3. t \in Nat /\ n \in Nat
  BY <1>1, <1>2, ReadNumbers
<1>4. q \in D!Params
  BY <1>1, <1>3, StampedShape
<1>5. /\ marker'.params = q /\ marker'.group = marker.group
      /\ marker'.participants = marker.participants /\ marker'.sig = marker.sig
      /\ IsMarker(marker)'
  BY <1>1 DEF IInv, ShapeInv, IsMarker
<1>6. ASSUME asked # None PROVE Meant(q, asked) /\ Coherent(q)
  <2>1. Meant(p, asked) /\ asked.threshold \in Numbers /\ asked.limit \in Numbers
    BY <1>6 DEF IInv, AskedInv, ShapeInv, TypeOK, Numbers
  <2>2. Says(t, asked.threshold) /\ Says(n, asked.limit)
    BY <1>1, <1>2, <2>1, ReadMeant
  <2>3. QED
    BY <1>1, <1>3, <2>1, <2>2, StampedMeant
<1>7. ASSUME since # None
      PROVE  Kept(q, since.bundle.threshold, since.bundle.limit)
  <2>1. Kept(p, since.bundle.threshold, since.bundle.limit) /\ since.bundle \in Bundles
    BY <1>7 DEF IInv, SinceInv
  <2>2. t = since.bundle.threshold /\ n = since.bundle.limit
    BY <1>2, <2>1, ReadKept
  <2>3. t \in 0..Width - 1 /\ n \in 0..Width - 1
    BY <2>1, <2>2 DEF Bundles
  <2>4. QED
    BY <1>1, <2>2, <2>3, StampedKept
<1> HIDE DEF p, t, n, q
<1>8. ShapeInv'
  BY <1>1, <1>4, <1>5 DEF IInv, ShapeInv, TypeOK
<1>9. AskedInv'
  BY <1>1, <1>5, <1>6 DEF AskedInv
<1>10. SignedInv' /\ SigInv'
  BY <1>1, <1>5 DEF IInv, SignedInv, SigInv
<1>11. SinceInv'
  BY <1>1, <1>5, <1>7, KeysStay DEF IInv, SinceInv
<1>12. QED
  BY <1>8, <1>9, <1>10, <1>11 DEF IInv

LEMMA NextInv == ASSUME IInv, [Next]_vars PROVE IInv'
<1>1. CASE Building
  <2>1. ASSUME NEW v \in Values, WithThreshold(v) \/ WithLimit(v) PROVE IInv'
    BY <2>1, WithThresholdKeeps, WithLimitKeeps
  <2>2. ASSUME NEW mode \in D!Modes, NEW k \in Keys, NEW t \in Values, NEW n \in Values,
               WithDisclosure(mode, k, t, n)
        PROVE  IInv'
    BY <2>2, WithDisclosureKeeps
  <2>3. ASSUME NEW mode \in D!Modes, NEW k \in MetaKeys, NEW t \in Values, NEW n \in Values,
               NEW l \in Values \cup {None},
               WithEncryptedMeta(mode, [key |-> k, threshold |-> t, limit |-> n], l)
        PROVE  IInv'
    BY <2>3, WithEncryptedMetaKeeps
  <2>4. QED
    BY <1>1, <2>1, <2>2, <2>3, TryBuildKeeps DEF Building
<1>2. CASE Marking
  <2>1. ASSUME NEW c \in Controllers, NEW scheme \in SchemesAsked, NEW k \in FormsOf(c),
               SignMarker(k, scheme)
        PROVE  IInv'
    BY <2>1, SignKeeps
  <2>2. ASSUME NEW mode \in D!Modes, NEW new \in Keys, NEW current \in Keys,
               ToDisclosure(mode, new, current)
        PROVE  IInv'
    BY <2>2, ToDisclosureKeeps
  <2>3. QED
    BY <1>2, <2>1, <2>2, SettersKeep DEF Marking
<1>3. CASE UNCHANGED vars
  <2>1. UNCHANGED <<family, built, marker, signed, asked, since>>
    BY <1>3 DEF vars
  <2>2. ShapeInv' /\ AskedInv' /\ SignedInv' /\ SigInv'
    BY <2>1 DEF IInv, ShapeInv, TypeOK, AskedInv, SignedInv, SigInv
  <2>3. SinceInv'
    BY <2>1, KeysStay DEF IInv, SinceInv
  <2>4. QED
    BY <2>2, <2>3 DEF IInv
<1>4. QED
  BY <1>1, <1>2, <1>3 DEF Next

\* The inductive invariant holds of every behaviour.
THEOREM Inductive == Spec => []IInv
BY InitInv, NextInv, PTL DEF Spec

\* The attributes, and the numbers asked for, are of their types.
THEOREM TypeCorrect == Spec => []TypeOK
<1>1. IInv => TypeOK
  BY DEF IInv, ShapeInv
<1>2. QED
  BY <1>1, Inductive, PTL

\* A marker that verifies with a controller's key says what that controller
\* signed: the signature is one that sign_marker made, and begins with a half
\* that is both of its maker and of its bundle, and of the key and the bundle
\* that verify_marker checks.
THEOREM OnlySignedVerifies == Spec => []MarkerAuthentic
<1>1. ASSUME IInv, NEW c \in Controllers, NEW k \in FormsOf(c), VerifyMarker(marker, k)
      PROVE  \E d \in signed : d.by = c /\ d.says = Attested(marker)
  <2> DEFINE b == CanonicalMarkerBytes(marker)
  <2>1. marker.sig # None /\ b # None /\ VerifiesWith(k, marker.sig, b)
    BY <1>1 DEF VerifyMarker
  <2>2. b = Attested(marker)
    BY <1>1, <2>1, CanonicalIs DEF IInv, ShapeInv, TypeOK
  <2>3. PICK d \in signed : marker.sig = d.sig
    BY <1>1, <2>1 DEF IInv, SigInv
  <2>4. MadeBy(marker.sig, d.by, d.says)
    BY <1>1, <2>3 DEF IInv, SignedInv
  <2>5. /\ family \in SigningFamilies
        /\ k.family = family /\ k.role \in {"Priv", "Pub"} /\ k.origin = c
    BY <1>1, ControllerForms DEF IInv
  <2>6. MadeBy(marker.sig, c, b)
    BY <2>1, <2>5, VerifyBinds
  <2>7. QED
    BY <2>2, <2>4, <2>6 DEF MadeBy
<1>2. IInv => MarkerAuthentic
  BY <1>1 DEF MarkerAuthentic
<1>3. QED
  BY <1>2, Inductive, PTL

\* Conversions of the disclosure mode neither break a marker nor make one
\* verify while it hides what was signed.
THEOREM ConversionsKeepMarker == Spec => []ConvertedMarkerHolds
<1>1. ASSUME IInv, since # None, NEW k \in VerifyingKeys(since.by)
      PROVE  VerifyMarker(marker, k) <=> D!DisclosureMode(marker.params) = "Full"
  <2> DEFINE w == since.bundle
  <2>1. /\ w \in Bundles
        /\ marker.group = w.group /\ marker.participants = w.participants
        /\ marker.participants \notin Oversized
        /\ Kept(marker.params, w.threshold, w.limit)
        /\ marker.sig # None /\ VerifiesWith(k, marker.sig, w)
    BY <1>1 DEF IInv, SinceInv
  <2>2. /\ w = [group |-> w.group, participants |-> w.participants,
                threshold |-> w.threshold, limit |-> w.limit]
        /\ w.group \in Groups /\ w.participants \in Registries
        /\ w.threshold \in 0..Width - 1 /\ w.limit \in 0..Width - 1
    BY <2>1 DEF Bundles
  <2>3. /\ w.group # None /\ w.participants # None
        /\ w.threshold # None /\ w.threshold < Width
        /\ w.limit # None /\ w.limit < Width
    BY <2>2, MarkerConstants
  <2> HIDE DEF w
  <2>4. CASE D!DisclosureMode(marker.params) = "Full"
    <3>1. marker.params.threshold = w.threshold /\ marker.params.limit = w.limit
      BY <2>1, <2>4 DEF Kept
    <3>2. /\ MarkerParticipants(marker) = w.participants
          /\ MarkerNumber(marker.params.threshold) = w.threshold
          /\ MarkerNumber(marker.params.limit) = w.limit
      BY <2>1, <2>3, <3>1 DEF MarkerParticipants, MarkerNumber
    <3>3. CanonicalMarkerBytes(marker) = w
      BY <2>1, <2>2, <2>3, <3>2 DEF CanonicalMarkerBytes
    <3>4. w # None
      <4>1. w \in Messages
        BY <2>1, MarkerConstants
      <4>2. QED
        BY <4>1, FormConstants
    <3>5. QED
      BY <2>1, <2>4, <3>3, <3>4 DEF VerifyMarker
  <2>5. CASE D!DisclosureMode(marker.params) # "Full"
    <3>1. MarkerNumber(marker.params.threshold) = None
      BY <2>1, <2>5 DEF Kept, MarkerNumber
    <3>2. CanonicalMarkerBytes(marker) = None
      BY <3>1 DEF CanonicalMarkerBytes
    <3>3. QED
      BY <2>5, <3>2 DEF VerifyMarker
  <2>6. QED
    BY <2>4, <2>5
<1>2. ASSUME IInv, since # None
      PROVE  {ControllerKey(since.by), PublicKeyOf(ControllerKey(since.by))} = VerifyingKeys(since.by)
  <2>1. since.by \in Controllers
    BY <1>2 DEF IInv, SinceInv
  <2>2. PublicKeyOf(ControllerKey(since.by)) = Multikey(family, "Pub", since.by, FALSE)
    BY <1>2, <2>1, ControllerForms DEF IInv
  <2>3. QED
    BY <2>2 DEF VerifyingKeys
<1>3. IInv => ConvertedMarkerHolds
  BY <1>1, <1>2 DEF ConvertedMarkerHolds
<1>4. QED
  BY <1>3, Inductive, PTL

\* All readers, in the open and with a meta key, read the numbers last asked
\* for, or what the cast to u16 leaves of them.
THEOREM OneStatement == Spec => []ReadersReadLastAsked
<1>1. ASSUME IInv, asked # None PROVE ReadersReadLastAsked
  <2>1. /\ marker.params \in D!Params
        /\ Meant(marker.params, asked)
    BY <1>1 DEF IInv, ShapeInv, TypeOK, AskedInv
  <2>2. \A k \in Keys : D!ReadWith(marker.params, k) =>
          /\ Says(D!ReadThreshold(marker.params), asked.threshold)
          /\ Says(D!ReadLimit(marker.params), asked.limit)
    BY <2>1, ReadMeant
  <2>3. ASSUME NEW codec \in AllCodecs, ThresholdParams(codec, marker) # None
        PROVE  /\ Says(ThresholdParams(codec, marker).threshold, asked.threshold)
               /\ Says(ThresholdParams(codec, marker).limit, asked.limit)
    <3> DEFINE t == MarkerNumber(marker.params.threshold)
               n == MarkerNumber(marker.params.limit)
    <3>1. t # None /\ n # None /\ ThresholdParams(codec, marker) = [threshold |-> t, limit |-> n]
      BY <2>3 DEF ThresholdParams
    <3>2. /\ t = marker.params.threshold /\ marker.params.threshold # None
          /\ n = marker.params.limit /\ marker.params.limit # None
      BY <3>1 DEF MarkerNumber
    <3>3. Says(t, asked.threshold) /\ Says(n, asked.limit)
      BY <2>1, <3>2 DEF Meant
    <3> HIDE DEF t, n
    <3>4. QED
      BY <3>1, <3>3
  <2>4. QED
    BY <2>2, <2>3 DEF ReadersReadLastAsked
<1>2. IInv => ReadersReadLastAsked
  BY <1>1 DEF ReadersReadLastAsked
<1>3. QED
  BY <1>2, Inductive, PTL
=============================================================================
