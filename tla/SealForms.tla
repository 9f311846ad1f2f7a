------------------------------- MODULE SealForms -------------------------------
(***************************************************************************)
(* What all the sealing views have in common: the AEAD layer and the       *)
(* frames of src/src/views/aead.rs, and the three shapes of a sealing      *)
(* scheme.  ECDH: the ephemeral public key travels beside the message.     *)
(* KEM: an encapsulation is inside.  Hybrid: both are inside.              *)
(*                                                                         *)
(* The primitives are perfect.  A shared secret stands for the two keys it *)
(* comes from; a call of seal makes its own ephemeral key and              *)
(* encapsulation, which have its number.                                   *)
(***************************************************************************)
EXTENDS KeyForms

\* The AEADs that aead.rs knows; key and nonce sizes follow from them.
AeadCodecs == {"AesGcm128", "AesGcm256", "Chacha20Poly1305", "Xchacha20Poly1305"}

\* HKDF under a label of the scheme.
DeriveAeadKey(shared, info) == [shared |-> shared, info |-> info]

\* Mutant of AeadSeal: the associated data is left out.
AeadSealNoAad(codec, key, text, aad) ==
  [codec |-> codec, key |-> key, text |-> text, aad |-> None]

\* A random nonce is stored next to the ciphertext.
AeadSeal(codec, key, text, aad) ==
  [codec |-> codec, key |-> key, text |-> text, aad |-> aad]

\* Mutant of AeadOpen: the tag is not checked, as with the bare stream cipher.
AeadOpenAnyway(codec, key, body, aad) == body.text

AeadOpen(codec, key, body, aad) ==
  IF body = AeadSeal(codec, key, body.text, aad) THEN body.text ELSE None

\* The three frames.  A hybrid's codec says which AEAD it is.
EncodeSealed(codec, body)         == [eph |-> None, kem |-> None, codec |-> codec, body |-> body]
EncodeKemSealed(kem, codec, body) == [eph |-> None, kem |-> kem, codec |-> codec, body |-> body]
EncodeHybridSealed(eph, kem, body) == [eph |-> eph, kem |-> kem, codec |-> None, body |-> body]

\* What seal returns: the sealed message, and the ephemeral public key.
SealResult(frame, eph) == [frame |-> frame, eph |-> eph]

\* Diffie-Hellman of two key pairs, by their origins.
Dh(a, b) == {a, b}

\* A ciphertext of the KEM, which stands for the secret it carries too, and
\* decapsulation, which with another's key returns another secret.
Encapsulate(p, call) == [to |-> p.origin, call |-> call]
Decapsulate(k, ct)   == [to |-> k.origin, call |-> ct.call]

\* seal and open of an ECDH scheme; `allowed` are the AEADs it takes.
EcdhSeal(a, k, allowed, info, text, aead, aad, call) ==
  IF a.public /\ aead \in allowed
  THEN SealResult(EncodeSealed(aead,
         AeadSeal(aead, DeriveAeadKey(Dh(k.origin, call), info), text, aad)), call)
  ELSE None

EcdhOpen(a, k, allowed, info, frame, eph, aad) ==
  IF Usable(a, k) /\ eph # None /\ frame.codec \in allowed
  THEN AeadOpen(frame.codec, DeriveAeadKey(Dh(k.origin, eph), info), frame.body, aad)
  ELSE None

\* seal and open of a KEM; the ephemeral argument of open is not looked at.
KemSeal(a, k, allowed, info, text, aead, aad, call) ==
  LET ct == Encapsulate(k, call)
  IN IF a.public /\ aead \in allowed
     THEN SealResult(EncodeKemSealed(ct, aead,
            AeadSeal(aead, DeriveAeadKey(ct, info), text, aad)), None)
     ELSE None

KemOpen(a, k, allowed, info, frame, aad) ==
  IF Usable(a, k) /\ frame.codec \in allowed
  THEN AeadOpen(frame.codec, DeriveAeadKey(Decapsulate(k, frame.kem), info), frame.body, aad)
  ELSE None

\* The one AEAD of the hybrids.
HybridAead == "Chacha20Poly1305"

\* combine_shared_secrets: a hash of both secrets and of both public values.
Combine(kemSecret, dhSecret, ct, eph) ==
  [kem |-> kemSecret, dh |-> dhSecret, ct |-> ct, eph |-> eph]

HybridSeal(a, k, info, text, aead, aad, call) ==
  LET ct     == Encapsulate(k, call)
      shared == Combine(ct, Dh(k.origin, call), ct, call)
  IN IF a.public /\ aead = HybridAead
     THEN SealResult(EncodeHybridSealed(call, ct,
            AeadSeal(aead, DeriveAeadKey(shared, info), text, aad)), None)
     ELSE None

\* Mutant of HybridOpen: the opener's own public value is hashed, not the sender's.
HybridOpenOwnKey(a, k, info, frame, aad) ==
  LET shared == Combine(Decapsulate(k, frame.kem), Dh(k.origin, frame.eph), frame.kem, k.origin)
  IN IF Usable(a, k)
     THEN AeadOpen(HybridAead, DeriveAeadKey(shared, info), frame.body, aad)
     ELSE None

HybridOpen(a, k, info, frame, aad) ==
  LET shared == Combine(Decapsulate(k, frame.kem), Dh(k.origin, frame.eph), frame.kem, frame.eph)
  IN IF Usable(a, k)
     THEN AeadOpen(HybridAead, DeriveAeadKey(shared, info), frame.body, aad)
     ELSE None
=============================================================================
