------------------------------- MODULE Dispatch -------------------------------
(***************************************************************************)
(* Which view answers for which codec: the functions of                    *)
(* src/src/views/dispatch.rs, one operator each.  A view is named for the  *)
(* module that implements it.  Every feature of the crate is on.           *)
(***************************************************************************)
EXTENDS Codecs

\* Multikeys as the dispatcher sees them: the codec, and the cipher and KDF
\* codecs they state, which may be bytes that are no codec.
Malformed == Codec("Malformed", "Param")

Views == {"XEdDsa", "Disclosure"} \cup {c.family : c \in AllCodecs}

\* The families of the arms for Lamport, Merkle-Lamport and XMSS keys.
HashBasedCodecs ==
  Pairs({"Lamport", "LamportMerkle", "Xmss"}) \cup [family : OneTime, role : {"PrivShare"}]

BlsCodecs == [family : {"Bls"}, role : Roles]

\* The families of the remaining arms for attributes and data.
KeyPairCodecs == Pairs(Families \ {"Lamport", "Bls"}) \cup BlsCodecs

\* What a function returns: a view, or an error with the codec it names.
View(v)         == [view |-> v, error |-> None, codec |-> None]
Fails(error, c) == [view |-> None, error |-> error, codec |-> c]

\* The arm of the codec's own module, if it is in the table, or the error.
Arm(table, c, error) == IF c \in table THEN View(c.family) ELSE Fails(error, c)

DispatchAttr(k) ==
  Arm(KeyPairCodecs \cup HashBasedCodecs \cup {Codec("Chacha20", "Param")}, k.codec, "Attributes")

DispatchData(k) ==
  Arm(KeyPairCodecs \cup HashBasedCodecs \cup {Codec("Chacha20", "Param")}, k.codec, "Conversions")

\* The codec that a key states, or else its own.
Stated(attribute, k) == IF attribute # None THEN attribute ELSE k.codec

DispatchCipherAttr(k) ==
  IF k.cipher = Malformed THEN Fails("Codec", None)
  ELSE Arm({Codec("Chacha20", "Param")}, Stated(k.cipher, k), "Cipher")

DispatchKdfAttr(k) ==
  IF k.kdf = Malformed THEN Fails("Codec", None)
  ELSE Arm({Codec("Bcrypt", "Param")}, Stated(k.kdf, k), "Kdf")

DispatchThresholdAttr(k) == Arm(BlsCodecs \cup {DkgShare}, k.codec, "Conversions")

DispatchThresholdKey(k) == Arm({DkgShare}, k.codec, "Conversions")

\* The second key decides.
DispatchCipher(k, cipher) == Arm({Codec("Chacha20", "Param")}, cipher.codec, "Cipher")
DispatchKdf(k, kdf)       == Arm({Codec("Bcrypt", "Param")}, kdf.codec, "Kdf")

DispatchConv(k) == Arm(KeyPairCodecs \cup HashBasedCodecs, k.codec, "Conversions")

DispatchFingerprint(k) ==
  Arm(KeyPairCodecs \cup HashBasedCodecs \cup {Codec("Chacha20", "Param")}, k.codec, "Conversions")

\* The families with a sign view of their own.
SignCodecs ==
  Pairs(SigningFamilies \ {"X25519", "Lamport", "Bls"}) \cup BlsCodecs \cup HashBasedCodecs

DispatchSign(k) ==
  IF k.codec.family = "X25519" THEN View("XEdDsa") ELSE Arm(SignCodecs, k.codec, "Conversions")

DispatchVerify(k) ==
  IF k.codec.family = "X25519" THEN View("XEdDsa") ELSE Arm(SignCodecs, k.codec, "Conversions")

\* The error names no codec.
DispatchSeal(k) ==
  IF k.codec \in Pairs(SealingFamilies) THEN View(k.codec.family) ELSE Fails("NotEncryptionKey", None)

DispatchOpen(k) ==
  IF k.codec \in Pairs(SealingFamilies) THEN View(k.codec.family) ELSE Fails("NotEncryptionKey", None)

DispatchThreshold(k) ==
  Arm({Codec("Bls", "Priv")} \cup {c \in HashBasedCodecs : c.family \in OneTime},
      k.codec, "Conversions")

\* The disclosure view is for keys of every codec.
DispatchDisclosure(k) == View("Disclosure")

DispatchMerkleState(k) == Arm(Pairs({"LamportMerkle"}), k.codec, "Conversions")
=============================================================================
