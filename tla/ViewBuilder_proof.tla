--------------------------- MODULE ViewBuilder_proof ---------------------------
(***************************************************************************)
(* Proofs about ViewBuilder, for every set of keys, of codecs that         *)
(* factories are registered for, and of factories.                         *)
(***************************************************************************)
EXTENDS ViewBuilder, TLAPS

\* What the dispatcher answers a builder of a kind, the error after which a
\* factory is asked, and the codec that one is looked up by.
AnswerTo(v) ==
  CASE v.kind = "Attr"          -> DispatchAttr(v.key)
    [] v.kind = "CipherAttr"    -> DispatchCipherAttr(v.key)
    [] v.kind = "Data"          -> DispatchData(v.key)
    [] v.kind = "KdfAttr"       -> DispatchKdfAttr(v.key)
    [] v.kind = "ThresholdAttr" -> DispatchThresholdAttr(v.key)
    [] v.kind = "ThresholdKey"  -> DispatchThresholdKey(v.key)
    [] v.kind = "Conv"          -> DispatchConv(v.key)
    [] v.kind = "Fingerprint"   -> DispatchFingerprint(v.key)
    [] v.kind = "Sign"          -> DispatchSign(v.key)
    [] v.kind = "Verify"        -> DispatchVerify(v.key)
    [] v.kind = "Seal"          -> DispatchSeal(v.key)
    [] v.kind = "Open"          -> DispatchOpen(v.key)
    [] v.kind = "Cipher"        -> DispatchCipher(v.key, v.second)
    [] v.kind = "Kdf"           -> DispatchKdf(v.key, v.second)
    [] v.kind = "Threshold"     -> DispatchThreshold(v.key)
    [] v.kind = "Disclosure"    -> DispatchDisclosure(v.key)
    [] OTHER                    -> DispatchMerkleState(v.key)

Serves(v)  == AnswerTo(v).view # None

\* A key that states a malformed cipher or KDF fails before any lookup.
Broken(v) ==
  \/ v.kind = "CipherAttr" /\ v.key.cipher = Malformed
  \/ v.kind = "KdfAttr" /\ v.key.kdf = Malformed

\* A malformed codec is none that a factory can be registered for.
LEMMA MalformedIsNoCodec == Malformed \notin AllCodecs
BY DEF Malformed, AllCodecs, Pairs, Codec, Roles, Parameters, DkgShare, CustomKey

LEMMA MalformedIsSome == Malformed # None
BY BuilderConstants

\* Every table of the dispatcher is of codecs the crate knows.
LEMMA TablesKnown ==
  /\ KeyPairCodecs \cup HashBasedCodecs \cup {Codec("Chacha20", "Param")} \subseteq AllCodecs
  /\ KeyPairCodecs \cup HashBasedCodecs \subseteq AllCodecs
  /\ SignCodecs \subseteq AllCodecs
  /\ BlsCodecs \cup {DkgShare} \subseteq AllCodecs /\ {DkgShare} \subseteq AllCodecs
  /\ {Codec("Chacha20", "Param")} \subseteq AllCodecs /\ {Codec("Bcrypt", "Param")} \subseteq AllCodecs
  /\ {Codec("Bls", "Priv")} \cup {c \in HashBasedCodecs : c.family \in OneTime} \subseteq AllCodecs
  /\ Pairs({"LamportMerkle"}) \subseteq AllCodecs
<1> USE DEF AllCodecs, Pairs, OneTime, Codec, Roles
<1>1. BlsCodecs \subseteq AllCodecs
  BY DEF BlsCodecs
<1>2. HashBasedCodecs \subseteq AllCodecs
  BY DEF HashBasedCodecs, Families, SigningFamilies, StatefulFamilies
<1>3. KeyPairCodecs \subseteq AllCodecs
  BY <1>1 DEF KeyPairCodecs
<1>4. SignCodecs \subseteq AllCodecs
  BY <1>1, <1>2 DEF SignCodecs, Families
<1>5. /\ Codec("Chacha20", "Param") \in AllCodecs /\ Codec("Bcrypt", "Param") \in AllCodecs
      /\ DkgShare \in AllCodecs
  BY DEF Parameters
<1>6. Codec("Bls", "Priv") \in AllCodecs
  OBVIOUS
<1>7. Pairs({"LamportMerkle"}) \subseteq AllCodecs
  BY DEF StatefulFamilies
<1>8. QED
  BY <1>1, <1>2, <1>3, <1>4, <1>5, <1>6, <1>7

\* The arms of such a table fail with the error of the function and the codec.
LEMMA ArmShape ==
  ASSUME NEW table, table \subseteq AllCodecs, NEW c, NEW error,
         Arm(table, c, error).view = None
  PROVE  Arm(table, c, error).error = error /\ Arm(table, c, error).codec = c
<1>1. \A d \in AllCodecs : d.family # None
  BY BuilderConstants DEF Views
<1>2. c \notin table
  BY <1>1 DEF Arm, View
<1>3. QED
  BY <1>2 DEF Arm, Fails

\* The families that seal have a view of their name.
LEMMA SealingViewsKnown ==
  \A c \in Pairs(SealingFamilies) : c.family # None
<1>1. Pairs(SealingFamilies) \subseteq AllCodecs
  BY DEF AllCodecs, Pairs, Families
<1>2. QED
  BY <1>1, BuilderConstants DEF Views

\* The shape of build: the built-in view; or else the factory of the codec that
\* the documentation names; or else an error.
Shape(b) ==
  /\ Serves(b) => BuildView(b) = Built(AnswerTo(b).view)
  /\ ~ Serves(b) /\ ~ Broken(b) /\ LookedUp(b) \in DOMAIN b.local =>
       BuildView(b) = MadeBy(b.local[LookedUp(b)])
  /\ ~ Serves(b) /\ (Broken(b) \/ LookedUp(b) \notin DOMAIN b.local) =>
       BuildView(b) = Failed(AnswerTo(b).error)

LEMMA NamedShape ==
  ASSUME NEW b, NEW table, table \subseteq AllCodecs, NEW error,
         AnswerTo(b) = Arm(table, LookedUp(b), error),
         BuildView(b) = AnsweredNamed(AnswerTo(b), error, b),
         ~ Broken(b)
  PROVE  Shape(b)
<1>1. AnswerTo(b).view = None => AnswerTo(b).error = error /\ AnswerTo(b).codec = LookedUp(b)
  BY ArmShape
<1>2. QED
  BY <1>1 DEF Shape, Serves, AnsweredNamed, Answered

LEMMA BuildShape ==
  ASSUME NEW b, b.kind \in Kinds
  PROVE  Shape(b)
<1>1. CASE b.kind = "Attr"
  <2>1. AnswerTo(b) = Arm(KeyPairCodecs \cup HashBasedCodecs \cup {Codec("Chacha20", "Param")}, LookedUp(b), "Attributes")
    BY <1>1 DEF AnswerTo, DispatchAttr, LookedUp, SecondKeyKinds
  <2>2. BuildView(b) = AnsweredNamed(AnswerTo(b), "Attributes", b) /\ ~ Broken(b)
    BY <1>1 DEF AnswerTo, BuildView, BuildAttr, Broken
  <2>3. QED
    BY <2>1, <2>2, NamedShape, TablesKnown
<1>2. CASE b.kind = "CipherAttr"
  <2>1. CASE b.key.cipher = Malformed
    <3>1. AnswerTo(b) = Fails("Codec", None) /\ Broken(b)
      BY <1>2, <2>1 DEF AnswerTo, DispatchCipherAttr, Broken
    <3>2. BuildView(b) = AnsweredNamed(AnswerTo(b), "Cipher", b)
      BY <1>2 DEF AnswerTo, BuildView, BuildCipherAttr
    <3>3. QED
      BY <3>1, <3>2 DEF Shape, Serves, AnsweredNamed, Answered, Fails
  <2>2. CASE b.key.cipher # Malformed
    <3>1. AnswerTo(b) = Arm({Codec("Chacha20", "Param")}, LookedUp(b), "Cipher")
      BY <1>2, <2>2 DEF AnswerTo, DispatchCipherAttr, LookedUp, SecondKeyKinds
    <3>2. BuildView(b) = AnsweredNamed(AnswerTo(b), "Cipher", b)
      BY <1>2 DEF AnswerTo, BuildView, BuildCipherAttr
    <3>3. ~ Broken(b)
      BY <1>2, <2>2 DEF Broken
    <3>4. QED
      BY <3>1, <3>2, <3>3, NamedShape, TablesKnown
  <2>3. QED
    BY <2>1, <2>2
<1>3. CASE b.kind = "Data"
  <2>1. AnswerTo(b) = Arm(KeyPairCodecs \cup HashBasedCodecs \cup {Codec("Chacha20", "Param")}, LookedUp(b), "Conversions")
    BY <1>3 DEF AnswerTo, DispatchData, LookedUp, SecondKeyKinds
  <2>2. BuildView(b) = AnsweredNamed(AnswerTo(b), "Conversions", b) /\ ~ Broken(b)
    BY <1>3 DEF AnswerTo, BuildView, BuildData, Broken
  <2>3. QED
    BY <2>1, <2>2, NamedShape, TablesKnown
<1>4. CASE b.kind = "KdfAttr"
  <2>1. CASE b.key.kdf = Malformed
    <3>1. AnswerTo(b) = Fails("Codec", None) /\ Broken(b)
      BY <1>4, <2>1 DEF AnswerTo, DispatchKdfAttr, Broken
    <3>2. BuildView(b) = AnsweredNamed(AnswerTo(b), "Kdf", b)
      BY <1>4 DEF AnswerTo, BuildView, BuildKdfAttr
    <3>3. QED
      BY <3>1, <3>2 DEF Shape, Serves, AnsweredNamed, Answered, Fails
  <2>2. CASE b.key.kdf # Malformed
    <3>1. AnswerTo(b) = Arm({Codec("Bcrypt", "Param")}, LookedUp(b), "Kdf")
      BY <1>4, <2>2 DEF AnswerTo, DispatchKdfAttr, LookedUp, SecondKeyKinds
    <3>2. BuildView(b) = AnsweredNamed(AnswerTo(b), "Kdf", b)
      BY <1>4 DEF AnswerTo, BuildView, BuildKdfAttr
    <3>3. ~ Broken(b)
      BY <1>4, <2>2 DEF Broken
    <3>4. QED
      BY <3>1, <3>2, <3>3, NamedShape, TablesKnown
  <2>3. QED
    BY <2>1, <2>2
<1>5. CASE b.kind = "ThresholdAttr"
  <2>1. AnswerTo(b) = Arm(BlsCodecs \cup {DkgShare}, LookedUp(b), "Conversions")
    BY <1>5 DEF AnswerTo, DispatchThresholdAttr, LookedUp, SecondKeyKinds
  <2>2. BuildView(b) = AnsweredNamed(AnswerTo(b), "Conversions", b) /\ ~ Broken(b)
    BY <1>5 DEF AnswerTo, BuildView, BuildThresholdAttr, Broken
  <2>3. QED
    BY <2>1, <2>2, NamedShape, TablesKnown
<1>6. CASE b.kind = "ThresholdKey"
  <2>1. AnswerTo(b) = Arm({DkgShare}, LookedUp(b), "Conversions")
    BY <1>6 DEF AnswerTo, DispatchThresholdKey, LookedUp, SecondKeyKinds
  <2>2. BuildView(b) = AnsweredNamed(AnswerTo(b), "Conversions", b) /\ ~ Broken(b)
    BY <1>6 DEF AnswerTo, BuildView, BuildThresholdKey, Broken
  <2>3. QED
    BY <2>1, <2>2, NamedShape, TablesKnown
<1>7. CASE b.kind = "Conv"
  <2>1. AnswerTo(b) = Arm(KeyPairCodecs \cup HashBasedCodecs, LookedUp(b), "Conversions")
    BY <1>7 DEF AnswerTo, DispatchConv, LookedUp, SecondKeyKinds
  <2>2. BuildView(b) = AnsweredNamed(AnswerTo(b), "Conversions", b) /\ ~ Broken(b)
    BY <1>7 DEF AnswerTo, BuildView, BuildConv, Broken
  <2>3. QED
    BY <2>1, <2>2, NamedShape, TablesKnown
<1>8. CASE b.kind = "Fingerprint"
  <2>1. AnswerTo(b) = Arm(KeyPairCodecs \cup HashBasedCodecs \cup {Codec("Chacha20", "Param")}, LookedUp(b), "Conversions")
    BY <1>8 DEF AnswerTo, DispatchFingerprint, LookedUp, SecondKeyKinds
  <2>2. BuildView(b) = AnsweredNamed(AnswerTo(b), "Conversions", b) /\ ~ Broken(b)
    BY <1>8 DEF AnswerTo, BuildView, BuildFingerprint, Broken
  <2>3. QED
    BY <2>1, <2>2, NamedShape, TablesKnown
<1>9. CASE b.kind = "Sign"
  <2>1. CASE b.key.codec.family = "X25519"
    <3>1. AnswerTo(b).view = "XEdDsa"
      BY <1>9, <2>1 DEF AnswerTo, DispatchSign, View
    <3>2. BuildView(b) = AnsweredNamed(AnswerTo(b), "Conversions", b)
      BY <1>9 DEF AnswerTo, BuildView, BuildSign
    <3>3. None # "XEdDsa"
      BY BuilderConstants DEF Views
    <3>4. QED
      BY <3>1, <3>2, <3>3 DEF Shape, Serves, AnsweredNamed, Answered
  <2>2. CASE b.key.codec.family # "X25519"
    <3>1. AnswerTo(b) = Arm(SignCodecs, LookedUp(b), "Conversions")
      BY <1>9, <2>2 DEF AnswerTo, DispatchSign, LookedUp, SecondKeyKinds
    <3>2. BuildView(b) = AnsweredNamed(AnswerTo(b), "Conversions", b)
      BY <1>9 DEF AnswerTo, BuildView, BuildSign
    <3>3. ~ Broken(b)
      BY <1>9 DEF Broken
    <3>4. QED
      BY <3>1, <3>2, <3>3, NamedShape, TablesKnown
  <2>3. QED
    BY <2>1, <2>2
<1>10. CASE b.kind = "Verify"
  <2>1. CASE b.key.codec.family = "X25519"
    <3>1. AnswerTo(b).view = "XEdDsa"
      BY <1>10, <2>1 DEF AnswerTo, DispatchVerify, View
    <3>2. BuildView(b) = AnsweredNamed(AnswerTo(b), "Conversions", b)
      BY <1>10 DEF AnswerTo, BuildView, BuildVerify
    <3>3. None # "XEdDsa"
      BY BuilderConstants DEF Views
    <3>4. QED
      BY <3>1, <3>2, <3>3 DEF Shape, Serves, AnsweredNamed, Answered
  <2>2. CASE b.key.codec.family # "X25519"
    <3>1. AnswerTo(b) = Arm(SignCodecs, LookedUp(b), "Conversions")
      BY <1>10, <2>2 DEF AnswerTo, DispatchVerify, LookedUp, SecondKeyKinds
    <3>2. BuildView(b) = AnsweredNamed(AnswerTo(b), "Conversions", b)
      BY <1>10 DEF AnswerTo, BuildView, BuildVerify
    <3>3. ~ Broken(b)
      BY <1>10 DEF Broken
    <3>4. QED
      BY <3>1, <3>2, <3>3, NamedShape, TablesKnown
  <2>3. QED
    BY <2>1, <2>2
<1>11. CASE b.kind = "Seal"
  <2>1. /\ AnswerTo(b) = DispatchSeal(b.key) /\ LookedUp(b) = b.key.codec /\ ~ Broken(b)
        /\ BuildView(b) = Answered(DispatchSeal(b.key), "NotEncryptionKey", b.key.codec, b)
    BY <1>11 DEF AnswerTo, BuildView, BuildSeal, LookedUp, SecondKeyKinds, Broken
  <2>2. DispatchSeal(b.key).view = None => DispatchSeal(b.key).error = "NotEncryptionKey"
    BY SealingViewsKnown DEF DispatchSeal, View, Fails
  <2>3. QED
    BY <2>1, <2>2 DEF Shape, Serves, Answered
<1>12. CASE b.kind = "Open"
  <2>1. /\ AnswerTo(b) = DispatchOpen(b.key) /\ LookedUp(b) = b.key.codec /\ ~ Broken(b)
        /\ BuildView(b) = Answered(DispatchOpen(b.key), "NotEncryptionKey", b.key.codec, b)
    BY <1>12 DEF AnswerTo, BuildView, BuildOpen, LookedUp, SecondKeyKinds, Broken
  <2>2. DispatchOpen(b.key).view = None => DispatchOpen(b.key).error = "NotEncryptionKey"
    BY SealingViewsKnown DEF DispatchOpen, View, Fails
  <2>3. QED
    BY <2>1, <2>2 DEF Shape, Serves, Answered
<1>13. CASE b.kind = "Cipher"
  <2>1. AnswerTo(b) = Arm({Codec("Chacha20", "Param")}, LookedUp(b), "Cipher")
    BY <1>13 DEF AnswerTo, DispatchCipher, LookedUp, SecondKeyKinds
  <2>2. BuildView(b) = AnsweredNamed(AnswerTo(b), "Cipher", b) /\ ~ Broken(b)
    BY <1>13 DEF AnswerTo, BuildView, BuildCipher, Broken
  <2>3. QED
    BY <2>1, <2>2, NamedShape, TablesKnown
<1>14. CASE b.kind = "Kdf"
  <2>1. AnswerTo(b) = Arm({Codec("Bcrypt", "Param")}, LookedUp(b), "Kdf")
    BY <1>14 DEF AnswerTo, DispatchKdf, LookedUp, SecondKeyKinds
  <2>2. BuildView(b) = AnsweredNamed(AnswerTo(b), "Kdf", b) /\ ~ Broken(b)
    BY <1>14 DEF AnswerTo, BuildView, BuildKdf, Broken
  <2>3. QED
    BY <2>1, <2>2, NamedShape, TablesKnown
<1>15. CASE b.kind = "Threshold"
  <2>1. AnswerTo(b) = Arm({Codec("Bls", "Priv")} \cup {c \in HashBasedCodecs : c.family \in OneTime}, LookedUp(b), "Conversions")
    BY <1>15 DEF AnswerTo, DispatchThreshold, LookedUp, SecondKeyKinds
  <2>2. BuildView(b) = AnsweredNamed(AnswerTo(b), "Conversions", b) /\ ~ Broken(b)
    BY <1>15 DEF AnswerTo, BuildView, BuildThreshold, Broken
  <2>3. QED
    BY <2>1, <2>2, NamedShape, TablesKnown
<1>16. CASE b.kind = "Disclosure"
  <2>1. AnswerTo(b).view = "Disclosure" /\ BuildView(b) = Built(AnswerTo(b).view)
    BY <1>16 DEF AnswerTo, BuildView, BuildDisclosure, DispatchDisclosure, View
  <2>2. None # "Disclosure"
    BY BuilderConstants DEF Views
  <2>3. QED
    BY <2>1, <2>2 DEF Shape, Serves
<1>17. CASE b.kind = "MerkleState"
  <2>1. AnswerTo(b) = Arm(Pairs({"LamportMerkle"}), LookedUp(b), "Conversions")
    BY <1>17 DEF AnswerTo, DispatchMerkleState, LookedUp, SecondKeyKinds
  <2>2. BuildView(b) = AnsweredNamed(AnswerTo(b), "Conversions", b) /\ ~ Broken(b)
    BY <1>17 DEF AnswerTo, BuildView, BuildMerkleState, Broken
  <2>3. QED
    BY <2>1, <2>2, NamedShape, TablesKnown
<1>18. QED
  BY <1>1, <1>2, <1>3, <1>4, <1>5, <1>6, <1>7, <1>8, <1>9,
     <1>10, <1>11, <1>12, <1>13, <1>14, <1>15, <1>16, <1>17 DEF Kinds, SecondKeyKinds
-----------------------------------------------------------------------------
\* The table of the builder is the last registration of every codec.
TableIsHistory ==
  builder # None =>
    /\ view = None
    /\ \A c \in DOMAIN builder.local : IsLast(builder.local[c], c)
    /\ \A i \in 1..Len(registrations) : registrations[i].codec \in DOMAIN builder.local

IInv == TypeOK /\ TableIsHistory /\ LastFactoryServes /\ BuiltInWins

LEMMA InitInv == Init => IInv
<1> SUFFICES ASSUME Init PROVE IInv
  OBVIOUS
<1>1. TypeOK
  BY DEF Init, TypeOK
<1>2. QED
  BY <1>1 DEF Init, IInv, TableIsHistory, LastFactoryServes, BuiltInWins

\* Registration keeps the table what the history says.
LEMMA RegistrationIsLast ==
  ASSUME TypeOK, TableIsHistory, NEW c \in LocalCodecs, NEW f \in Factories, WithLocalCodec(c, f)
  PROVE  TypeOK' /\ TableIsHistory'
<1> DEFINE n == Len(registrations)
           r == [codec |-> c, factory |-> f]
<1>1. /\ registrations' = Append(registrations, r)
      /\ builder # None /\ builder \in Builders /\ registrations \in Seq(Registrations)
      /\ builder' = [builder EXCEPT !.local = Registered(builder.local, c, f)]
      /\ view' = view
  BY DEF WithLocalCodec, TypeOK
<1>2. r \in Registrations /\ registrations' \in Seq(Registrations)
  BY <1>1 DEF Registrations
<1>3. /\ n \in Nat /\ Len(registrations') = n + 1 /\ registrations'[n + 1] = r
      /\ \A i \in 1..n : registrations'[i] = registrations[i]
  BY <1>1, <1>2
<1>4. PICK S \in SUBSET LocalCodecs : builder.local \in [S -> Factories]
  BY <1>1 DEF Builders, Locals
<1>5. Registered(builder.local, c, f) \in [S \cup {c} -> Factories]
  BY <1>4 DEF Registered
<1>6. builder' \in Builders
  BY <1>1, <1>4, <1>5 DEF Builders, Locals
<1>7. builder'.local = Registered(builder.local, c, f)
  BY <1>1 DEF Builders
<1>8. TypeOK'
  BY <1>1, <1>2, <1>6 DEF TypeOK
<1>9. ASSUME NEW d \in DOMAIN builder'.local
      PROVE  IsLast(builder.local[d], d)'
  <2>1. CASE d = c
    <3>1. builder'.local[d] = f
      BY <1>5, <1>7, <2>1 DEF Registered
    <3>2. /\ n + 1 \in 1..Len(registrations')
          /\ registrations'[n + 1] = [codec |-> d, factory |-> builder'.local[d]]
          /\ \A j \in (n + 1) + 1..Len(registrations') : registrations'[j].codec # d
      BY <1>3, <2>1, <3>1
    <3>3. QED
      BY <3>2 DEF IsLast
  <2>2. CASE d # c
    <3>1. d \in DOMAIN builder.local /\ builder'.local[d] = builder.local[d]
      BY <1>4, <1>5, <1>7, <1>9, <2>2 DEF Registered
    <3>2. PICK i \in 1..n : /\ registrations[i] = [codec |-> d, factory |-> builder.local[d]]
                            /\ \A j \in i + 1..n : registrations[j].codec # d
      BY <1>1, <3>1 DEF TableIsHistory, IsLast
    <3>3. \A j \in i + 1..n + 1 : registrations'[j].codec # d
      <4> TAKE j \in i + 1..n + 1
      <4>1. CASE j = n + 1
        BY <1>3, <2>2, <4>1
      <4>2. CASE j # n + 1
        BY <1>3, <3>2, <4>2
      <4>3. QED
        BY <4>1, <4>2
    <3>4. /\ i \in 1..Len(registrations')
          /\ registrations'[i] = [codec |-> d, factory |-> builder'.local[d]]
          /\ \A j \in i + 1..Len(registrations') : registrations'[j].codec # d
      BY <1>3, <3>1, <3>2, <3>3
    <3>5. QED
      BY <3>4 DEF IsLast
  <2>3. QED
    BY <2>1, <2>2
<1>10. \A i \in 1..n + 1 : registrations'[i].codec \in DOMAIN builder'.local
  <2> TAKE i \in 1..n + 1
  <2>1. DOMAIN builder'.local = DOMAIN builder.local \cup {c}
    BY <1>4, <1>5, <1>7
  <2>2. CASE i = n + 1
    BY <1>3, <2>1, <2>2
  <2>3. CASE i # n + 1
    BY <1>1, <1>3, <2>1, <2>3 DEF TableIsHistory
  <2>4. QED
    BY <2>2, <2>3
<1>11. view' = None
  BY <1>1 DEF TableIsHistory
<1>12. QED
  BY <1>3, <1>8, <1>9, <1>10, <1>11 DEF TableIsHistory

\* The factory in what build returns is of the table, under the codec that the
\* documentation names; and an error means that the table has none.
LEMMA BuildFactory ==
  ASSUME NEW b \in Builders
  PROVE  /\ BuildView(b).factory \in Factories \cup {None}
         /\ BuildView(b).factory # None =>
              /\ LookedUp(b) \in DOMAIN b.local
              /\ BuildView(b).factory = b.local[LookedUp(b)]
         /\ LookedUp(b) \in DOMAIN b.local => BuildView(b).error = None
<1>1. b.kind \in Kinds /\ Shape(b)
  BY BuildShape DEF Builders
<1>2. PICK S \in SUBSET LocalCodecs : b.local \in [S -> Factories]
  BY DEF Builders, Locals
<1>3. Broken(b) => LookedUp(b) \notin DOMAIN b.local
  <2>1. Malformed # None
    BY MalformedIsSome
  <2>2. Broken(b) => LookedUp(b) = Malformed
    BY <2>1 DEF Broken, LookedUp, Stated, SecondKeyKinds
  <2>3. QED
    BY <1>2, <2>2, MalformedIsNoCodec, BuilderConstants
<1>4. CASE Serves(b)
  <2>1. BuildView(b) = Built(AnswerTo(b).view)
    BY <1>1, <1>4 DEF Shape
  <2>2. BuildView(b).factory = None /\ BuildView(b).error = None
    BY <2>1 DEF Built
  <2>3. QED
    BY <2>2
<1>5. CASE ~ Serves(b) /\ LookedUp(b) \in DOMAIN b.local
  <2>1. BuildView(b) = MadeBy(b.local[LookedUp(b)])
    BY <1>1, <1>3, <1>5 DEF Shape
  <2>2. BuildView(b).factory = b.local[LookedUp(b)] /\ BuildView(b).error = None
    BY <2>1 DEF MadeBy
  <2>3. QED
    BY <1>2, <1>5, <2>2
<1>6. CASE ~ Serves(b) /\ LookedUp(b) \notin DOMAIN b.local
  <2>1. BuildView(b) = Failed(AnswerTo(b).error)
    BY <1>1, <1>6 DEF Shape
  <2>2. BuildView(b).factory = None
    BY <2>1 DEF Failed
  <2>3. QED
    BY <1>6, <2>2
<1>7. QED
  BY <1>4, <1>5, <1>6

\* build serves the last factory and never one in the place of a built-in view.
LEMMA BuildKeeps ==
  ASSUME TypeOK, TableIsHistory, Build
  PROVE  TypeOK' /\ TableIsHistory' /\ LastFactoryServes' /\ BuiltInWins'
<1>1. /\ builder \in Builders /\ builder # None /\ registrations' = registrations
      /\ builder' = None
      /\ view' = [kind |-> builder.kind, key |-> builder.key, second |-> builder.second,
                  result |-> BuildView(builder)]
  BY DEF Build, TypeOK
<1>2. LookedUp(view') = LookedUp(builder)
  BY <1>1 DEF LookedUp
<1>3. TypeOK' /\ TableIsHistory'
  BY <1>1, BuildFactory DEF TypeOK, TableIsHistory, Builders
<1>4. LastFactoryServes'
  <2>1. \A f, c : IsLast(f, c)' <=> IsLast(f, c)
    BY <1>1 DEF IsLast
  <2>2. BuildView(builder).factory # None => IsLast(BuildView(builder).factory, LookedUp(builder))
    BY <1>1, BuildFactory DEF TableIsHistory
  <2>3. (\E f \in Factories : IsLast(f, LookedUp(builder))) => BuildView(builder).error = None
    <3>1. SUFFICES ASSUME NEW f \in Factories, IsLast(f, LookedUp(builder))
                   PROVE  BuildView(builder).error = None
      OBVIOUS
    <3>2. PICK i \in 1..Len(registrations) : registrations[i].codec = LookedUp(builder)
      BY <3>1 DEF IsLast
    <3>3. LookedUp(builder) \in DOMAIN builder.local
      BY <1>1, <3>2 DEF TableIsHistory
    <3>4. QED
      BY <1>1, <3>3, BuildFactory
  <2>4. QED
    BY <1>1, <1>2, <2>1, <2>2, <2>3 DEF LastFactoryServes
<1>5. BuiltInWins'
  <2> DEFINE bare == [kind |-> builder.kind, key |-> builder.key, second |-> builder.second,
                      local |-> NoFactories]
  <2>1. AnswerTo(bare) = AnswerTo(builder)
    BY DEF AnswerTo
  <2>2. /\ Shape(bare) /\ Shape(builder)
    BY <1>1, BuildShape DEF Builders
  <2>3. DOMAIN bare.local = {}
    BY DEF NoFactories
  <2>4. BuildView(bare).view # None => BuildView(builder) = BuildView(bare)
    <3>1. CASE Serves(bare)
      <4>1. BuildView(bare) = Built(AnswerTo(bare).view)
        BY <2>2, <3>1 DEF Shape
      <4>2. BuildView(builder) = Built(AnswerTo(builder).view)
        BY <2>1, <2>2, <3>1 DEF Shape, Serves
      <4>3. QED
        BY <2>1, <4>1, <4>2
    <3>2. CASE ~ Serves(bare)
      <4>1. BuildView(bare) = Failed(AnswerTo(bare).error)
        BY <2>2, <2>3, <3>2 DEF Shape
      <4>2. QED
        BY <4>1 DEF Failed
    <3>3. QED
      BY <3>1, <3>2
  <2>5. QED
    BY <1>1, <2>4 DEF BuiltInWins
<1>6. QED
  BY <1>3, <1>4, <1>5

LEMMA NextInv == IInv /\ [Next]_vars => IInv'
<1> SUFFICES ASSUME IInv, [Next]_vars PROVE IInv'
  OBVIOUS
<1> USE DEF IInv
<1>1. ASSUME NEW kind \in Kinds, NEW key \in Keys, NEW second \in Keys, Select(kind, key, second)
      PROVE  IInv'
  <2>1. view' = None /\ registrations' = <<>>
    BY <1>1 DEF Select
  <2>2. builder' \in Builders /\ builder'.local = NoFactories
    <3>1. NoFactories \in Locals
      BY DEF NoFactories, Locals
    <3>2. QED
      BY <1>1, <3>1 DEF Select, Builders
  <2>3. TypeOK'
    BY <2>1, <2>2 DEF TypeOK
  <2>4. Len(registrations') = 0 /\ DOMAIN builder'.local = {}
    BY <2>1, <2>2 DEF NoFactories
  <2>5. TableIsHistory'
    BY <2>1, <2>4 DEF TableIsHistory
  <2>6. QED
    BY <2>1, <2>3, <2>5 DEF LastFactoryServes, BuiltInWins
<1>2. ASSUME NEW c \in LocalCodecs, NEW f \in Factories, WithLocalCodec(c, f)
      PROVE  IInv'
  <2>1. TypeOK' /\ TableIsHistory'
    BY <1>2, RegistrationIsLast
  <2>2. view' = None
    BY <1>2 DEF WithLocalCodec, TableIsHistory
  <2>3. QED
    BY <2>1, <2>2 DEF LastFactoryServes, BuiltInWins
<1>3. CASE Build
  BY <1>3, BuildKeeps
<1>4. CASE Drop
  <2>1. builder' = None /\ registrations' = registrations /\ view' = None
    BY <1>4 DEF Drop
  <2>2. TypeOK'
    BY <2>1 DEF TypeOK
  <2>3. QED
    BY <2>1, <2>2 DEF TableIsHistory, LastFactoryServes, BuiltInWins
<1>5. CASE UNCHANGED vars
  <2>1. builder' = builder /\ registrations' = registrations /\ view' = view
    BY <1>5 DEF vars
  <2>2. TypeOK /\ TableIsHistory /\ LastFactoryServes /\ BuiltInWins
    OBVIOUS
  <2>3. IInv' <=> IInv
    BY ONLY <2>1 DEF IInv, TypeOK, TableIsHistory, LastFactoryServes, BuiltInWins, IsLast
  <2>4. QED
    BY <2>3
<1>6. QED
  BY <1>1, <1>2, <1>3, <1>4, <1>5 DEF Next

\* The builder's table is the last registration of every codec, and what build
\* serves from it is what LastFactoryServes and BuiltInWins ask.
THEOREM Inductive == Spec => []IInv
<1>1. QED
  BY InitInv, NextInv, PTL DEF Spec

\* The builder, its history and the last view's factory are of their types.
THEOREM TypeCorrect == Spec => []TypeOK
<1>1. IInv => TypeOK
  BY DEF IInv
<1>2. QED
  BY <1>1, Inductive, PTL

\* Every kind of view asks the factory registered last, under the codec that the
\* documentation names, wherever there is no built-in view; whatever codecs the
\* factories are registered for and in whatever order.
THEOREM FactoriesServe == Spec => []LastFactoryServes
<1>1. IInv => LastFactoryServes
  BY DEF IInv
<1>2. QED
  BY <1>1, Inductive, PTL

\* No registration takes the place of a built-in view, of any kind and codec.
THEOREM BuiltInViewsStay == Spec => []BuiltInWins
<1>1. IInv => BuiltInWins
  BY DEF IInv
<1>2. QED
  BY <1>1, Inductive, PTL
=============================================================================
