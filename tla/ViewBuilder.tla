------------------------------ MODULE ViewBuilder ------------------------------
(***************************************************************************)
(* The ViewBuilder of src/src/views/builder.rs: a caller selects the kind  *)
(* of view for a key, registers factories for codecs the crate does not    *)
(* know, and builds the view.                                              *)
(*                                                                         *)
(* A factory is a model value; what the view it makes does is the caller's *)
(* own.  A factory that fails is one more factory.                         *)
(***************************************************************************)
EXTENDS Dispatch, Naturals, Sequences

CONSTANTS
  Keys,             \* Multikeys: codec, and the cipher and KDF codecs they state
  LocalCodecs,      \* codecs that factories are registered for
  Factories,
  MaxRegistrations  \* bound: registrations on one builder

ASSUME BuilderConstants ==
  /\ Keys \subseteq [codec : AllCodecs, cipher : AllCodecs \cup {Malformed, None},
                     kdf : AllCodecs \cup {Malformed, None}]
  /\ LocalCodecs \subseteq AllCodecs
  /\ MaxRegistrations \in Nat
  /\ None \notin Factories \cup Views /\ None # Malformed

VARIABLES
  builder,        \* the builder in use, or None
  registrations,  \* what was registered on it, in order
  view            \* what the last build returned, of which builder, or None

vars == <<builder, registrations, view>>

\* The kinds that `second` is read for.
SecondKeyKinds == {"Cipher", "Kdf"}

Kinds == {"Attr", "CipherAttr", "Data", "KdfAttr", "ThresholdAttr", "ThresholdKey", "Conv",
          "Fingerprint", "Sign", "Verify", "Seal", "Open", "Threshold", "Disclosure",
          "MerkleState"} \cup SecondKeyKinds

\* The tables of factories, one type per kind: at most one factory a codec.
Locals == UNION {[S -> Factories] : S \in SUBSET LocalCodecs}

Builders == [kind : Kinds, key : Keys, second : Keys, local : Locals]

Registrations == [codec : LocalCodecs, factory : Factories]

Built(v)   == [view |-> v, factory |-> None, error |-> None]
MadeBy(f)  == [view |-> None, factory |-> f, error |-> None]
Failed(e)  == [view |-> None, factory |-> None, error |-> e]

\* Mutant of Answered: a factory of the key's codec goes before the built-in view.
AnsweredLocalFirst(answer, unsupported, codec, b) ==
  IF codec \in DOMAIN b.local THEN MadeBy(b.local[codec])
  ELSE IF answer.view # None THEN Built(answer.view) ELSE Failed(answer.error)

\* What every build does with the dispatcher's answer: an error that is the
\* kind's own for an unsupported codec asks the factory of `codec`.
Answered(answer, unsupported, codec, b) ==
  IF answer.view # None THEN Built(answer.view)
  ELSE IF answer.error = unsupported /\ codec \in DOMAIN b.local THEN MadeBy(b.local[codec])
  ELSE Failed(answer.error)

\* The codec that the error names.
AnsweredNamed(answer, unsupported, b) == Answered(answer, unsupported, answer.codec, b)

BuildAttr(b)          == AnsweredNamed(DispatchAttr(b.key), "Attributes", b)
BuildCipherAttr(b)    == AnsweredNamed(DispatchCipherAttr(b.key), "Cipher", b)
BuildData(b)          == AnsweredNamed(DispatchData(b.key), "Conversions", b)
BuildKdfAttr(b)       == AnsweredNamed(DispatchKdfAttr(b.key), "Kdf", b)
BuildThresholdAttr(b) == AnsweredNamed(DispatchThresholdAttr(b.key), "Conversions", b)
BuildThresholdKey(b)  == AnsweredNamed(DispatchThresholdKey(b.key), "Conversions", b)
BuildConv(b)          == AnsweredNamed(DispatchConv(b.key), "Conversions", b)
BuildFingerprint(b)   == AnsweredNamed(DispatchFingerprint(b.key), "Conversions", b)
BuildSign(b)          == AnsweredNamed(DispatchSign(b.key), "Conversions", b)
BuildVerify(b)        == AnsweredNamed(DispatchVerify(b.key), "Conversions", b)
BuildSeal(b)          == Answered(DispatchSeal(b.key), "NotEncryptionKey", b.key.codec, b)
BuildOpen(b)          == Answered(DispatchOpen(b.key), "NotEncryptionKey", b.key.codec, b)
BuildCipher(b)        == AnsweredNamed(DispatchCipher(b.key, b.second), "Cipher", b)
BuildKdf(b)           == AnsweredNamed(DispatchKdf(b.key, b.second), "Kdf", b)
BuildThreshold(b)     == AnsweredNamed(DispatchThreshold(b.key), "Conversions", b)
BuildDisclosure(b)    == Built(DispatchDisclosure(b.key).view)
BuildMerkleState(b)   == AnsweredNamed(DispatchMerkleState(b.key), "Conversions", b)

BuildView(b) ==
  CASE b.kind = "Attr"          -> BuildAttr(b)
    [] b.kind = "CipherAttr"    -> BuildCipherAttr(b)
    [] b.kind = "Data"          -> BuildData(b)
    [] b.kind = "KdfAttr"       -> BuildKdfAttr(b)
    [] b.kind = "ThresholdAttr" -> BuildThresholdAttr(b)
    [] b.kind = "ThresholdKey"  -> BuildThresholdKey(b)
    [] b.kind = "Conv"          -> BuildConv(b)
    [] b.kind = "Fingerprint"   -> BuildFingerprint(b)
    [] b.kind = "Sign"          -> BuildSign(b)
    [] b.kind = "Verify"        -> BuildVerify(b)
    [] b.kind = "Seal"          -> BuildSeal(b)
    [] b.kind = "Open"          -> BuildOpen(b)
    [] b.kind = "Cipher"        -> BuildCipher(b)
    [] b.kind = "Kdf"           -> BuildKdf(b)
    [] b.kind = "Threshold"     -> BuildThreshold(b)
    [] b.kind = "Disclosure"    -> BuildDisclosure(b)
    [] OTHER                    -> BuildMerkleState(b)
-----------------------------------------------------------------------------
NoFactories == [c \in {} |-> None]

Init == builder = None /\ registrations = <<>> /\ view = None

\* ViewBuilder::new and a kind selector: a table of factories of its own.
Select(kind, key, second) ==
  /\ builder = None /\ view = None
  /\ kind \notin SecondKeyKinds => second = key
  /\ builder' = [kind |-> kind, key |-> key, second |-> second, local |-> NoFactories]
  /\ registrations' = <<>>
  /\ UNCHANGED view

\* Mutant of Registered: the first factory of a codec stays.
RegisteredFirst(local, c, f) ==
  [d \in DOMAIN local \cup {c} |-> IF d \in DOMAIN local THEN local[d] ELSE f]

\* BTreeMap::insert.
Registered(local, c, f) ==
  [d \in DOMAIN local \cup {c} |-> IF d = c THEN f ELSE local[d]]

WithLocalCodec(c, f) ==
  /\ builder # None
  /\ Len(registrations) < MaxRegistrations
  /\ builder' = [builder EXCEPT !.local = Registered(builder.local, c, f)]
  /\ registrations' = Append(registrations, [codec |-> c, factory |-> f])
  /\ UNCHANGED view

\* build consumes the builder.
Build ==
  /\ builder # None
  /\ view' = [kind |-> builder.kind, key |-> builder.key, second |-> builder.second,
              result |-> BuildView(builder)]
  /\ builder' = None
  /\ UNCHANGED registrations

\* The view, or a builder that is not built, goes out of scope.
Drop == builder' = None /\ view' = None /\ UNCHANGED registrations

Next ==
  \/ \E kind \in Kinds, key, second \in Keys : Select(kind, key, second)
  \/ \E c \in LocalCodecs, f \in Factories : WithLocalCodec(c, f)
  \/ Build
  \/ Drop

Spec == Init /\ [][Next]_vars
-----------------------------------------------------------------------------
\* The builder, its history and the last view's factory are of their types.
TypeOK ==
  /\ builder \in Builders \cup {None}
  /\ registrations \in Seq(Registrations)
  /\ view # None => view.kind \in Kinds /\ view.result.factory \in Factories \cup {None}

\* The codec that the module's documentation says the factory of a kind is
\* looked up by: that of the second key for cipher and KDF, the stated one for
\* their attributes, the key's own for all others.
LookedUp(v) ==
  CASE v.kind = "CipherAttr"       -> Stated(v.key.cipher, v.key)
    [] v.kind = "KdfAttr"          -> Stated(v.key.kdf, v.key)
    [] v.kind \in SecondKeyKinds   -> v.second.codec
    [] OTHER                       -> v.key.codec

\* f is what the last registration of codec c says.
IsLast(f, c) ==
  \E i \in 1..Len(registrations) :
    /\ registrations[i] = [codec |-> c, factory |-> f]
    /\ \A j \in i + 1..Len(registrations) : registrations[j].codec # c

\* A key of a codec without a built-in view of the kind is given the view of
\* the factory registered last for the codec that the kind looks up, never of a
\* factory registered for another codec or replaced since; and where one is
\* registered build does not fail (builder.rs:625-1224, every `build`).  What
\* can go wrong: a build that waits for another error than its dispatch
\* function returns never asks a factory.
LastFactoryServes ==
  view # None =>
    /\ view.result.factory # None => IsLast(view.result.factory, LookedUp(view))
    /\ (\E f \in Factories : IsLast(f, LookedUp(view))) => view.result.error = None

\* No registration replaces a built-in view: what a builder with factories
\* serves for a key is what a builder without any serves, if that serves.
BuiltInWins ==
  view # None =>
    LET bare == [kind |-> view.kind, key |-> view.key, second |-> view.second,
                 local |-> NoFactories]
    IN BuildView(bare).view # None => view.result = BuildView(bare)
=============================================================================
