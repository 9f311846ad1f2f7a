------------------------------- MODULE KeySplit -------------------------------
(***************************************************************************)
(* Splitting a private key into shares and recombining it                  *)
(* (src/src/keysplit.rs).                                                  *)
(*                                                                         *)
(* Owners split keys, and keys that were recombined, as often as they      *)
(* like.  The shares lie in storage, where a copy may be damaged.  Anyone  *)
(* may recombine any of the shares there are.  Sharing itself is perfect:  *)
(* enough points of one polynomial give its secret, and any others give    *)
(* something that is nobody's key.                                         *)
(***************************************************************************)
EXTENDS Naturals, Sequences, FiniteSets

CONSTANTS
  Keys,             \* the Multikeys there are to begin with
  Secrets,          \* their key bytes
  Thresholds, Limits, \* what callers ask of split
  MaxSplits,        \* bound: calls of split
  MaxDamaged,       \* bound: damaged copies
  Garbage,          \* key bytes that no key has
  Nothing           \* combine has not returned anything yet

(***************************************************************************)
(* Codecs by sharing scheme: is_feldman_codec, less the two that           *)
(* build_payloads treats on their own, and all the rest.                   *)
(***************************************************************************)
FeldmanCodecs == {"Secp256K1Priv", "P256Priv", "P384Priv", "P521Priv",
                  "Bls12381G1Priv", "Bls12381G2Priv"}
DualCodecs    == {"Ed25519Priv", "X25519Priv"}
ByteCodecs    == {"RsaPriv", "PostQuantumPriv", "HybridPriv"}
Codecs        == FeldmanCodecs \cup DualCodecs \cup ByteCodecs

SchemeOf(codec) == IF codec \in FeldmanCodecs THEN "Feldman" ELSE "Gf256"

\* Of the codecs that are not Feldman's alone, those whose view does not read
\* KeyIsEncrypted.
UnawareCodecs == {"X25519Priv", "PostQuantumPriv", "HybridPriv"}

\* What a key's bytes are.  "Ciphertext" is that of a key of which no attribute
\* says any more that it is encrypted.
Forms == {"Secret", "Public", "Encrypted", "Ciphertext"}

Multikeys == [codec : Codecs, form : Forms, secret : Secrets \cup {Garbage}]

ASSUME SplitConstants ==
  /\ Keys \subseteq Multikeys
  /\ Garbage \notin Secrets
  /\ Thresholds \subseteq Nat /\ Limits \subseteq Nat
  /\ MaxSplits \in Nat /\ MaxDamaged \in Nat

VARIABLES
  splits,      \* history: the key, t and n of every split
  shares,      \* the shares in storage, damaged copies among them
  damaged,     \* the number of damaged copies
  result       \* what combine returned last, and from which shares

vars == <<splits, shares, damaged, result>>

-----------------------------------------------------------------------------
(***************************************************************************)
(* Shares.  The split a point or a commitment is of, and whether its bytes *)
(* are as they were made, are known to the model only.                     *)
(***************************************************************************)
Point(r, i)   == [of |-> r, at |-> i, intact |-> TRUE]
Commitment(r) == [of |-> r, intact |-> TRUE]
NoCommitment  == [of |-> 0, intact |-> FALSE]
NoPoint       == [of |-> 0, at |-> 0, intact |-> FALSE]

\* SharePayload, in a KeySplitShare Multikey: the sharing that combine uses,
\* with the commitments of its scheme, and the second one of a dual share.
Share(r, codec, t, n, i, verifiers, dual, dualVerifiers) ==
  [codec |-> codec, threshold |-> t, limit |-> n, scheme |-> SchemeOf(codec),
   value |-> Point(r, i), verifiers |-> verifiers,
   dual |-> dual, dualVerifiers |-> dualVerifiers]

\* Mutant of Dealt: a dual share has the seed's commitments missing on its
\* scalar share too.
DealtUncommitted(r, codec, t, n) ==
  {Share(r, codec, t, n, i,
         IF codec \in FeldmanCodecs THEN Commitment(r) ELSE NoCommitment,
         IF codec \in DualCodecs THEN Point(r, i) ELSE NoPoint,
         NoCommitment) : i \in 1..n}

\* build_payloads, with wrap_share.
Dealt(r, codec, t, n) ==
  {Share(r, codec, t, n, i,
         IF codec \in FeldmanCodecs THEN Commitment(r) ELSE NoCommitment,
         IF codec \in DualCodecs THEN Point(r, i) ELSE NoPoint,
         IF codec \in DualCodecs THEN Commitment(r) ELSE NoCommitment) : i \in 1..n}

\* secret_bytes hands out the key's bytes, whatever they are.
HandsOutBytes(k) ==
  /\ k.form # "Public"
  /\ k.form = "Encrypted" => k.codec \in UnawareCodecs

\* The bytes are a scalar or a seed where the scheme needs one: a ciphertext is
\* too long.
SchemeTakes(k) == k.codec \notin ByteCodecs => k.form = "Secret"

\* split succeeds.
CanSplit(k, t, n) ==
  /\ 2 <= t /\ t <= n /\ n <= 255
  /\ HandsOutBytes(k) /\ SchemeTakes(k)

\* ecc_verify: the point is on the polynomial that is committed to.
EccVerify(point, commitment) ==
  point.intact /\ commitment.intact /\ point.of = commitment.of

\* Mutant of Verified: Feldman shares are taken unverified.
VerifiedDualOnly(s) == s.dual # NoPoint => EccVerify(s.dual, s.dualVerifiers)

\* verify_share, and what combine asks of each share: a gf256 share has
\* nothing to verify but the scalar share beside it, if there is one.
Verified(s) ==
  IF s.scheme = "Feldman"
  THEN EccVerify(s.value, s.verifiers)
  ELSE s.dual # NoPoint => EccVerify(s.dual, s.dualVerifiers)

(***************************************************************************)
(* combine.                                                                *)
(***************************************************************************)
\* Interpolation is refused for fewer than two points and for two at one
\* place; the share count is not compared to the threshold.  Values of different
\* lengths are not refused here, and give nobody's key.
CanInterpolate(S) ==
  /\ \E s1, s2 \in S : s1 # s2
  /\ \A s1, s2 \in S : s1.value.at = s2.value.at => s1 = s2

\* The points are of one polynomial, whole, and enough.
OnePolynomial(S, r) ==
  /\ \A s \in S : s.value.of = r /\ s.value.intact
  /\ Cardinality(S) >= splits[r].threshold

\* combine succeeds: one codec and one scheme, and every share verified.
CanCombine(S) ==
  /\ \A s1, s2 \in S : s1.codec = s2.codec /\ s1.scheme = s2.scheme
  /\ \A s \in S : Verified(s)
  /\ CanInterpolate(S)

\* A key built of the codec and the bytes of k, and of nothing else.
Rebuilt(k) == [k EXCEPT !.form = IF @ = "Secret" THEN "Secret" ELSE "Ciphertext"]

\* The key that combine builds, with the codec of the first share.
Combined(S) ==
  LET first == CHOOSE s \in S : TRUE
  IN  IF OnePolynomial(S, first.value.of)
      THEN Rebuilt(splits[first.value.of].key)
      ELSE [codec |-> first.codec, form |-> "Secret", secret |-> Garbage]

-----------------------------------------------------------------------------
Init ==
  /\ splits = <<>>
  /\ shares = {}
  /\ damaged = 0
  /\ result = Nothing

\* split of a key that was there, or of the one that combine returned last.
Split(k, t, n) ==
  /\ Len(splits) < MaxSplits
  /\ CanSplit(k, t, n)
  /\ splits' = Append(splits, [key |-> k, threshold |-> t, limit |-> n])
  /\ shares' = shares \cup Dealt(Len(splits) + 1, k.codec, t, n)
  /\ UNCHANGED <<damaged, result>>

Broken(point) == [of |-> point.of, at |-> point.at, intact |-> FALSE]

\* Storage damages a copy of a share: its value, its scalar share, or either
\* set of commitments.
DamagedCopies(s) ==
  {[s EXCEPT !.value = Broken(s.value)],
   [s EXCEPT !.verifiers = NoCommitment],
   [s EXCEPT !.dual = Broken(s.dual)],
   [s EXCEPT !.dualVerifiers = NoCommitment]} \ {s}

Damage(s) ==
  /\ damaged < MaxDamaged
  /\ \E d \in DamagedCopies(s) : shares' = shares \cup {d}
  /\ damaged' = damaged + 1
  /\ UNCHANGED <<splits, result>>

Combine(S) ==
  /\ CanCombine(S)
  /\ result' = [from |-> S, key |-> Combined(S)]
  /\ UNCHANGED <<splits, shares, damaged>>

Next ==
  \/ \E k \in Keys, t \in Thresholds, n \in Limits : Split(k, t, n)
  \/ /\ result # Nothing
     /\ \E t \in Thresholds, n \in Limits : Split(result.key, t, n)
  \/ \E s \in shares : Damage(s)
  \/ \E S \in SUBSET shares : Combine(S)

Spec == Init /\ [][Next]_vars
-----------------------------------------------------------------------------
(***************************************************************************)
(* Properties.                                                             *)
(***************************************************************************)
Points      == [of : Nat, at : Nat, intact : BOOLEAN]
Commitments == [of : Nat, intact : BOOLEAN]

SharePayloads == [codec : Codecs, threshold : Nat, limit : Nat, scheme : {"Feldman", "Gf256"},
                  value : Points, verifiers : Commitments,
                  dual : Points, dualVerifiers : Commitments]

\* Type correctness.
TypeOK ==
  /\ splits \in Seq([key : Multikeys, threshold : Nat, limit : Nat])
  /\ shares \subseteq SharePayloads
  /\ damaged \in 0..MaxDamaged
  /\ result # Nothing => /\ result.from \subseteq shares
                         /\ result.key \in Multikeys

\* Enough undamaged shares of one split recombine to the bytes of its key,
\* whatever other splits there are of that key and others, and whichever shares
\* they are (split, build_payloads and combine).  A key that was open comes back
\* as it was; one that split took encrypted, as a bare ciphertext.
RecoversKey ==
  \A r \in DOMAIN splits :
    \A S \in SUBSET (shares \cap Dealt(r, splits[r].key.codec, splits[r].threshold, splits[r].limit)) :
      Cardinality(S) >= splits[r].threshold => CanCombine(S) /\ Combined(S) = Rebuilt(splits[r].key)

\* combine returns a key of the codec of all its shares, and a wrong key for
\* these reasons only: too few shares, shares of several splits, or a damaged
\* value that no commitment covers.  A damaged Feldman value is never a reason,
\* and only a key that was split encrypted comes back as a ciphertext.
WrongKeyHasCause ==
  result # Nothing =>
    \A s \in result.from :
      /\ result.key.codec = splits[s.value.of].key.codec
      /\ \/ result.key = Rebuilt(splits[s.value.of].key)
         \/ Cardinality(result.from) < s.threshold
         \/ \E o \in result.from : o.value.of # s.value.of
         \/ \E o \in result.from : o.scheme = "Gf256" /\ ~ o.value.intact

(***************************************************************************)
(* The inductive invariant.  Every split is one that CanSplit lets pass; a *)
(* share states of its split what split wrote, and its points and          *)
(* commitments are of that split or none; the last result is still what    *)
(* its shares combine to.                                                  *)
(***************************************************************************)
ShareOk(s) ==
  LET r == s.value.of
  IN  /\ r \in DOMAIN splits
      /\ s.codec = splits[r].key.codec
      /\ s.scheme = SchemeOf(s.codec)
      /\ s.threshold = splits[r].threshold
      /\ s.verifiers \in {Commitment(r), NoCommitment}

IInv ==
  /\ TypeOK
  /\ IsFiniteSet(shares)
  /\ \A r \in DOMAIN splits : CanSplit(splits[r].key, splits[r].threshold, splits[r].limit)
  /\ \A s \in shares : ShareOk(s)
  /\ result # Nothing => CanCombine(result.from) /\ result.key = Combined(result.from)
=============================================================================
