---------------------------- MODULE KeySplit_proof ----------------------------
(***************************************************************************)
(* Proofs about KeySplit: the inductive invariant, and that enough         *)
(* undamaged shares recombine while a wrong key has one of the causes that *)
(* are named, for any keys, thresholds, limits and damage.                 *)
(***************************************************************************)
EXTENDS KeySplit, FiniteSetTheorems, FunctionTheorems, TLAPS

SplitRecords == [key : Multikeys, threshold : Nat, limit : Nat]

\* A split that CanSplit lets pass is recorded with a type.
LEMMA SplitTyped ==
  ASSUME TypeOK, NEW r \in DOMAIN splits
  PROVE  /\ r \in 1..Len(splits) /\ r \in Nat
         /\ splits[r].key \in Multikeys /\ splits[r].key.codec \in Codecs
         /\ splits[r].threshold \in Nat /\ splits[r].limit \in Nat
<1>1. splits \in Seq(SplitRecords)
  BY DEF TypeOK, SplitRecords
<1>2. r \in 1..Len(splits) /\ splits[r] \in SplitRecords
  BY <1>1
<1>3. QED
  BY <1>2 DEF SplitRecords, Multikeys

\* A split that is appended leaves the earlier ones as they are.
LEMMA SplitAppended ==
  ASSUME TypeOK, NEW e \in SplitRecords, splits' = Append(splits, e)
  PROVE  /\ splits' \in Seq(SplitRecords)
         /\ DOMAIN splits' = DOMAIN splits \cup {Len(splits) + 1}
         /\ Len(splits) + 1 \notin DOMAIN splits
         /\ \A r \in DOMAIN splits : splits'[r] = splits[r]
         /\ splits'[Len(splits) + 1] = e
         /\ Len(splits) \in Nat
<1>1. splits \in Seq(SplitRecords)
  BY DEF TypeOK, SplitRecords
<1>2. QED
  BY <1>1

(***************************************************************************)
(* Shares as split makes them.                                             *)
(***************************************************************************)
\* A share as split makes it is told by the place of its point, in 1..n.
LEMMA DealtShape ==
  ASSUME NEW r \in Nat, NEW codec \in Codecs, NEW t \in Nat, NEW n \in Nat,
         NEW s \in Dealt(r, codec, t, n)
  PROVE  /\ s.value = Point(r, s.value.at) /\ s.value.at \in 1..n
         /\ s = Share(r, codec, t, n, s.value.at,
                      IF codec \in FeldmanCodecs THEN Commitment(r) ELSE NoCommitment,
                      IF codec \in DualCodecs THEN Point(r, s.value.at) ELSE NoPoint,
                      IF codec \in DualCodecs THEN Commitment(r) ELSE NoCommitment)
<1>1. PICK i \in 1..n :
        s = Share(r, codec, t, n, i,
                  IF codec \in FeldmanCodecs THEN Commitment(r) ELSE NoCommitment,
                  IF codec \in DualCodecs THEN Point(r, i) ELSE NoPoint,
                  IF codec \in DualCodecs THEN Commitment(r) ELSE NoCommitment)
  BY DEF Dealt
<1>2. s.value = Point(r, i) /\ s.value.at = i
  BY <1>1 DEF Share, Point
<1>3. QED
  BY <1>1, <1>2

\* Shares as split makes them are share payloads and state what split wrote.
LEMMA DealtTyped ==
  ASSUME NEW r \in Nat, NEW codec \in Codecs, NEW t \in Nat, NEW n \in Nat,
         NEW s \in Dealt(r, codec, t, n)
  PROVE  /\ s \in SharePayloads
         /\ s.codec = codec /\ s.scheme = SchemeOf(codec) /\ s.threshold = t
         /\ s.value.of = r /\ s.value.intact
         /\ s.verifiers \in {Commitment(r), NoCommitment}
<1> DEFINE i == s.value.at
<1>1. i \in Nat /\ s = Share(r, codec, t, n, i,
                             IF codec \in FeldmanCodecs THEN Commitment(r) ELSE NoCommitment,
                             IF codec \in DualCodecs THEN Point(r, i) ELSE NoPoint,
                             IF codec \in DualCodecs THEN Commitment(r) ELSE NoCommitment)
  BY DealtShape
<1> HIDE DEF i
<1>2. Point(r, i) \in Points /\ NoPoint \in Points
  BY <1>1 DEF Point, NoPoint, Points
<1>3. Commitment(r) \in Commitments /\ NoCommitment \in Commitments
  BY DEF Commitment, NoCommitment, Commitments
<1>4. SchemeOf(codec) \in {"Feldman", "Gf256"}
  BY DEF SchemeOf
<1>5. s \in SharePayloads
  BY <1>1, <1>2, <1>3, <1>4 DEF Share, SharePayloads
<1>6. s.value = Point(r, i)
  BY <1>1 DEF Share
<1>7. QED
  BY <1>1, <1>5, <1>6 DEF Share, Point

\* Shares as split makes them pass verify_share.
LEMMA DealtVerified ==
  ASSUME NEW r \in Nat, NEW codec \in Codecs, NEW t \in Nat, NEW n \in Nat,
         NEW s \in Dealt(r, codec, t, n)
  PROVE  Verified(s)
<1>1. /\ s.scheme = SchemeOf(codec) /\ s.value = Point(r, s.value.at)
      /\ s.verifiers = IF codec \in FeldmanCodecs THEN Commitment(r) ELSE NoCommitment
      /\ s.dual = IF codec \in DualCodecs THEN Point(r, s.value.at) ELSE NoPoint
      /\ s.dualVerifiers = IF codec \in DualCodecs THEN Commitment(r) ELSE NoCommitment
  BY DealtShape DEF Share
<1>2. CASE codec \in FeldmanCodecs
  BY <1>1, <1>2 DEF Verified, SchemeOf, EccVerify, Point, Commitment
<1>3. CASE codec \notin FeldmanCodecs /\ codec \in DualCodecs
  BY <1>1, <1>3 DEF Verified, SchemeOf, EccVerify, Point, Commitment
<1>4. CASE codec \notin FeldmanCodecs /\ codec \notin DualCodecs
  BY <1>1, <1>4 DEF Verified, SchemeOf
<1>5. QED
  BY <1>2, <1>3, <1>4

\* There are finitely many: the place of a point tells the share.
LEMMA DealtFinite ==
  ASSUME NEW r \in Nat, NEW codec \in Codecs, NEW t \in Nat, NEW n \in Nat
  PROVE  IsFiniteSet(Dealt(r, codec, t, n))
<1> DEFINE D == Dealt(r, codec, t, n)
           at == [s \in D |-> s.value.at]
<1>1. \A s \in D : s.value.at \in 1..n
  BY DealtShape
<1>2. \A s1, s2 \in D : s1.value.at = s2.value.at => s1 = s2
  BY DealtShape
<1> HIDE DEF D
<1>3. at \in Injection(D, 1..n)
  BY <1>1, <1>2 DEF Injection, IsInjective
<1>4. IsFiniteSet(1..n)
  BY FS_Interval
<1>5. QED
  BY <1>3, <1>4, FS_Injection DEF D

\* A damaged copy is of the same split and states the same of it.
LEMMA DamagedTyped ==
  ASSUME NEW s \in SharePayloads, NEW d \in DamagedCopies(s)
  PROVE  /\ d \in SharePayloads
         /\ d.codec = s.codec /\ d.scheme = s.scheme /\ d.threshold = s.threshold
         /\ d.value.of = s.value.of
         /\ d.verifiers \in {s.verifiers, NoCommitment}
<1>1. /\ NoCommitment \in Commitments
      /\ Broken(s.value) \in Points /\ Broken(s.value).of = s.value.of
      /\ Broken(s.dual) \in Points
  BY DEF NoCommitment, Commitments, Broken, Points, SharePayloads
<1>2. CASE d = [s EXCEPT !.value = Broken(s.value)]
  BY <1>1, <1>2 DEF SharePayloads
<1>3. CASE d = [s EXCEPT !.verifiers = NoCommitment]
  BY <1>1, <1>3 DEF SharePayloads
<1>4. CASE d = [s EXCEPT !.dual = Broken(s.dual)]
  BY <1>1, <1>4 DEF SharePayloads
<1>5. CASE d = [s EXCEPT !.dualVerifiers = NoCommitment]
  BY <1>1, <1>5 DEF SharePayloads
<1>6. QED
  BY <1>2, <1>3, <1>4, <1>5 DEF DamagedCopies

\* What is built of a Multikey's codec and bytes is a Multikey.
LEMMA RebuiltTyped ==
  ASSUME NEW k \in Multikeys
  PROVE  Rebuilt(k) \in Multikeys /\ Rebuilt(k).codec = k.codec
<1>1. k = [codec |-> k.codec, form |-> k.form, secret |-> k.secret]
  BY DEF Multikeys
<1>2. Rebuilt(k) = [codec  |-> k.codec,
                    form   |-> IF k.form = "Secret" THEN "Secret" ELSE "Ciphertext",
                    secret |-> k.secret]
  BY <1>1 DEF Rebuilt
<1>3. QED
  BY <1>2 DEF Multikeys, Forms

\* What CanCombine lets pass is not empty, and combines to a Multikey.
LEMMA CombinedTyped ==
  ASSUME TypeOK, \A s \in shares : ShareOk(s), NEW S \in SUBSET shares, CanCombine(S)
  PROVE  Combined(S) \in Multikeys
<1> DEFINE first == CHOOSE s \in S : TRUE
           key == splits[first.value.of].key
           nobodys == [codec |-> first.codec, form |-> "Secret", secret |-> Garbage]
<1>1. first \in S
  BY DEF CanCombine, CanInterpolate
<1>2. first \in SharePayloads /\ first.value.of \in DOMAIN splits
  BY <1>1 DEF TypeOK, ShareOk
<1>3. Rebuilt(key) \in Multikeys
  BY <1>2, SplitTyped, RebuiltTyped
<1>4. nobodys \in Multikeys
  BY <1>2 DEF SharePayloads, Multikeys, Forms
<1>5. Combined(S) = IF OnePolynomial(S, first.value.of) THEN Rebuilt(key) ELSE nobodys
  BY DEF Combined
<1> HIDE DEF key, nobodys, first
<1>6. QED
  BY <1>3, <1>4, <1>5

(***************************************************************************)
(* The inductive invariant.                                                *)
(***************************************************************************)
\* The invariant holds before the first split.
LEMMA InitInv == Init => IInv
<1> SUFFICES ASSUME Init PROVE IInv
  OBVIOUS
<1>1. splits \in Seq([key : Multikeys, threshold : Nat, limit : Nat])
  BY DEF Init
<1>2. TypeOK
  BY <1>1, SplitConstants DEF Init, TypeOK
<1>3. DOMAIN splits = {}
  BY DEF Init
<1>4. IsFiniteSet(shares)
  BY FS_EmptySet DEF Init
<1>5. QED
  BY <1>2, <1>3, <1>4 DEF Init, IInv

\* split keeps the invariant.
LEMMA SplitStep ==
  ASSUME IInv, NEW k \in Multikeys, NEW t \in Nat, NEW n \in Nat, Split(k, t, n)
  PROVE  IInv'
<1> DEFINE e == [key |-> k, threshold |-> t, limit |-> n]
           new == Len(splits) + 1
<1>1. TypeOK
  BY DEF IInv
<1>2. e \in SplitRecords /\ splits' = Append(splits, e) /\ k.codec \in Codecs
  BY DEF Split, SplitRecords, Multikeys
<1>3. /\ splits' \in Seq(SplitRecords)
      /\ DOMAIN splits' = DOMAIN splits \cup {new} /\ new \in Nat
      /\ \A r \in DOMAIN splits : splits'[r] = splits[r]
      /\ splits'[new] = e
  BY <1>1, <1>2, SplitAppended
<1>4. /\ shares' = shares \cup Dealt(new, k.codec, t, n)
      /\ damaged' = damaged /\ result' = result /\ CanSplit(k, t, n)
  BY DEF Split
<1> HIDE DEF e, new
<1>5. ASSUME NEW s \in Dealt(new, k.codec, t, n)
      PROVE  s \in SharePayloads /\ ShareOk(s)'
  <2>1. /\ s \in SharePayloads /\ s.value.of = new /\ s.codec = k.codec
        /\ s.scheme = SchemeOf(k.codec) /\ s.threshold = t
        /\ s.verifiers \in {Commitment(new), NoCommitment}
    <3>1. new \in Nat /\ k.codec \in Codecs
      BY <1>2, <1>3
    <3>2. QED
      BY <3>1, <1>5, DealtTyped
  <2>2. splits'[new].key = k /\ splits'[new].threshold = t
    BY <1>3 DEF e
  <2>3. QED
    BY <1>3, <2>1, <2>2 DEF ShareOk
<1>6. ASSUME NEW s \in shares PROVE ShareOk(s)'
  <2>1. ShareOk(s) /\ splits'[s.value.of] = splits[s.value.of]
    BY <1>3 DEF IInv, ShareOk
  <2>2. QED
    BY <1>3, <2>1 DEF ShareOk
<1>7. TypeOK'
  BY <1>1, <1>3, <1>4, <1>5 DEF TypeOK, SplitRecords
<1>8. ASSUME NEW r \in DOMAIN splits'
      PROVE  CanSplit(splits'[r].key, splits'[r].threshold, splits'[r].limit)
  <2>1. CASE r \in DOMAIN splits
    BY <1>3, <2>1 DEF IInv
  <2>2. CASE r = new
    BY <1>3, <1>4, <2>2 DEF e
  <2>3. QED
    BY <1>3, <2>1, <2>2
<1>9. ASSUME result # Nothing
      PROVE  CanCombine(result.from)' /\ result'.key = Combined(result.from)'
  <2>1. /\ \A s \in result.from : s.value.of \in DOMAIN splits
        /\ result.from # {}
    BY <1>9 DEF IInv, TypeOK, ShareOk, CanCombine, CanInterpolate
  <2>2. Combined(result.from)' = Combined(result.from)
    BY <1>3, <1>4, <2>1 DEF Combined, OnePolynomial
  <2>3. CanCombine(result.from)' <=> CanCombine(result.from)
    BY <1>4 DEF CanCombine
  <2>4. QED
    BY <1>4, <1>9, <2>2, <2>3 DEF IInv
<1>10. IsFiniteSet(shares')
  BY <1>2, <1>3, <1>4, DealtFinite, FS_Union DEF IInv
<1>11. QED
  BY <1>4, <1>5, <1>6, <1>7, <1>8, <1>9, <1>10 DEF IInv

\* A damaged copy keeps the invariant.
LEMMA DamageStep ==
  ASSUME IInv, NEW s \in shares, Damage(s)
  PROVE  IInv'
<1>1. PICK d \in DamagedCopies(s) : shares' = shares \cup {d}
  BY DEF Damage
<1>2. damaged' = damaged + 1 /\ damaged < MaxDamaged /\ splits' = splits /\ result' = result
  BY DEF Damage
<1>3. s \in SharePayloads /\ ShareOk(s)
  BY DEF IInv, TypeOK
<1>4. /\ d \in SharePayloads
      /\ d.codec = s.codec /\ d.scheme = s.scheme /\ d.threshold = s.threshold
      /\ d.value.of = s.value.of /\ d.verifiers \in {s.verifiers, NoCommitment}
  BY <1>3, DamagedTyped
<1>5. ShareOk(d)
  BY <1>3, <1>4 DEF ShareOk
<1>6. TypeOK'
  BY <1>1, <1>2, <1>4, SplitConstants DEF IInv, TypeOK
<1>7. \A o \in shares' : ShareOk(o)'
  BY <1>1, <1>2, <1>5 DEF IInv, ShareOk
<1>8. result # Nothing => CanCombine(result.from)' /\ result'.key = Combined(result.from)'
  <2>1. result # Nothing => CanCombine(result.from) /\ result.key = Combined(result.from)
    BY DEF IInv
  <2>2. CanCombine(result.from)' <=> CanCombine(result.from)
    BY ONLY <1>2 DEF CanCombine
  <2>3. Combined(result.from)' = Combined(result.from)
    BY ONLY <1>2 DEF Combined, OnePolynomial
  <2>4. QED
    BY ONLY <1>2, <2>1, <2>2, <2>3
<1>9. IsFiniteSet(shares')
  BY <1>1, FS_AddElement DEF IInv
<1>10. QED
  BY <1>2, <1>6, <1>7, <1>8, <1>9 DEF IInv

\* combine keeps the invariant.
LEMMA CombineStep ==
  ASSUME IInv, NEW S \in SUBSET shares, Combine(S)
  PROVE  IInv'
<1>1. /\ result' = [from |-> S, key |-> Combined(S)]
      /\ splits' = splits /\ shares' = shares /\ damaged' = damaged /\ CanCombine(S)
  BY DEF Combine
<1>2. result'.from = S /\ result'.key = Combined(S)
  BY <1>1
<1>3. Combined(S) \in Multikeys
  BY <1>1, CombinedTyped DEF IInv
<1>4. TypeOK'
  BY <1>1, <1>2, <1>3 DEF IInv, TypeOK
<1>5. \A s \in shares' : ShareOk(s)'
  BY <1>1 DEF IInv, ShareOk
<1>6. CanCombine(result.from)' /\ result'.key = Combined(result.from)'
  BY <1>1, <1>2 DEF CanCombine, Combined, OnePolynomial
<1>7. QED
  BY <1>1, <1>4, <1>5, <1>6 DEF IInv

\* Every step keeps the invariant.
LEMMA NextInv == IInv /\ [Next]_vars => IInv'
<1> SUFFICES ASSUME IInv, [Next]_vars PROVE IInv'
  OBVIOUS
<1>1. ASSUME NEW k \in Keys, NEW t \in Thresholds, NEW n \in Limits, Split(k, t, n) PROVE IInv'
  BY <1>1, SplitConstants, SplitStep
<1>2. ASSUME result # Nothing, NEW t \in Thresholds, NEW n \in Limits, Split(result.key, t, n)
      PROVE  IInv'
  BY <1>2, SplitConstants, SplitStep DEF IInv, TypeOK
<1>3. CASE UNCHANGED vars
  <2>1. splits' = splits /\ shares' = shares /\ damaged' = damaged /\ result' = result
    BY <1>3 DEF vars
  <2>2. TypeOK' <=> TypeOK
    BY ONLY <2>1 DEF TypeOK
  <2>3. CanCombine(result.from)' <=> CanCombine(result.from)
    BY ONLY <2>1 DEF CanCombine
  <2>4. Combined(result.from)' = Combined(result.from)
    BY ONLY <2>1 DEF Combined, OnePolynomial
  <2>5. (\A s \in shares : ShareOk(s))' <=> \A s \in shares : ShareOk(s)
    BY ONLY <2>1 DEF ShareOk
  <2>6. IInv' <=> IInv
    BY ONLY <2>1, <2>2, <2>3, <2>4, <2>5 DEF IInv
  <2>7. QED
    BY <2>6
<1>4. QED
  BY <1>1, <1>2, <1>3, DamageStep, CombineStep DEF Next

(***************************************************************************)
(* Theorems.                                                               *)
(***************************************************************************)
\* The inductive invariant holds in every behaviour.
THEOREM Inductive == Spec => []IInv
BY InitInv, NextInv, PTL DEF Spec

\* Type correctness.
THEOREM TypeCorrect == Spec => []TypeOK
<1>1. IInv => TypeOK
  BY DEF IInv
<1>2. QED
  BY <1>1, Inductive, PTL

\* Enough undamaged shares of one split always recombine to its key, rebuilt of
\* its codec and bytes.
THEOREM QuorumRecovers == Spec => []RecoversKey
<1>1. ASSUME IInv PROVE RecoversKey
  <2> SUFFICES ASSUME NEW r \in DOMAIN splits,
                      NEW S \in SUBSET (shares \cap Dealt(r, splits[r].key.codec,
                                                        splits[r].threshold, splits[r].limit)),
                      Cardinality(S) >= splits[r].threshold
               PROVE  CanCombine(S) /\ Combined(S) = Rebuilt(splits[r].key)
    BY DEF RecoversKey
  <2> DEFINE k == splits[r].key
             t == splits[r].threshold
             D == Dealt(r, k.codec, t, splits[r].limit)
             first == CHOOSE s \in S : TRUE
  <2>1. /\ r \in Nat /\ k \in Multikeys /\ k.codec \in Codecs
        /\ t \in Nat /\ splits[r].limit \in Nat
    BY <1>1, SplitTyped DEF IInv
  <2>2. 2 <= t
    BY <1>1 DEF IInv, CanSplit
  <2>3. ASSUME NEW s \in S
        PROVE  /\ s.codec = k.codec /\ s.scheme = SchemeOf(k.codec)
               /\ s.value.of = r /\ s.value.intact /\ Verified(s)
    BY <2>1, DealtTyped, DealtVerified
  <2>4. \A s1, s2 \in S : s1.value.at = s2.value.at => s1 = s2
    BY <2>1, DealtShape
  <2>5. IsFiniteSet(S) /\ Cardinality(S) \in Nat
    BY <1>1, FS_Subset, FS_CardinalityType DEF IInv
  <2>6. \E s1, s2 \in S : s1 # s2
    <3>1. Cardinality(S) # 0 /\ Cardinality(S) # 1
      BY <2>1, <2>2, <2>5
    <3>2. PICK s1 \in S : TRUE
      BY <2>5, <3>1, FS_EmptySet
    <3>3. S # {s1}
      BY <3>1, FS_Singleton
    <3>4. QED
      BY <3>2, <3>3
  <2>7. CanCombine(S)
    BY <2>3, <2>4, <2>6 DEF CanCombine, CanInterpolate
  <2>8. first \in S
    BY <2>6
  <2> HIDE DEF first
  <2>9. OnePolynomial(S, first.value.of) /\ first.value.of = r /\ first.codec = k.codec
    BY <2>3, <2>8 DEF OnePolynomial
  <2>10. Combined(S) = Rebuilt(k)
    BY <2>9 DEF Combined, first
  <2>11. QED
    BY <2>7, <2>10
<1>2. QED
  BY <1>1, Inductive, PTL

\* A wrong key has one of three causes, and a damaged Feldman share is none.
THEOREM WrongKeysExplained == Spec => []WrongKeyHasCause
<1>1. ASSUME IInv PROVE WrongKeyHasCause
  <2> SUFFICES ASSUME result # Nothing, NEW s \in result.from
               PROVE  /\ result.key.codec = splits[s.value.of].key.codec
                      /\ \/ result.key = Rebuilt(splits[s.value.of].key)
                         \/ Cardinality(result.from) < s.threshold
                         \/ \E o \in result.from : o.value.of # s.value.of
                         \/ \E o \in result.from : o.scheme = "Gf256" /\ ~ o.value.intact
    BY DEF WrongKeyHasCause
  <2> DEFINE S == result.from
             r == s.value.of
             first == CHOOSE o \in S : TRUE
  <2>1. /\ CanCombine(S) /\ result.key = Combined(S) /\ TypeOK
        /\ \A o \in S : o \in SharePayloads /\ ShareOk(o)
    BY <1>1 DEF IInv, TypeOK
  <2>2. first \in S
    OBVIOUS
  <2> HIDE DEF first
  <2>3. result.key = IF OnePolynomial(S, first.value.of)
                     THEN Rebuilt(splits[first.value.of].key)
                     ELSE [codec |-> first.codec, form |-> "Secret", secret |-> Garbage]
    BY <2>1 DEF Combined, first
  <2>4. result.key.codec = splits[r].key.codec
    <3>1. first.codec = s.codec
      BY <2>1, <2>2 DEF CanCombine
    <3>2. /\ first.codec = splits[first.value.of].key.codec
          /\ s.codec = splits[r].key.codec
          /\ first.value.of \in DOMAIN splits
      BY <2>1, <2>2 DEF ShareOk
    <3>3. Rebuilt(splits[first.value.of].key).codec = splits[first.value.of].key.codec
      BY <2>1, <3>2, SplitTyped, RebuiltTyped
    <3>4. result.key.codec = first.codec
      <4>1. CASE OnePolynomial(S, first.value.of)
        BY <2>3, <3>2, <3>3, <4>1
      <4>2. CASE ~ OnePolynomial(S, first.value.of)
        BY <2>3, <4>2
      <4>3. QED
        BY <4>1, <4>2
    <3>5. QED
      BY <3>1, <3>2, <3>4
  <2>5. ASSUME Cardinality(S) >= s.threshold,
               \A o \in S : o.value.of = r,
               \A o \in S : ~ (o.scheme = "Gf256" /\ ~ o.value.intact)
        PROVE  result.key = Rebuilt(splits[r].key)
    <3>1. ASSUME NEW o \in S PROVE o.value.intact
      <4>1. CASE o.scheme = "Feldman"
        BY <2>1, <4>1 DEF CanCombine, Verified, EccVerify
      <4>2. CASE o.scheme = "Gf256"
        BY <2>1, <2>5, <4>2 DEF SharePayloads, Points
      <4>3. QED
        BY <2>1, <4>1, <4>2 DEF SharePayloads
    <3>2. splits[r].threshold = s.threshold
      BY <2>1 DEF ShareOk
    <3>3. OnePolynomial(S, r) /\ first.value.of = r
      BY <2>2, <2>5, <3>1, <3>2 DEF OnePolynomial
    <3>4. QED
      BY <2>3, <3>3
  <2>6. CASE Cardinality(S) >= s.threshold
    BY <2>4, <2>5, <2>6
  <2>7. CASE ~ (Cardinality(S) >= s.threshold)
    <3>1. Cardinality(S) \in Nat /\ s.threshold \in Nat
      BY <1>1, <2>1, FS_Subset, FS_CardinalityType DEF IInv, TypeOK, SharePayloads
    <3>2. Cardinality(S) < s.threshold
      BY <2>7, <3>1
    <3>3. QED
      BY <2>4, <3>2
  <2>8. QED
    BY <2>6, <2>7
<1>2. QED
  BY <1>1, Inductive, PTL
=============================================================================
