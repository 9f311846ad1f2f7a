-------------------------- MODULE StatefulKeys_proof --------------------------
(***************************************************************************)
(* Proofs about the stateful keys: about LeafKeystore, for every set of    *)
(* signers, messages and start keys and every number of crashes, and       *)
(* about ShareGroup, for every set of holders and messages, every          *)
(* threshold of at least two, every start key and whatever depth attribute *)
(* storage hands back.                                                     *)
(***************************************************************************)
EXTENDS LeafKeystore, ShareGroup, FiniteSetTheorems, TLAPS

\* Depths are natural numbers.
LEMMA DepthType == \A d \in Depths : d \in Nat
BY KeyConstants DEF Depths

\* The number of leaves is a natural number: a set of d elements has 2^d
\* subsets.
LEMMA CapacityType ==
  ASSUME NEW d \in Depths
  PROVE  Capacity(d) \in Nat
<1>1. d \in Nat
  BY DepthType
<1>2. IsFiniteSet(1..d) /\ Cardinality(1..d) = d
  BY <1>1, FS_Interval
<1>3. IsFiniteSet(SUBSET (1..d)) /\ Cardinality(SUBSET (1..d)) = 2^d
  BY <1>2, FS_SUBSET
<1>4. QED
  BY <1>3, FS_CardinalityType DEF Capacity

\* What sign_advance returns, for a key it accepts: a Multisig at the key's
\* next leaf and a Multikey that is one leaf further and otherwise as
\* readable as the key was.
LEMMA SignAdvanceResult ==
  ASSUME NEW k \in Multikeys, NEW m \in Msgs, NEW c \in BOOLEAN,
         CanSignAdvance(k), Accounted(k.data)
  PROVE  /\ SignatureOf(k, m, c) \in Multisigs
         /\ SignatureOf(k, m, c).index = k.data.next
         /\ Advanced(k) \in Multikeys
         /\ Advanced(k).data.next = k.data.next + 1
         /\ Advanced(k).data.depth = k.data.depth
         /\ Advanced(k).data.form = k.data.form
         /\ Advanced(k).family = k.family
         /\ Advanced(k).kind = k.kind
         /\ Accounted(Advanced(k).data)
         /\ Readable(Advanced(k))
<1>1. /\ k.data \in KeyData /\ k.data.depth \in Depths
      /\ k.data.next \in Nat /\ k.data.blocks \in Nat
      /\ k.data.depth \in Nat
  <2>1. k.data \in KeyData
    BY DEF Multikeys
  <2>2. k.data.depth \in Depths /\ k.data.next \in Nat /\ k.data.blocks \in Nat
    BY <2>1 DEF KeyData
  <2>3. k.data.depth \in Nat
    BY <2>2, DepthType
  <2>4. QED
    BY <2>1, <2>2, <2>3
<1>2. k.data.form = "state" /\ k.data.next < Capacity(k.data.depth)
  BY DEF CanSignAdvance, Readable
<1>3. Capacity(k.data.depth) \in Nat
  BY <1>1, CapacityType
<1>4. k.data.blocks - 1 \in Nat /\ k.data.next + 1 \in Nat
  BY <1>1, <1>2, <1>3 DEF Accounted
<1>5. Consumed(k.data) = [form |-> k.data.form, depth |-> k.data.depth,
                          next |-> k.data.next + 1, blocks |-> k.data.blocks - 1]
  BY DEF Consumed
<1>6. Consumed(k.data) \in KeyData
  BY <1>1, <1>4, <1>5 DEF KeyData
<1>7. Accounted(Consumed(k.data))
  BY <1>1, <1>2, <1>3, <1>5 DEF Accounted
<1>8. Advanced(k) = [family |-> k.family, kind |-> k.kind, data |-> Consumed(k.data),
                     depthAttr |-> IF k.family = "Merkle" THEN k.data.depth ELSE Absent,
                     other |-> {}]
  BY DEF Advanced
<1>9. Advanced(k) \in Multikeys
  BY <1>1, <1>6, <1>8 DEF Multikeys
<1>10. Readable(Advanced(k))
  BY <1>2, <1>5, <1>8 DEF Readable, DepthChecked
<1>11. SignatureOf(k, m, c) \in Multisigs /\ SignatureOf(k, m, c).index = k.data.next
  BY <1>1 DEF SignatureOf, Multisigs
<1>12. QED
  BY <1>5, <1>7, <1>8, <1>9, <1>10, <1>11

-----------------------------------------------------------------------------
\* The invariant holds of every start key.
LEMMA InitIInv == Init => IInv
<1> SUFFICES ASSUME Init PROVE IInv
  OBVIOUS
<1>1. store \in Multikeys /\ store.kind = "Priv" /\ Accounted(store.data)
  BY KeystoreConstants DEF Init
<1>2. TypeOK
  BY <1>1 DEF Init, TypeOK, NoRequest
<1>3. HolderInv /\ CopyInv /\ ConsumedInv /\ DistinctInv /\ FitInv
  BY KeystoreConstants DEF Init, HolderInv, CopyInv, ConsumedInv, DistinctInv, FitInv
<1>4. KeyInv
  BY <1>1 DEF Init, KeyInv
<1>5. QED
  BY <1>2, <1>3, <1>4 DEF IInv

\* Each step keeps the invariant.  Only Persist changes the stored key: it
\* moves the index past the leaf of the one signature in flight, which is what
\* keeps the leaves of the persisted and the released signatures apart.
LEMMA NextIInv == IInv /\ [Next]_vars => IInv'
<1> SUFFICES ASSUME IInv, [Next]_vars PROVE IInv'
  OBVIOUS
<1> USE DEF IInv
<1>1. ASSUME NEW p \in Signers, NEW m \in Msgs, NEW c \in BOOLEAN, Load(p, m, c)
      PROVE  IInv'
  <2>1. TypeOK'
    BY <1>1 DEF Load, TypeOK
  <2>2. HolderInv'
    BY <1>1, KeystoreConstants DEF Load, TypeOK, HolderInv
  <2>3. CopyInv'
    BY <1>1 DEF Load, TypeOK, CopyInv
  <2>4. ConsumedInv' /\ DistinctInv'
    BY <1>1 DEF Load, TypeOK, ConsumedInv, DistinctInv
  <2>5. KeyInv'
    BY <1>1 DEF Load, TypeOK, KeyInv
  <2>6. FitInv'
    BY <1>1 DEF Load, TypeOK, FitInv, Fits
  <2>7. QED
    BY <2>1, <2>2, <2>3, <2>4, <2>5, <2>6
<1>2. ASSUME NEW p \in Signers, SignAdvance(p)
      PROVE  IInv'
  <2>1. /\ loaded[p] = store /\ request[p].msg \in Msgs /\ request[p].combined \in BOOLEAN
        /\ store \in Multikeys /\ CanSignAdvance(store) /\ Accounted(store.data)
    BY <1>2 DEF SignAdvance, TypeOK, CopyInv, KeyInv
  <2>2. /\ SignatureOf(store, request[p].msg, request[p].combined) \in Multisigs
        /\ Advanced(store) \in Multikeys
    BY <2>1, SignAdvanceResult
  <2>3. TypeOK'
    BY <1>2, <2>1, <2>2 DEF SignAdvance, TypeOK
  <2>4. HolderInv'
    BY <1>2 DEF SignAdvance, TypeOK, HolderInv
  <2>5. CopyInv'
    BY <1>2, <2>1 DEF SignAdvance, TypeOK, CopyInv
  <2>6. ConsumedInv' /\ DistinctInv'
    BY <1>2 DEF SignAdvance, TypeOK, ConsumedInv, DistinctInv
  <2>7. KeyInv'
    BY <1>2 DEF SignAdvance, TypeOK, KeyInv
  <2>8. Fits(SignatureOf(store, request[p].msg, request[p].combined))
    <3>1. HasPublicKey(origin)
      BY <2>1, KeystoreConstants DEF TypeOK, CanSignAdvance, KeyInv, HasPublicKey
    <3>2. QED
      BY <2>1, <3>1 DEF Fits, SignatureOf, CanSignAdvance, KeyInv
  <2>9. FitInv'
    BY <1>2, <2>1, <2>8 DEF SignAdvance, TypeOK, FitInv, Fits
  <2>10. QED
    BY <2>3, <2>4, <2>5, <2>6, <2>7, <2>9
<1>3. ASSUME NEW p \in Signers, SignRefused(p)
      PROVE  IInv'
  <2>1. TypeOK'
    BY <1>3 DEF SignRefused, TypeOK
  <2>2. HolderInv'
    BY <1>3, KeystoreConstants DEF SignRefused, TypeOK, HolderInv
  <2>3. CopyInv'
    BY <1>3 DEF SignRefused, TypeOK, CopyInv
  <2>4. ConsumedInv' /\ DistinctInv'
    BY <1>3 DEF SignRefused, TypeOK, ConsumedInv, DistinctInv
  <2>5. ~ Readable(store) \/ store.data.next >= Capacity(store.data.depth)
    <3>1. loaded[p] = store /\ ~ CanSignAdvance(store)
      BY <1>3 DEF SignRefused, CopyInv
    <3>2. store.data \in KeyData
      BY DEF TypeOK, Multikeys
    <3>3. store.data.next \in Nat /\ Capacity(store.data.depth) \in Nat
      BY <3>2, CapacityType DEF KeyData
    <3>4. QED
      BY <3>1, <3>3 DEF CanSignAdvance, KeyInv
  <2>6. KeyInv'
    BY <1>3, <2>5 DEF SignRefused, TypeOK, KeyInv
  <2>7. FitInv'
    BY <1>3 DEF SignRefused, TypeOK, FitInv, Fits
  <2>8. QED
    BY <2>1, <2>2, <2>3, <2>4, <2>6, <2>7
<1>4. ASSUME NEW p \in Signers, Persist(p)
      PROVE  IInv'
  <2>1. /\ advanced[p] = Advanced(store)
        /\ sig[p] = SignatureOf(store, request[p].msg, request[p].combined)
        /\ request[p].msg \in Msgs /\ request[p].combined \in BOOLEAN
        /\ store \in Multikeys /\ CanSignAdvance(store) /\ Accounted(store.data)
    BY <1>4 DEF Persist, TypeOK, CopyInv, KeyInv
  <2>2. /\ sig[p] \in Multisigs /\ sig[p].index = store.data.next
        /\ store' \in Multikeys /\ store'.data.next = store.data.next + 1
        /\ store'.data.depth = store.data.depth /\ store'.data.form = store.data.form
        /\ store'.family = store.family /\ store'.kind = store.kind
        /\ Accounted(store'.data) /\ Readable(store')
    BY <1>4, <2>1, SignAdvanceResult DEF Persist
  <2>3. store.data.next \in Nat
    BY DEF TypeOK, Multikeys, KeyData
  <2>4. TypeOK'
    BY <1>4, <2>2 DEF Persist, TypeOK
  <2>5. HolderInv'
    BY <1>4, KeystoreConstants DEF Persist, TypeOK, HolderInv
  <2>6. \A q \in Signers : q # p => pc[q] \notin {"loaded", "signed"}
    BY <1>4 DEF Persist, HolderInv
  <2>7. CopyInv'
    BY <1>4, <2>6 DEF Persist, TypeOK, CopyInv
  <2>8. ConsumedInv'
    <3>1. \A q \in Signers : pc[q] = "persisted" => sig[q].index \in Nat
      BY DEF ConsumedInv, Multisigs
    <3>2. \A s \in released : s.index \in Nat
      BY DEF TypeOK, Multisigs
    <3>3. \A q \in Signers : pc'[q] = "persisted" =>
            sig'[q] \in Multisigs /\ sig'[q].index < store'.data.next
      BY <1>4, <2>2, <2>3, <3>1 DEF Persist, TypeOK, ConsumedInv
    <3>4. \A s \in released' : s.index < store'.data.next
      BY <1>4, <2>2, <2>3, <3>2 DEF Persist, ConsumedInv
    <3>5. QED
      BY <3>3, <3>4 DEF ConsumedInv
  <2>9. DistinctInv'
    <3>1. /\ \A q \in Signers : pc[q] = "persisted" => sig[q].index # sig[p].index
          /\ \A s \in released : s.index # sig[p].index
      <4>1. \A q \in Signers : pc[q] = "persisted" =>
              sig[q].index \in Nat /\ sig[q].index < store.data.next
        BY DEF ConsumedInv, Multisigs
      <4>2. \A s \in released : s.index \in Nat /\ s.index < store.data.next
        BY DEF TypeOK, ConsumedInv, Multisigs
      <4>3. QED
        BY <2>2, <2>3, <4>1, <4>2
    <3>2. QED
      BY <1>4, <3>1 DEF Persist, TypeOK, DistinctInv
  <2>10. KeyInv'
    <3>1. \A q \in Signers : pc'[q] = "refused" =>
            ~ Readable(store') \/ store'.data.next >= Capacity(store'.data.depth)
      <4>1. Capacity(store.data.depth) \in Nat
        BY CapacityType DEF TypeOK, Multikeys, KeyData
      <4>2. \A q \in Signers : pc'[q] = "refused" => pc[q] = "refused"
        BY <1>4 DEF Persist, TypeOK
      <4>3. \A q \in Signers : pc[q] = "refused" => FALSE
        BY <2>1, <2>3, <4>1 DEF KeyInv, CanSignAdvance
      <4>4. QED
        BY <4>2, <4>3
    <3>2. QED
      BY <1>4, <2>1, <2>2, <3>1 DEF Persist, KeyInv, CanSignAdvance
  <2>11. FitInv'
    BY <1>4 DEF Persist, TypeOK, FitInv, Fits
  <2>12. QED
    BY <2>4, <2>5, <2>7, <2>8, <2>9, <2>10, <2>11
<1>5. ASSUME NEW p \in Signers, Release(p)
      PROVE  IInv'
  <2>1. TypeOK'
    BY <1>5 DEF Release, TypeOK, ConsumedInv, NoRequest
  <2>2. HolderInv'
    BY <1>5 DEF Release, TypeOK, HolderInv
  <2>3. CopyInv'
    BY <1>5 DEF Release, TypeOK, CopyInv
  <2>4. ConsumedInv'
    BY <1>5 DEF Release, TypeOK, ConsumedInv
  <2>5. DistinctInv'
    BY <1>5 DEF Release, TypeOK, DistinctInv
  <2>6. KeyInv'
    BY <1>5 DEF Release, TypeOK, KeyInv
  <2>7. FitInv'
    BY <1>5 DEF Release, TypeOK, FitInv, Fits
  <2>8. QED
    BY <2>1, <2>2, <2>3, <2>4, <2>5, <2>6, <2>7
<1>6. ASSUME NEW p \in Signers, Report(p)
      PROVE  IInv'
  <2>1. TypeOK'
    BY <1>6 DEF Report, TypeOK, NoRequest
  <2>2. HolderInv'
    BY <1>6 DEF Report, TypeOK, HolderInv
  <2>3. CopyInv'
    BY <1>6 DEF Report, TypeOK, CopyInv
  <2>4. ConsumedInv' /\ DistinctInv'
    BY <1>6 DEF Report, TypeOK, ConsumedInv, DistinctInv
  <2>5. KeyInv'
    BY <1>6 DEF Report, TypeOK, KeyInv
  <2>6. FitInv'
    BY <1>6 DEF Report, TypeOK, FitInv, Fits
  <2>7. QED
    BY <2>1, <2>2, <2>3, <2>4, <2>5, <2>6
<1>7. ASSUME NEW p \in Signers, Crash(p)
      PROVE  IInv'
  <2>1. TypeOK'
    BY <1>7 DEF Crash, TypeOK, NoRequest
  <2>2. HolderInv'
    BY <1>7, KeystoreConstants DEF Crash, TypeOK, HolderInv
  <2>3. CopyInv'
    BY <1>7 DEF Crash, TypeOK, CopyInv
  <2>4. ConsumedInv' /\ DistinctInv'
    BY <1>7 DEF Crash, TypeOK, ConsumedInv, DistinctInv
  <2>5. KeyInv'
    BY <1>7 DEF Crash, TypeOK, KeyInv
  <2>6. FitInv'
    BY <1>7 DEF Crash, TypeOK, FitInv, Fits
  <2>7. QED
    BY <2>1, <2>2, <2>3, <2>4, <2>5, <2>6
<1>8. CASE UNCHANGED vars
  <2>1. TypeOK' /\ HolderInv' /\ CopyInv'
    BY <1>8 DEF vars, TypeOK, HolderInv, CopyInv
  <2>2. ConsumedInv' /\ DistinctInv' /\ KeyInv'
    BY <1>8 DEF vars, ConsumedInv, DistinctInv, KeyInv
  <2>3. FitInv'
    BY <1>8 DEF vars, FitInv, Fits
  <2>4. QED
    BY <2>1, <2>2, <2>3
<1>9. QED
  BY <1>1, <1>2, <1>3, <1>4, <1>5, <1>6, <1>7, <1>8 DEF Next

-----------------------------------------------------------------------------
\* The inductive invariant holds in every reachable state.
THEOREM Inductive == Spec => []IInv
BY InitIInv, NextIInv, PTL DEF Spec

\* Every variable keeps its type, for every set of signers and start keys.
THEOREM TypeCorrect == Spec => []TypeOK
<1>1. IInv => TypeOK
  BY DEF IInv
<1>2. QED
  BY <1>1, Inductive, PTL

\* No leaf signs two different things that are given out, for any number of
\* signers, messages, leaves and crashes.
THEOREM OneTimeLeaves == Spec => []NoLeafReuse
<1>1. IInv => NoLeafReuse
  BY DEF IInv, DistinctInv, NoLeafReuse
<1>2. QED
  BY <1>1, Inductive, PTL

\* A key whose public key could be published is refused only when spent.
THEOREM RefusalMeansSpent == Spec => []RefusedOnlyWhenSpent
<1>1. IInv => RefusedOnlyWhenSpent
  <2> SUFFICES ASSUME IInv, NEW p \in Signers, pc[p] = "refused", HasPublicKey(origin)
               PROVE  store.data.next = Capacity(store.data.depth)
    BY DEF RefusedOnlyWhenSpent
  <2>1. store.data \in KeyData
    BY DEF IInv, TypeOK, Multikeys
  <2>2. /\ store.data.next \in Nat /\ store.data.blocks \in Nat
        /\ Capacity(store.data.depth) \in Nat
    BY <2>1, CapacityType DEF KeyData
  <2>3. store.data.next >= Capacity(store.data.depth)
    BY DEF IInv, KeyInv, HasPublicKey
  <2>4. store.data.next + store.data.blocks = Capacity(store.data.depth)
    BY DEF IInv, KeyInv, Accounted
  <2>5. QED
    BY <2>2, <2>3, <2>4
<1>2. QED
  BY <1>1, Inductive, PTL

\* Whatever was given out verifies under the key published at the start, for
\* the signed message and for no other, with or without the message embedded.
THEOREM GivenOutVerifies == Spec => []ReleasedVerifies
<1>1. IInv => ReleasedVerifies
  <2> SUFFICES ASSUME IInv, NEW s \in released
               PROVE  /\ HasPublicKey(origin)
                      /\ \A m \in Msgs : Verifies(ToPublicKey(origin), s, m) <=> (m = s.signed)
                      /\ Verifies(ToPublicKey(origin), s, Absent) <=> (s.message # Absent)
    BY DEF ReleasedVerifies
  <2> DEFINE pub == ToPublicKey(origin)
  <2>1. Fits(s) /\ s.signed \in Msgs
    BY DEF IInv, FitInv, TypeOK, Multisigs
  <2>2. /\ pub.data.depth = origin.data.depth
        /\ pub.family = "Merkle" => DepthChecked(pub)
    BY DEF ToPublicKey, DepthChecked
  <2>3. \A m \in Msgs \cup {Absent} :
          Verifies(pub, s, m) <=> VerifiedMessage(s, m) # Absent /\ s.signed = VerifiedMessage(s, m)
    BY <2>1, <2>2 DEF Verifies, Fits
  <2>4. \A m \in Msgs : VerifiedMessage(s, m) = m /\ m # Absent
    BY KeyConstants DEF VerifiedMessage
  <2>5. VerifiedMessage(s, Absent) = s.message
    BY DEF VerifiedMessage
  <2>6. \A m \in Msgs : Verifies(pub, s, m) <=> (m = s.signed)
    BY <2>3, <2>4
  <2>7. Verifies(pub, s, Absent) <=> (s.message # Absent)
    BY <2>1, <2>3, <2>5 DEF Fits
  <2>8. QED
    BY <2>1, <2>6, <2>7 DEF Fits
<1>2. QED
  BY <1>1, Inductive, PTL

\* The stored index moves one leaf at a time, forwards.
THEOREM IndexOnlyAdvances == Spec => IndexStepsByOne
<1>1. IInv /\ [Next]_vars => [store'.data.next = store.data.next + 1]_store
  <2> SUFFICES ASSUME IInv, [Next]_vars, store' # store
               PROVE  store'.data.next = store.data.next + 1
    OBVIOUS
  <2>1. PICK p \in Signers : Persist(p)
    BY DEF Next, vars, Load, SignAdvance, SignRefused, Release, Report, Crash
  <2>2. store' = Advanced(store)
    BY <2>1 DEF Persist, IInv, CopyInv
  <2>3. QED
    BY <2>2 DEF Advanced, Consumed
<1>2. QED
  BY <1>1, Inductive, PTL DEF Spec, IndexStepsByOne

-----------------------------------------------------------------------------
(***************************************************************************)
(* Leaves that appear in no signature.                                     *)
(***************************************************************************)
Persisted == {p \in Signers : pc[p] = "persisted"}

\* The sets that are counted are finite, and each consumed leaf is one of a
\* signature given out, of one about to be, or of one lost in a crash.
CountInv ==
  /\ IsFiniteSet(released) /\ IsFiniteSet(Persisted)
  /\ store.data.next - origin.data.next <= Cardinality(released) + crashes + Cardinality(Persisted)

\* The indices are numbers.
LEMMA IndexType ==
  ASSUME IInv
  PROVE  store.data.next \in Nat /\ origin.data.next \in Nat /\ crashes \in Nat
<1>1. store.data \in KeyData /\ origin.data \in KeyData
  BY KeystoreConstants DEF IInv, TypeOK, Multikeys
<1>2. QED
  BY <1>1 DEF IInv, TypeOK, KeyData

LEMMA InitCount == Init => CountInv
<1> SUFFICES ASSUME Init PROVE CountInv
  OBVIOUS
<1>1. Persisted = {} /\ released = {} /\ store = origin /\ crashes = 0
  BY DEF Init, Persisted
<1>2. store.data.next \in Nat
  BY InitIInv, IndexType
<1>3. QED
  BY <1>1, <1>2, FS_EmptySet DEF CountInv

\* Persist and Release move a leaf from one set to the next; only a crash
\* drops one, and is counted.
LEMMA NextCount == IInv /\ CountInv /\ [Next]_vars => CountInv'
<1> SUFFICES ASSUME IInv, CountInv, [Next]_vars PROVE CountInv'
  OBVIOUS
<1>1. /\ IsFiniteSet(released) /\ Cardinality(released) \in Nat
      /\ IsFiniteSet(Persisted) /\ Cardinality(Persisted) \in Nat
  BY FS_CardinalityType DEF CountInv
<1>2. /\ store.data.next \in Nat /\ origin.data.next \in Nat /\ crashes \in Nat
      /\ store.data.next - origin.data.next
           <= Cardinality(released) + crashes + Cardinality(Persisted)
  BY IndexType DEF CountInv
<1>3. pc \in [Signers -> {"idle", "loaded", "signed", "persisted", "refused"}]
  BY DEF IInv, TypeOK
<1>4. ASSUME NEW p \in Signers, Persist(p) PROVE CountInv'
  <2>1. Persisted' = Persisted \cup {p} /\ p \notin Persisted
    BY <1>3, <1>4 DEF Persist, Persisted
  <2>2. IsFiniteSet(Persisted') /\ Cardinality(Persisted') = Cardinality(Persisted) + 1
    BY <1>1, <2>1, FS_AddElement
  <2>3. store'.data.next = store.data.next + 1
    BY <1>4 DEF Persist, IInv, CopyInv, Advanced, Consumed
  <2>4. UNCHANGED <<released, origin, crashes>>
    BY <1>4 DEF Persist
  <2>5. QED
    BY <1>1, <1>2, <2>2, <2>3, <2>4 DEF CountInv
<1>5. ASSUME NEW p \in Signers, Release(p) PROVE CountInv'
  <2>1. Persisted' = Persisted \ {p} /\ p \in Persisted
    BY <1>3, <1>5 DEF Release, Persisted
  <2>2. IsFiniteSet(Persisted') /\ Cardinality(Persisted') = Cardinality(Persisted) - 1
    BY <1>1, <2>1, FS_RemoveElement
  <2>3. released' = released \cup {sig[p]} /\ sig[p] \notin released
    BY <1>5 DEF Release, IInv, DistinctInv
  <2>4. IsFiniteSet(released') /\ Cardinality(released') = Cardinality(released) + 1
    BY <1>1, <2>3, FS_AddElement
  <2>5. UNCHANGED <<store, origin, crashes>>
    BY <1>5 DEF Release
  <2>6. QED
    BY <1>1, <1>2, <2>2, <2>4, <2>5 DEF CountInv
<1>6. ASSUME NEW p \in Signers, Crash(p) PROVE CountInv'
  <2>1. Persisted' = Persisted \ {p}
    BY <1>3, <1>6 DEF Crash, Persisted
  <2>2. /\ IsFiniteSet(Persisted') /\ Cardinality(Persisted') \in Nat
        /\ Cardinality(Persisted) <= Cardinality(Persisted') + 1
    <3>1. CASE p \in Persisted
      <4>1. IsFiniteSet(Persisted') /\ Cardinality(Persisted') = Cardinality(Persisted) - 1
        BY <1>1, <2>1, <3>1, FS_RemoveElement
      <4>2. Cardinality(Persisted') \in Nat
        BY <4>1, FS_CardinalityType
      <4>3. QED
        BY <1>1, <4>1, <4>2
    <3>2. CASE p \notin Persisted
      <4>1. Persisted' = Persisted
        BY <2>1, <3>2
      <4>2. QED
        BY <1>1, <4>1
    <3>3. QED
      BY <3>1, <3>2
  <2>3. crashes' = crashes + 1 /\ UNCHANGED <<store, origin, released>>
    BY <1>6 DEF Crash
  <2>4. QED
    BY <1>1, <1>2, <2>2, <2>3 DEF CountInv
<1>7. ASSUME NEW p \in Signers,
             \/ \E m \in Msgs, c \in BOOLEAN : Load(p, m, c)
             \/ SignAdvance(p) \/ SignRefused(p) \/ Report(p)
      PROVE  CountInv'
  <2>1. UNCHANGED <<store, origin, released, crashes>>
    BY <1>7 DEF Load, SignAdvance, SignRefused, Report
  <2>2. Persisted' = Persisted
    BY <1>3, <1>7 DEF Load, SignAdvance, SignRefused, Report, Persisted
  <2>3. QED
    BY <1>1, <1>2, <2>1, <2>2 DEF CountInv
<1>8. CASE UNCHANGED vars
  BY <1>8 DEF vars, CountInv, Persisted
<1>9. QED
  BY <1>4, <1>5, <1>6, <1>7, <1>8 DEF Next

\* The state of the stored key accounts for its leaves, and leaves are wasted
\* by crashes only.
THEOREM WasteIsCrashes == Spec => []LeavesAccounted
<1>1. ASSUME IInv, CountInv PROVE LeavesAccounted
  <2>1. HasPublicKey(store) => RemainingOk(store)
    BY <1>1 DEF IInv, KeyInv, HasPublicKey, Readable, RemainingOk
  <2>2. QED
    BY <1>1, <2>1 DEF CountInv, Persisted, LeavesAccounted
<1>2. QED
  BY <1>1, InitCount, NextCount, Inductive, PTL DEF Spec

-----------------------------------------------------------------------------
(***************************************************************************)
(* The keystore implements the dispenser.  Persist reserves the leaf,      *)
(* Release issues it, all other steps leave the dispenser as it is.        *)
(***************************************************************************)
IssuedHere == {[leaf |-> s.index, msg |-> s.signed] : s \in released}

\* A start key is a dispenser that has issued nothing.
LEMMA InitDispenser == Init => Dispenser!Init
<1> SUFFICES ASSUME Init PROVE Dispenser!Init
  OBVIOUS
<1>1. store.data \in KeyData /\ Accounted(store.data)
  BY KeystoreConstants DEF Init, Multikeys
<1>2. store.data.next \in Nat /\ store.data.blocks \in Nat /\ Capacity(store.data.depth) \in Nat
  BY <1>1, CapacityType DEF KeyData
<1>3. store.data.next \in 0..Capacity(store.data.depth)
  BY <1>1, <1>2 DEF Accounted
<1>4. {[leaf |-> s.index, msg |-> s.signed] : s \in released} = {}
  BY DEF Init
<1>5. QED
  BY <1>2, <1>3, <1>4 DEF Dispenser!Init

\* Persist reserves a leaf, Release issues it, and no other step is seen.
LEMMA StepDispenser ==
  IInv /\ [Next]_vars
    => [Dispenser!Next]_<<Capacity(store.data.depth), store.data.next, IssuedHere>>
<1> SUFFICES ASSUME IInv, [Next]_vars
             PROVE  [Dispenser!Next]_<<Capacity(store.data.depth), store.data.next, IssuedHere>>
  OBVIOUS
<1>1. ASSUME NEW p \in Signers, Persist(p)
      PROVE  Dispenser!Reserve
  <2>1. store' = Advanced(store) /\ CanSignAdvance(store)
    BY <1>1 DEF Persist, IInv, CopyInv
  <2>2. store'.data.next = store.data.next + 1 /\ store'.data.depth = store.data.depth
    BY <2>1 DEF Advanced, Consumed
  <2>3. released' = released
    BY <1>1 DEF Persist
  <2>4. QED
    BY <2>1, <2>2, <2>3 DEF Dispenser!Reserve, CanSignAdvance
<1>2. ASSUME NEW p \in Signers, Release(p)
      PROVE  Dispenser!Next
  <2>1. /\ sig[p] \in Multisigs /\ sig[p].index < store.data.next
        /\ store.data.next \in Nat
    BY <1>2 DEF Release, IInv, ConsumedInv, TypeOK, Multikeys, KeyData
  <2>2. sig[p].index \in 0..(store.data.next - 1) /\ sig[p].signed \in Msgs
    BY <2>1 DEF Multisigs
  <2>3. \A i \in IssuedHere : i.leaf # sig[p].index
    <3> SUFFICES ASSUME NEW s \in released PROVE s.index # sig[p].index
      BY DEF IssuedHere
    <3>1. QED
      BY <1>2 DEF Release, IInv, DistinctInv
  <2>4. IssuedHere' = IssuedHere \cup {[leaf |-> sig[p].index, msg |-> sig[p].signed]}
    BY <1>2 DEF IssuedHere, Release
  <2>5. UNCHANGED <<Capacity(store.data.depth), store.data.next>>
    BY <1>2 DEF Release
  <2>6. PICK l \in 0..(store.data.next - 1), m \in Msgs :
          l = sig[p].index /\ m = sig[p].signed
    BY <2>2
  <2>7. Dispenser!Issue(l, m)
    BY <2>3, <2>4, <2>5, <2>6 DEF Dispenser!Issue, IssuedHere
  <2>8. QED
    BY <2>7 DEF Dispenser!Next
<1>3. ASSUME NEW p \in Signers, ~ Persist(p), ~ Release(p),
             \/ \E m \in Msgs, c \in BOOLEAN : Load(p, m, c)
             \/ SignAdvance(p) \/ SignRefused(p) \/ Report(p) \/ Crash(p)
      PROVE  UNCHANGED <<store, released>>
  BY <1>3 DEF Load, SignAdvance, SignRefused, Report, Crash
<1>4. ASSUME UNCHANGED <<store, released>>
      PROVE  UNCHANGED <<Capacity(store.data.depth), store.data.next, IssuedHere>>
  BY <1>4 DEF IssuedHere
<1>5. CASE UNCHANGED vars
  BY <1>4, <1>5 DEF vars
<1>6. QED
  BY <1>1, <1>2, <1>3, <1>4, <1>5 DEF Next, Dispenser!Next

\* Every behaviour of the keystore is one of the dispenser.
THEOREM Refinement == Spec => DispensesLeaves
<1>1. QED
  BY InitDispenser, StepDispenser, Inductive, PTL
     DEF Spec, DispensesLeaves, Dispenser!Spec, IssuedHere

-----------------------------------------------------------------------------
(***************************************************************************)
(* A key split among holders.                                              *)
(***************************************************************************)

Merkle(k) == k.family = "Merkle"

\* The owner's key is one the libraries wrote.
OwnerInv == owner.kind = "Priv" /\ Accounted(owner.data)

\* All shares are given out at once, and all of them hold the tree state of
\* the split key: what they sign is at one leaf.  The owner's index is that
\* leaf, or further once the owner has signed again.
ShareInv ==
  /\ (\E h \in Holders : share[h] # NoShare) => IsSplit
  /\ ownerLater => IsSplit
  /\ IsSplit => Merkle(owner) /\ HasPublicKey(owner)
  /\ IsSplit => \A h \in Holders :
       /\ share[h].kind = "PrivShare" /\ Merkle(share[h])
       /\ share[h].data.form = "state"
       /\ share[h].data.depth = owner.data.depth
       /\ ~ ownerLater => share[h].data.next = owner.data.next
       /\ \A g \in Holders : share[g].data = share[h].data

\* A signature of the owner's tree: it names the depth and a leaf of it.
OfTree(s) ==
  /\ s.depth = owner.data.depth
  /\ s.index < Capacity(owner.data.depth)
  /\ s.depthAttr \in {Absent, s.depth}

\* Signature shares come from holders with a share, at its leaf.
BoardInv ==
  \A b \in board :
    /\ share[b.holder] # NoShare
    /\ b.sig.index = share[b.holder].data.next
    /\ OfTree(b.sig)

\* Signatures of the tree are made while the key can publish a public key.
TreeInv == \A s \in complete : HasPublicKey(owner) /\ OfTree(s)

\* A threshold of holders has signed what s signs at its leaf.
Backed(s) == Cardinality(HoldersOf(SharesAt(s.signed, s.index))) >= Threshold

\* As long as the owner keeps its key at rest after the split, a complete
\* signature is the owner's, at a leaf it passed, or the group's at the next.
OnceInv ==
  ~ ownerLater =>
    /\ \A s \in complete :
         \/ s.index < owner.data.next
         \/ s.index = owner.data.next /\ IsSplit /\ Backed(s)
    /\ \A s, t \in complete :
         s.index = t.index /\ s.index < owner.data.next => s.signed = t.signed

GroupIInv ==
  /\ GroupTypeOK
  /\ OwnerInv
  /\ ShareInv
  /\ BoardInv
  /\ TreeInv
  /\ OnceInv

-----------------------------------------------------------------------------
\* There are holders, and finitely many.
LEMMA HoldersExist ==
  /\ IsFiniteSet(Holders) /\ Cardinality(Holders) \in Nat
  /\ Threshold \in Nat /\ Threshold >= 2
  /\ \E h \in Holders : TRUE
<1>1. IsFiniteSet(Holders) /\ Cardinality(Holders) \in Nat
  BY GroupConstants, FS_CardinalityType
<1>2. Threshold \in Nat /\ Threshold >= 2 /\ Threshold <= Cardinality(Holders)
  BY <1>1, GroupConstants
<1>3. Holders # {}
  BY <1>1, <1>2, FS_EmptySet
<1>4. QED
  BY <1>1, <1>2, <1>3

\* The parts of a key in their types.
LEMMA KeyParts ==
  ASSUME NEW k \in Multikeys
  PROVE  /\ k.data \in KeyData
         /\ k.data.next \in Nat /\ k.data.blocks \in Nat
         /\ k.data.depth \in Depths /\ k.data.depth \in Nat
<1>1. k.data \in KeyData
  BY DEF Multikeys
<1>2. k.data.next \in Nat /\ k.data.blocks \in Nat /\ k.data.depth \in Depths
  BY <1>1 DEF KeyData
<1>3. QED
  BY <1>1, <1>2, DepthType

\* What sign_advance makes of a key it accepts: a signature at the key's next
\* leaf, and a key of the same tree one leaf further.
LEMMA OwnerSignResult ==
  ASSUME NEW k \in Multikeys, NEW m \in Msgs, CanSignAdvance(k), Accounted(k.data)
  PROVE  /\ SignatureOf(k, m, FALSE) \in Multisigs
         /\ SignatureOf(k, m, FALSE).index = k.data.next
         /\ SignatureOf(k, m, FALSE).depth = k.data.depth
         /\ SignatureOf(k, m, FALSE).depthAttr \in {Absent, k.data.depth}
         /\ Advanced(k) \in Multikeys
         /\ Advanced(k).data.next = k.data.next + 1
         /\ Advanced(k).data.depth = k.data.depth
         /\ Advanced(k).kind = k.kind /\ Advanced(k).family = k.family
         /\ Accounted(Advanced(k).data)
         /\ HasPublicKey(Advanced(k))
<1>1. /\ SignatureOf(k, m, FALSE) \in Multisigs
      /\ SignatureOf(k, m, FALSE).index = k.data.next
      /\ Advanced(k) \in Multikeys /\ Accounted(Advanced(k).data) /\ Readable(Advanced(k))
      /\ Advanced(k).data.next = k.data.next + 1
      /\ Advanced(k).data.depth = k.data.depth
      /\ Advanced(k).kind = k.kind /\ Advanced(k).family = k.family
  BY SignAdvanceResult
<1>2. /\ SignatureOf(k, m, FALSE).depth = k.data.depth
      /\ SignatureOf(k, m, FALSE).depthAttr \in {Absent, k.data.depth}
  BY DEF SignatureOf
<1>3. HasPublicKey(Advanced(k))
  <2>1. k.kind = "Priv" /\ k.data.form = "state"
    BY DEF CanSignAdvance, Readable
  <2>2. Advanced(k).data.form = "state"
    BY <2>1, SignAdvanceResult
  <2>3. QED
    BY <1>1, <2>1, <2>2 DEF HasPublicKey
<1>4. QED
  BY <1>1, <1>2, <1>3

\* More signature shares can only add holders.
LEMMA BackedGrows ==
  ASSUME GroupTypeOK, board \subseteq board', board' \subseteq SigShares,
         NEW s, Backed(s)
  PROVE  Backed(s)'
<1> DEFINE old == HoldersOf(SharesAt(s.signed, s.index))
           new == HoldersOf(SharesAt(s.signed, s.index))'
<1>1. old \subseteq new /\ new \subseteq Holders
  BY DEF HoldersOf, SharesAt, SigShares
<1>2. IsFiniteSet(new) /\ Cardinality(old) <= Cardinality(new)
  BY <1>1, HoldersExist, FS_Subset
<1>3. IsFiniteSet(old) /\ Cardinality(old) \in Nat /\ Cardinality(new) \in Nat
  BY <1>1, <1>2, FS_Subset, FS_CardinalityType
<1>4. Cardinality(new) >= Threshold
  BY <1>2, <1>3, HoldersExist DEF Backed
<1>5. QED
  BY <1>4 DEF Backed

-----------------------------------------------------------------------------
\* A start key has signed nothing in the model and is split to nobody.
LEMMA GroupInitIInv == GroupInit => GroupIInv
<1> SUFFICES ASSUME GroupInit PROVE GroupIInv
  OBVIOUS
<1>1. GroupTypeOK /\ OwnerInv
  BY GroupConstants DEF GroupInit, GroupTypeOK, OwnerInv
<1>2. ~ IsSplit
  BY HoldersExist DEF GroupInit, IsSplit
<1>3. ShareInv
  BY <1>2 DEF GroupInit, ShareInv
<1>4. BoardInv /\ TreeInv /\ OnceInv
  BY DEF GroupInit, BoardInv, TreeInv, OnceInv
<1>5. QED
  BY <1>1, <1>3, <1>4 DEF GroupIInv

\* The owner signs: one more leaf is passed.  Once the key is split, the
\* discipline is broken and OnceInv asks nothing.
LEMMA OwnerSignKeeps ==
  ASSUME GroupIInv, NEW m \in Msgs, OwnerSign(m)
  PROVE  GroupIInv'
<1> DEFINE made == SignatureOf(owner, m, FALSE)
<1>1. /\ made \in Multisigs
      /\ made.index = owner.data.next
      /\ made.depth = owner.data.depth
      /\ made.depthAttr \in {Absent, owner.data.depth}
      /\ owner' \in Multikeys
      /\ owner'.data.next = owner.data.next + 1
      /\ owner'.data.depth = owner.data.depth
      /\ owner'.kind = owner.kind /\ owner'.family = owner.family
      /\ Accounted(owner'.data)
      /\ HasPublicKey(owner')
  BY OwnerSignResult DEF GroupIInv, GroupTypeOK, OwnerInv, OwnerSign
<1> HIDE DEF made
<1>2. owner.data.next \in Nat /\ owner.data.next < Capacity(owner.data.depth)
  BY KeyParts DEF GroupIInv, GroupTypeOK, OwnerSign, CanSignAdvance
<1>3. /\ complete' = complete \cup {made}
      /\ share' = share /\ board' = board
      /\ ownerLater' = IsSplit
      /\ IsSplit' = IsSplit
  BY DEF made, OwnerSign, IsSplit
<1>4. GroupTypeOK'
  BY <1>1, <1>3 DEF GroupIInv, GroupTypeOK, IsSplit
<1>5. OwnerInv'
  BY <1>1 DEF GroupIInv, OwnerInv
<1>6. ShareInv'
  BY <1>1, <1>3 DEF GroupIInv, ShareInv, Merkle
<1>7. BoardInv'
  BY <1>1, <1>3 DEF GroupIInv, BoardInv, OfTree
<1>8. TreeInv'
  BY <1>1, <1>2, <1>3 DEF GroupIInv, TreeInv, OfTree
<1>9. ASSUME ~ ownerLater' PROVE OnceInv'
  <2>1. ~ IsSplit /\ ~ ownerLater
    BY <1>3, <1>9 DEF GroupIInv, ShareInv
  <2>2. \A s \in complete : s.index < owner.data.next
    BY <2>1 DEF GroupIInv, OnceInv
  <2>3. \A s \in complete : s.index \in Nat
    BY DEF GroupIInv, GroupTypeOK, Multisigs
  <2>4. \A s \in complete' : s.index < owner'.data.next
    BY <1>1, <1>2, <1>3, <2>2, <2>3
  <2>5. \A s, t \in complete' : s.index = t.index => s.signed = t.signed
    BY <1>1, <1>2, <1>3, <2>1, <2>2, <2>3 DEF GroupIInv, OnceInv
  <2>6. QED
    BY <2>4, <2>5 DEF OnceInv
<1>10. OnceInv'
  BY <1>9 DEF OnceInv
<1>11. QED
  BY <1>4, <1>5, <1>6, <1>7, <1>8, <1>10 DEF GroupIInv

\* The split gives every holder the state of the owner's key.
LEMMA SplitKeeps ==
  ASSUME GroupIInv, Split
  PROVE  GroupIInv'
<1>1. /\ owner \in Multikeys /\ owner.family = "Merkle"
      /\ owner.kind = "Priv" /\ HasPublicKey(owner) /\ owner.data.form = "state"
  BY DEF GroupIInv, GroupTypeOK, Split, CanSplit, HasPublicKey, Readable
<1>2. ShareOf(owner) = [family |-> owner.family, kind |-> "PrivShare", data |-> owner.data,
                        depthAttr |-> owner.data.depth, other |-> {}]
  BY DEF ShareOf
<1>3. owner.data.depth \in Nat /\ owner.data \in KeyData
  BY <1>1, KeyParts
<1>4. ShareOf(owner) \in Multikeys
  BY <1>1, <1>2, <1>3 DEF Multikeys
<1>5. share' = [h \in Holders |-> ShareOf(owner)]
  BY DEF Split
<1>6. IsSplit'
  BY <1>4, <1>5, GroupConstants DEF IsSplit
<1>7. UNCHANGED <<owner, board, complete, ownerLater>>
  BY DEF Split
<1>8. ~ ownerLater /\ board = {}
  <2>1. \A h \in Holders : share[h] = NoShare
    BY DEF GroupIInv, ShareInv, Split
  <2>2. board = {}
    BY <2>1 DEF GroupIInv, BoardInv, GroupTypeOK, SigShares
  <2>3. QED
    BY <2>2 DEF GroupIInv, ShareInv, Split
<1>9. GroupTypeOK'
  BY <1>4, <1>5, <1>7 DEF GroupIInv, GroupTypeOK
<1>10. OwnerInv'
  BY <1>7 DEF GroupIInv, OwnerInv
<1>11. ShareInv'
  BY <1>1, <1>2, <1>5, <1>6, <1>7 DEF ShareInv, Merkle, HasPublicKey, Readable, DepthChecked
<1>12. BoardInv'
  BY <1>7, <1>8 DEF BoardInv
<1>13. TreeInv'
  BY <1>7 DEF GroupIInv, TreeInv, OfTree, HasPublicKey, Readable, DepthChecked
<1>14. OnceInv'
  <2>1. \A s \in complete : s.index < owner.data.next
    BY <1>8 DEF GroupIInv, OnceInv, Split
  <2>2. QED
    BY <1>7, <1>8, <2>1 DEF GroupIInv, OnceInv
<1>15. QED
  BY <1>9, <1>10, <1>11, <1>12, <1>13, <1>14 DEF GroupIInv

\* Steps of a holder that leave the state in its share, and the owner, alone.
LEMMA HolderStepKeeps ==
  ASSUME GroupIInv, GroupTypeOK', UNCHANGED <<owner, complete, ownerLater>>,
         \A h \in Holders :
           /\ share'[h] # NoShare <=> share[h] # NoShare
           /\ share[h] # NoShare => /\ share'[h].kind = share[h].kind
                                    /\ share'[h].family = share[h].family
                                    /\ share'[h].data = share[h].data,
         board \subseteq board',
         BoardInv'
  PROVE  GroupIInv'
<1>1. IsSplit' = IsSplit
  BY DEF IsSplit
<1>2. OwnerInv'
  BY DEF GroupIInv, OwnerInv
<1>3. ShareInv'
  BY <1>1 DEF GroupIInv, ShareInv, Merkle, HasPublicKey, Readable, DepthChecked, IsSplit
<1>4. TreeInv'
  BY DEF GroupIInv, TreeInv, OfTree, HasPublicKey, Readable, DepthChecked
<1>5. OnceInv'
  <2>1. \A s \in complete : Backed(s) => Backed(s)'
    BY BackedGrows DEF GroupIInv, GroupTypeOK
  <2>2. QED
    BY <1>1, <2>1 DEF GroupIInv, OnceInv
<1>6. QED
  BY <1>2, <1>3, <1>4, <1>5 DEF GroupIInv

\* Reading a share back touches its attribute only.
LEMMA ReadShareKeeps ==
  ASSUME GroupIInv, NEW h \in Holders, NEW d \in ReadBack, ReadShare(h, d)
  PROVE  GroupIInv'
<1>1. share[h] \in Multikeys /\ d \in Nat \cup {Absent}
  BY GroupConstants DEF GroupIInv, GroupTypeOK, ReadShare
<1>2. share' = [share EXCEPT ![h] = [share[h] EXCEPT !.depthAttr = d]]
  BY DEF ReadShare
<1>3. /\ [share[h] EXCEPT !.depthAttr = d] \in Multikeys
      /\ [share[h] EXCEPT !.depthAttr = d].kind = share[h].kind
      /\ [share[h] EXCEPT !.depthAttr = d].family = share[h].family
      /\ [share[h] EXCEPT !.depthAttr = d].data = share[h].data
  BY <1>1 DEF Multikeys
<1>4. UNCHANGED <<owner, board, complete, ownerLater>>
  BY DEF ReadShare
<1>5. share' \in [Holders -> Multikeys \cup {NoShare}]
  BY <1>2, <1>3 DEF GroupIInv, GroupTypeOK
<1>6. GroupTypeOK'
  BY <1>4, <1>5 DEF GroupIInv, GroupTypeOK
<1>7. \A g \in Holders :
        /\ share'[g] # NoShare <=> share[g] # NoShare
        /\ share[g] # NoShare => /\ share'[g].kind = share[g].kind
                                 /\ share'[g].family = share[g].family
                                 /\ share'[g].data = share[g].data
  <2>1. share \in [Holders -> Multikeys \cup {NoShare}]
    BY DEF GroupIInv, GroupTypeOK
  <2>2. \A g \in Holders \ {h} : share'[g] = share[g]
    BY <1>2, <2>1
  <2>3. share'[h] = [share[h] EXCEPT !.depthAttr = d]
    BY <1>2, <2>1
  <2>4. share[h] # NoShare /\ share'[h] # NoShare
    BY <1>3, <2>3, GroupConstants DEF ReadShare
  <2>5. QED
    BY <1>3, <2>2, <2>3, <2>4
<1>8. BoardInv'
  BY <1>4, <1>7 DEF GroupIInv, GroupTypeOK, SigShares, BoardInv, OfTree
<1>9. QED
  BY <1>4, <1>6, <1>7, <1>8, HolderStepKeeps

\* A holder signs at the leaf its share is for, and its share stays there.
LEMMA HolderSignKeeps ==
  ASSUME GroupIInv, NEW h \in Holders, NEW m \in Msgs, HolderSign(h, m)
  PROVE  GroupIInv'
<1> DEFINE made == SignatureOf(share[h], m, FALSE)
<1>1. /\ share[h] \in Multikeys /\ share[h] # NoShare
      /\ share[h].data.next \in Nat /\ share[h].data.depth \in Depths
      /\ share[h].data.depth \in Nat
  <2>1. share[h] \in Multikeys /\ share[h] # NoShare
    BY DEF GroupIInv, GroupTypeOK, HolderSign
  <2>2. QED
    BY <2>1, KeyParts
<1>2. IsSplit /\ Merkle(share[h]) /\ share[h].data.depth = owner.data.depth
  BY <1>1 DEF GroupIInv, ShareInv
<1>3. /\ made \in Multisigs
      /\ made.index = share[h].data.next
      /\ made.depth = owner.data.depth
      /\ made.depthAttr \in {Absent, made.depth}
  BY <1>1, <1>2 DEF SignatureOf, Multisigs, Merkle
<1>4. made.index < Capacity(owner.data.depth)
  BY <1>2, <1>3 DEF HolderSign, CanShareSign
<1>5. /\ share' = share
      /\ board' = board \cup {[holder |-> h, sig |-> made]}
      /\ UNCHANGED <<owner, complete, ownerLater>>
  BY DEF GroupIInv, GroupTypeOK, HolderSign, AdvancedShare
<1> HIDE DEF made
<1>6. GroupTypeOK'
  BY <1>3, <1>5 DEF GroupIInv, GroupTypeOK, SigShares
<1>7. BoardInv'
  BY <1>1, <1>3, <1>4, <1>5 DEF GroupIInv, BoardInv, OfTree
<1>8. QED
  BY <1>5, <1>6, <1>7, HolderStepKeeps

\* Combined signatures are backed by a threshold of holders.
LEMMA CombineKeeps ==
  ASSUME GroupIInv, NEW m \in Msgs, NEW i \in {b.sig.index : b \in board}, Combine(m, i)
  PROVE  GroupIInv'
<1>1. /\ complete' = complete \cup {b.sig : b \in SharesAt(m, i)}
      /\ UNCHANGED <<owner, share, board, ownerLater>>
  BY DEF Combine
<1>2. ASSUME NEW s \in complete', s \notin complete
      PROVE  \E b \in board : b.sig = s /\ s.signed = m /\ s.index = i
  BY <1>1, <1>2 DEF SharesAt
<1>3. GroupTypeOK'
  BY <1>1, <1>2 DEF GroupIInv, GroupTypeOK, SigShares
<1>4. OwnerInv' /\ BoardInv'
  BY <1>1 DEF GroupIInv, OwnerInv, BoardInv, OfTree
<1>5. IsSplit' = IsSplit
  BY <1>1 DEF IsSplit
<1>6. ShareInv'
  BY <1>1, <1>5 DEF GroupIInv, ShareInv, Merkle, HasPublicKey, Readable, DepthChecked
<1>7. \A b \in board : b.holder \in Holders /\ IsSplit /\ HasPublicKey(owner)
  BY DEF GroupIInv, GroupTypeOK, SigShares, BoardInv, ShareInv
<1>8. TreeInv'
  BY <1>1, <1>2, <1>7 DEF GroupIInv, TreeInv, BoardInv, OfTree, HasPublicKey, Readable, DepthChecked
<1>9. ASSUME ~ ownerLater' PROVE OnceInv'
  <2>1. ~ ownerLater
    BY <1>1, <1>9
  <2>2. \A s : Backed(s)' = Backed(s)
    BY <1>1 DEF Backed, HoldersOf, SharesAt
  <2>3. ASSUME NEW s \in complete', s \notin complete
        PROVE  s.index = owner.data.next /\ IsSplit /\ Backed(s)
    <3>1. PICK b \in board : b.sig = s /\ s.signed = m /\ s.index = i
      BY <1>2, <2>3
    <3>2. IsSplit /\ s.index = owner.data.next
      BY <1>7, <2>1, <3>1 DEF GroupIInv, BoardInv, ShareInv
    <3>3. Backed(s)
      BY <3>1 DEF Combine, Backed
    <3>4. QED
      BY <3>2, <3>3
  <2>4. owner.data.next \in Nat
    BY KeyParts DEF GroupIInv, GroupTypeOK
  <2>5. \A s \in complete' : s.index < owner.data.next => s \in complete
    BY <2>3, <2>4
  <2>6. QED
    BY <1>1, <1>5, <2>1, <2>2, <2>3, <2>5 DEF GroupIInv, OnceInv
<1>10. OnceInv'
  BY <1>9 DEF OnceInv
<1>11. QED
  BY <1>3, <1>4, <1>6, <1>8, <1>10 DEF GroupIInv

LEMMA GroupNextIInv == GroupIInv /\ [GroupNext]_groupVars => GroupIInv'
<1> SUFFICES ASSUME GroupIInv, [GroupNext]_groupVars PROVE GroupIInv'
  OBVIOUS
<1>1. CASE UNCHANGED groupVars
  BY <1>1 DEF groupVars, GroupIInv, GroupTypeOK, OwnerInv, ShareInv, BoardInv, TreeInv, OnceInv, OfTree,
     Backed, HoldersOf, SharesAt, IsSplit, Merkle, HasPublicKey, Readable, DepthChecked
<1>2. ASSUME NEW m \in Msgs, OwnerSign(m) PROVE GroupIInv'
  BY <1>2, OwnerSignKeeps
<1>3. CASE Split
  BY <1>3, SplitKeeps
<1>4. ASSUME NEW h \in Holders, NEW d \in ReadBack, ReadShare(h, d) PROVE GroupIInv'
  BY <1>4, ReadShareKeeps
<1>5. ASSUME NEW h \in Holders, NEW m \in Msgs, HolderSign(h, m) PROVE GroupIInv'
  BY <1>5, HolderSignKeeps
<1>6. ASSUME NEW m \in Msgs, NEW i \in {b.sig.index : b \in board}, Combine(m, i) PROVE GroupIInv'
  BY <1>6, CombineKeeps
<1>7. QED
  BY <1>1, <1>2, <1>3, <1>4, <1>5, <1>6 DEF GroupNext

-----------------------------------------------------------------------------
\* The inductive invariant holds: the shares of a split are for one leaf, the
\* owner's next one at the split, and signatures are of the owner's tree.
THEOREM GroupInductive == GroupSpec => []GroupIInv
BY GroupInitIInv, GroupNextIInv, PTL DEF GroupSpec

\* Owner, shares, signature shares and signatures keep their types.
THEOREM GroupTypeCorrect == GroupSpec => []GroupTypeOK
<1>1. GroupIInv => GroupTypeOK
  BY DEF GroupIInv
<1>2. QED
  BY <1>1, GroupInductive, PTL

\* Two thresholds that are majorities share a holder, and a holder of the
\* discipline signs one message only.
LEMMA OneMessageOfTheGroup ==
  ASSUME GroupIInv, UsedOnce, NEW s \in complete, NEW t \in complete,
         Backed(s), Backed(t)
  PROVE  s.signed = t.signed
<1> DEFINE S == HoldersOf(SharesAt(s.signed, s.index))
           T == HoldersOf(SharesAt(t.signed, t.index))
<1>1. S \subseteq Holders /\ T \subseteq Holders
  BY DEF GroupIInv, GroupTypeOK, SigShares, HoldersOf, SharesAt
<1>2. /\ Cardinality(S) \in Nat /\ Cardinality(S) >= Threshold
      /\ Cardinality(T) \in Nat /\ Cardinality(T) >= Threshold
  BY <1>1, HoldersExist, FS_Subset, FS_CardinalityType DEF Backed
<1>3. Cardinality(S) + Cardinality(T) > Cardinality(Holders)
  BY <1>2, HoldersExist DEF UsedOnce
<1>4. S \cap T # {}
  BY <1>1, <1>2, <1>3, HoldersExist, FS_MajoritiesIntersect
<1>5. PICK h : h \in S /\ h \in T
  BY <1>4
<1>6. PICK b \in SharesAt(s.signed, s.index) : b.holder = h
  BY <1>5 DEF HoldersOf
<1>7. PICK c \in SharesAt(t.signed, t.index) : c.holder = h
  BY <1>5 DEF HoldersOf
<1>8. QED
  BY <1>6, <1>7 DEF SharesAt, UsedOnce

\* Holders that sign one message each, an owner that retires the split key and
\* a majority threshold: no leaf signs two messages, of the group or of the
\* owner before the split, although neither sign_advance of a share nor split
\* consumes the leaf.
THEOREM OneLeafOneMessage == GroupSpec => []UsedOnceIsSafe
<1>1. ASSUME GroupIInv PROVE UsedOnceIsSafe
  <2> SUFFICES ASSUME UsedOnce, NEW s \in complete, NEW t \in complete, s.index = t.index
               PROVE  s.signed = t.signed
    BY DEF UsedOnceIsSafe
  <2>1. ~ ownerLater
    BY DEF UsedOnce
  <2>2. CASE s.index < owner.data.next
    BY <1>1, <2>1, <2>2 DEF GroupIInv, OnceInv
  <2>3. CASE ~ (s.index < owner.data.next)
    <3>1. Backed(s) /\ Backed(t)
      BY <1>1, <2>1, <2>3 DEF GroupIInv, OnceInv
    <3>2. QED
      BY <1>1, <3>1, OneMessageOfTheGroup
  <2>4. QED
    BY <2>2, <2>3
<1>2. QED
  BY <1>1, GroupInductive, PTL

\* Signature shares of a threshold of holders on one message are at one leaf,
\* whatever else the holders signed and in whatever order: they combine.
THEOREM AgreementCombines == GroupSpec => []QuorumCombines
<1>1. ASSUME GroupIInv PROVE QuorumCombines
  <2> SUFFICES ASSUME NEW m \in Msgs,
                      Cardinality({h \in Holders : \E b \in board : b.holder = h /\ b.sig.signed = m})
                        >= Threshold
               PROVE  \E i \in {b.sig.index : b \in board} :
                        Cardinality(HoldersOf(SharesAt(m, i))) >= Threshold
    BY DEF QuorumCombines
  <2> DEFINE quorum == {h \in Holders : \E b \in board : b.holder = h /\ b.sig.signed = m}
  <2>1. quorum # {}
    BY HoldersExist, FS_EmptySet
  <2>2. PICK c \in board : c.sig.signed = m
    BY <2>1
  <2>3. \A b \in board : b.holder \in Holders /\ b.sig.index = c.sig.index
    BY <1>1 DEF GroupIInv, GroupTypeOK, SigShares, BoardInv, ShareInv
  <2>4. HoldersOf(SharesAt(m, c.sig.index)) = quorum
    BY <2>3 DEF HoldersOf, SharesAt
  <2>5. QED
    BY <2>4
<1>2. QED
  BY <1>1, GroupInductive, PTL

\* Every complete signature verifies under the public key of the owner's key,
\* as it is after any number of the owner's signatures since.
THEOREM GroupVerifies == GroupSpec => []CombinedVerifies
<1>1. ASSUME GroupIInv PROVE CombinedVerifies
  <2> SUFFICES ASSUME NEW s \in complete
               PROVE  HasPublicKey(owner) /\ Verifies(ToPublicKey(owner), s, s.signed)
    BY DEF CombinedVerifies
  <2>1. HasPublicKey(owner) /\ OfTree(s)
    BY <1>1 DEF GroupIInv, TreeInv
  <2>2. s.signed \in Msgs /\ s.signed # Absent
    BY <1>1, KeyConstants DEF GroupIInv, GroupTypeOK, Multisigs
  <2>3. QED
    BY <2>1, <2>2 DEF OfTree, Verifies, VerifiedMessage, ToPublicKey, DepthChecked
<1>2. QED
  BY <1>1, GroupInductive, PTL
=============================================================================
