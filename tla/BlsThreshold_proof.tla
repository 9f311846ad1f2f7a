-------------------------- MODULE BlsThreshold_proof --------------------------
(***************************************************************************)
(* Proofs about BlsThreshold: type correctness, and that neither the       *)
(* disclosure modes nor the accumulator make combine return a wrong key.   *)
(***************************************************************************)
EXTENDS BlsThreshold, Functions, FiniteSetTheorems, TLAPS

(***************************************************************************)
(* The disclosure attributes.                                              *)
(***************************************************************************)
\* The attributes that split writes are good ones.
LEMMA PlainGood ==
  ASSUME NEW d \in Dealings
  PROVE  GoodParams(d, Plain(d.threshold, d.limit))
BY BlsConstants, DisclosureConstants
   DEF GoodParams, Plain, Params, Modes, ReadThreshold, ReadLimit, DisclosureMode

\* Stamping the t and n of a dealing gives good attributes, whatever was
\* there before: nothing of it stays, and the cast to u16 loses nothing.
LEMMA StampedGood ==
  ASSUME NEW d \in Dealings, NEW p, NEW mode \in Modes, NEW k, CanStamp(mode, k)
  PROVE  GoodParams(d, Stamped(p, mode, d.threshold, d.limit, k))
<1>1. /\ d.threshold \in Nat /\ d.limit \in Nat
      /\ d.threshold % Width = d.threshold
      /\ d.limit % Width = d.limit
  BY BlsConstants, DisclosureConstants
<1>2. CASE mode = "Full"
  BY <1>1, <1>2, DisclosureConstants
     DEF GoodParams, Stamped, Cleared, Params, Modes, ReadThreshold, ReadLimit, DisclosureMode
<1>3. CASE mode = "Partial"
  <2> DEFINE e == [key |-> k, threshold |-> d.threshold, limit |-> Absent]
  <2>1. k \in MetaKeys
    BY <1>3 DEF CanStamp
  <2>2. e \in Encryptions
    BY <1>1, <2>1 DEF Encryptions
  <2>3. Stamped(p, mode, d.threshold, d.limit, k)
          = [threshold |-> Absent, limit |-> d.limit, mode |-> "Partial", enc |-> e]
    BY <1>1, <1>3 DEF Stamped, Cleared, AsU16
  <2>4. QED
    BY <1>1, <2>2, <2>3, DisclosureConstants
       DEF GoodParams, Params, Modes, ReadThreshold, ReadLimit, DisclosureMode
<1>4. CASE mode = "FullConfidential"
  <2> DEFINE e == [key |-> k, threshold |-> d.threshold, limit |-> d.limit]
  <2>1. k \in MetaKeys
    BY <1>4 DEF CanStamp
  <2>2. e \in Encryptions
    BY <1>1, <2>1 DEF Encryptions
  <2>3. Stamped(p, mode, d.threshold, d.limit, k)
          = [threshold |-> Absent, limit |-> Absent, mode |-> "FullConfidential", enc |-> e]
    BY <1>1, <1>4 DEF Stamped, Cleared, AsU16
  <2>4. QED
    BY <1>1, <2>2, <2>3, DisclosureConstants
       DEF GoodParams, Params, Modes, ReadThreshold, ReadLimit, DisclosureMode
<1>5. QED
  BY <1>2, <1>3, <1>4 DEF Modes

\* to_disclosure of good attributes gives good attributes.
LEMMA ConvertedGood ==
  ASSUME NEW d \in Dealings, NEW p, NEW mode \in Modes, NEW k,
         GoodParams(d, p), CanStamp(mode, k)
  PROVE  GoodParams(d, Converted(p, mode, k))
<1>1. Converted(p, mode, k) = Stamped(p, mode, d.threshold, d.limit, k)
  BY DEF Converted, GoodParams
<1>2. QED
  BY <1>1, StampedGood

\* Good attributes are readable by some key, and in a confidential mode by the
\* one that is in them and no other.
LEMMA GoodReads ==
  ASSUME NEW d \in Dealings, NEW p, GoodParams(d, p)
  PROVE  /\ \E k \in MetaKeys \cup {Absent} : ReadWith(p, k)
         /\ DisclosureMode(p) # "Full" =>
              \A k \in MetaKeys \cup {Absent} : ReadWith(p, k) <=> k = p.enc.key
<1>1. /\ d.threshold # Absent /\ d.limit # Absent
  BY BlsConstants, DisclosureConstants
<1>2. CASE DisclosureMode(p) = "Full"
  BY <1>1, <1>2 DEF GoodParams, ReadWith, ReadThreshold, ReadLimit
<1>3. CASE DisclosureMode(p) = "Partial"
  <2>1. p.enc \in Encryptions /\ p.enc # Absent /\ p.limit # Absent
    BY <1>1, <1>3, DisclosureConstants DEF GoodParams, Encryptions, ReadLimit
  <2>2. p.enc.key \in MetaKeys
    BY <2>1 DEF Encryptions
  <2>3. QED
    BY <1>3, <2>1, <2>2 DEF ReadWith
<1>4. CASE DisclosureMode(p) = "FullConfidential"
  <2>1. p.enc \in Encryptions /\ p.enc # Absent /\ p.enc.limit # Absent
    BY <1>1, <1>4, DisclosureConstants DEF GoodParams, Encryptions, ReadLimit
  <2>2. p.enc.key \in MetaKeys
    BY <2>1 DEF Encryptions
  <2>3. QED
    BY <1>4, <2>1, <2>2 DEF ReadWith
<1>5. QED
  BY <1>2, <1>3, <1>4 DEF GoodParams

(***************************************************************************)
(* The inductive invariant.                                                *)
(***************************************************************************)
\* The invariant holds before the first split.
LEMMA InitInv == Init => IInv
<1> SUFFICES ASSUME Init PROVE IInv
  OBVIOUS
<1>1. \A c \in Collectors : \E k \in {"Priv", "PrivShare"} : acc[c] = EmptyAccumulator("G1", k)
  BY DEF Init
<1>2. \A c \in Collectors : /\ IsAccumulator(acc[c])
                            /\ DOMAIN acc[c].data = {}
                            /\ acc[c].threshold = Absent
  BY <1>1 DEF EmptyAccumulator, IsAccumulator
<1>3. TypeOK
  BY <1>2, BlsConstants DEF Init, TypeOK, Points
<1>4. HeldInv
  BY DEF Init, HeldInv
<1>5. AccInv
  BY <1>2 DEF AccInv
<1>6. SharesKept
  BY <1>2 DEF SharesKept, Init
<1>7. CombinedIsSplitKey
  BY DEF CombinedIsSplitKey, Init
<1>8. QED
  BY <1>3, <1>4, <1>5, <1>6, <1>7 DEF IInv

\* A step that only replaces shares, by good ones at their place.
LEMMA HeldStep ==
  ASSUME IInv, held' \in [Dealings -> [Ids -> Shares \cup {Absent}]], edits' \in 0..MaxEdits,
         \A d \in Dealings, x \in Ids :
           held'[d][x] # held[d][x] => /\ held'[d][x].deal = d
                                       /\ held'[d][x].x = x
                                       /\ held'[d][x].form \in Forms
                                       /\ GoodParams(d, held'[d][x].params),
         UNCHANGED <<acc, recovered, given>>
  PROVE  IInv'
<1>1. TypeOK'
  BY DEF IInv, TypeOK
<1>2. HeldInv'
  BY DEF IInv, HeldInv
<1>3. AccInv'
  BY DEF IInv, AccInv
<1>4. SharesKept'
  BY DEF IInv, SharesKept
<1>5. CombinedIsSplitKey'
  BY DEF IInv, CombinedIsSplitKey
<1>6. QED
  BY <1>1, <1>2, <1>3, <1>4, <1>5 DEF IInv

\* A good share at its place is a share.
LEMMA ShareTyped ==
  ASSUME NEW d \in Dealings, NEW x \in Ids, NEW f \in Forms, NEW p, GoodParams(d, p)
  PROVE  [deal |-> d, x |-> x, form |-> f, params |-> p] \in Shares
BY DEF Shares, GoodParams

\* Dealing a key, with attributes p for all its shares.
LEMMA DealStep ==
  ASSUME IInv, NEW d \in Dealings, NEW p, GoodParams(d, p),
         held' = [held EXCEPT ![d] =
           [x \in Ids |-> IF x <= d.limit THEN ShareAt(d, x, p) ELSE Absent]],
         \A x \in Ids : held[d][x] = Absent,
         UNCHANGED <<acc, recovered, given, edits>>
  PROVE  IInv'
<1>1. \A x \in Ids : ShareAt(d, x, p) \in Shares
  BY ShareTyped DEF ShareAt, Forms
<1>2. held' \in [Dealings -> [Ids -> Shares \cup {Absent}]]
  BY <1>1 DEF IInv, TypeOK
<1>3. \A e \in Dealings, x \in Ids :
        held'[e][x] # held[e][x] => e = d /\ held'[e][x] = ShareAt(d, x, p)
  BY DEF IInv, TypeOK
<1>4. \A x \in Ids : /\ ShareAt(d, x, p).deal = d
                     /\ ShareAt(d, x, p).x = x
                     /\ ShareAt(d, x, p).form \in Forms
                     /\ ShareAt(d, x, p).params = p
  BY DEF ShareAt, Forms
<1>5. edits' \in 0..MaxEdits
  BY DEF IInv, TypeOK
<1>6. QED
  BY <1>2, <1>3, <1>4, <1>5, HeldStep

\* A holder replaces its share by one of the same place.
LEMMA EditStep ==
  ASSUME IInv, NEW d \in Dealings, NEW x \in Ids, NEW f \in Forms, NEW p, GoodParams(d, p),
         held' = [held EXCEPT ![d][x] = [deal |-> d, x |-> x, form |-> f, params |-> p]],
         edits < MaxEdits, edits' = edits + 1,
         UNCHANGED <<acc, recovered, given>>
  PROVE  IInv'
<1> DEFINE s == [deal |-> d, x |-> x, form |-> f, params |-> p]
<1>1. s \in Shares
  BY ShareTyped
<1>2. held' \in [Dealings -> [Ids -> Shares \cup {Absent}]]
  BY <1>1 DEF IInv, TypeOK
<1>3. \A e \in Dealings, y \in Ids :
        held'[e][y] # held[e][y] => e = d /\ y = x /\ held'[e][y] = s
  BY DEF IInv, TypeOK
<1>4. /\ s.deal = d /\ s.x = x /\ s.form \in Forms /\ s.params = p
  OBVIOUS
<1>5. edits' \in 0..MaxEdits
  BY BlsConstants DEF IInv, TypeOK
<1> HIDE DEF s
<1>6. QED
  BY <1>2, <1>3, <1>4, <1>5, HeldStep

\* A collector adds a share it did not have, with the parameters of its split.
LEMMA AddStep ==
  ASSUME IInv, NEW c \in Collectors, NEW d \in Dealings, NEW x \in Ids,
         held[d][x] # Absent, IsNew(acc[c], held[d][x]),
         acc' = [acc EXCEPT ![c] = Added(acc[c], held[d][x], d.threshold, d.limit)],
         given' = [given EXCEPT ![c] = @ \cup {Point(held[d][x])}],
         UNCHANGED <<held, recovered, edits>>
  PROVE  IInv'
<1> DEFINE s == held[d][x]
           v == [deal |-> d, threshold |-> d.threshold, limit |-> d.limit, form |-> s.form]
           data == acc[c].data
           new == Inserted(data, x, v)
<1>1. /\ s.deal = d /\ s.x = x /\ s.form \in Forms
  BY DEF IInv, HeldInv
<1>2. /\ v \in KeyShares
      /\ d.threshold \in Nat /\ d.limit \in Nat
  BY <1>1, BlsConstants DEF KeyShares
<1>3. /\ IsAccumulator(acc[c])
      /\ x \notin DOMAIN data
  BY <1>1 DEF IInv, TypeOK, IsNew
<1>4. /\ DOMAIN new = DOMAIN data \cup {x}
      /\ new[x] = v
      /\ \A y \in DOMAIN data : new[y] = data[y]
  BY <1>3 DEF Inserted
<1>5. acc'[c] = [curve |-> acc[c].curve, kind |-> acc[c].kind, threshold |-> d.threshold,
                 limit |-> d.limit, data |-> new]
  BY <1>1 DEF Added, IInv, TypeOK
<1>6. \A b \in Collectors : b # c => acc'[b] = acc[b] /\ given'[b] = given[b]
  BY DEF IInv, TypeOK
<1>7. given'[c] = given[c] \cup {[deal |-> d, x |-> x, form |-> s.form]}
  BY <1>1 DEF Point, IInv, TypeOK
<1> HIDE DEF new, v
<1>8. TypeOK'
  <2>1. IsAccumulator(acc'[c])
    BY <1>2, <1>3, <1>4, <1>5 DEF IsAccumulator
  <2>2. DOMAIN acc' = Collectors
    BY DEF IInv, TypeOK
  <2>3. given' \in [Collectors -> SUBSET Points]
    BY <1>1 DEF IInv, TypeOK, Point, Points
  <2>4. ASSUME NEW b \in Collectors PROVE IsAccumulator(acc'[b])
    <3>1. CASE b = c
      BY <2>1, <3>1
    <3>2. CASE b # c
      <4>1. acc'[b] = acc[b]
        BY <1>6, <3>2
      <4>2. IsAccumulator(acc[b])
        BY DEF IInv, TypeOK
      <4>3. QED
        BY <4>1, <4>2
    <3>3. QED
      BY <3>1, <3>2
  <2>5. (\A b \in Collectors : IsAccumulator(acc[b]))'
    BY ONLY <2>4 DEF IsAccumulator
  <2>6. held' = held /\ recovered' = recovered /\ edits' = edits
    OBVIOUS
  <2>7. /\ held \in [Dealings -> [Ids -> Shares \cup {Absent}]] /\ edits \in 0..MaxEdits
        /\ recovered \subseteq [curve : {"G1", "G2"}, from : SUBSET Points, secret : Secrets]
    BY DEF IInv, TypeOK
  <2>8. QED
    BY ONLY <2>2, <2>3, <2>5, <2>6, <2>7 DEF TypeOK
<1>9. HeldInv'
  BY DEF IInv, HeldInv
<1>10. AccInv'
  <2>1. acc'[c].threshold = acc'[c].data[x].deal.threshold /\ x \in DOMAIN acc'[c].data
    BY <1>4, <1>5 DEF v
  <2>2. AccInv
    BY DEF IInv
  <2>3. QED
    BY ONLY <1>6, <2>1, <2>2 DEF AccInv
<1>11. SharesKept'
  <2>1. given[c] = {[deal |-> data[y].deal, x |-> y, form |-> data[y].form] : y \in DOMAIN data}
    BY DEF IInv, SharesKept
  <2>2. new[x].deal = d /\ new[x].form = s.form
    BY <1>4 DEF v
  <2>3. {[deal |-> new[y].deal, x |-> y, form |-> new[y].form] : y \in DOMAIN new}
          = {[deal |-> data[y].deal, x |-> y, form |-> data[y].form] : y \in DOMAIN data}
              \cup {[deal |-> d, x |-> x, form |-> s.form]}
    BY <1>4, <2>2
  <2>4. acc'[c].data = new
    BY <1>5
  <2>5. SharesKept
    BY DEF IInv
  <2>6. QED
    BY ONLY <1>6, <1>7, <2>1, <2>3, <2>4, <2>5 DEF SharesKept
<1>12. CombinedIsSplitKey'
  BY DEF IInv, CombinedIsSplitKey
<1>13. QED
  BY <1>8, <1>9, <1>10, <1>11, <1>12 DEF IInv

\* What combine returns for the shares of one split is that split's secret:
\* the threshold asked for is that of a share that is there, so there are
\* enough points of the one polynomial.
LEMMA InterpolatedSecret ==
  ASSUME IInv, NEW c \in Collectors, CanCombine(acc[c]), NEW d \in Dealings,
         \A p \in given[c] : p.deal = d
  PROVE  Interpolated(acc[c].data) = d.secret
<1> DEFINE data == acc[c].data
<1>1. \A x \in DOMAIN data : data[x].deal = d
  <2> SUFFICES ASSUME NEW x \in DOMAIN data PROVE data[x].deal = d
    OBVIOUS
  <2>1. [deal |-> data[x].deal, x |-> x, form |-> data[x].form] \in given[c]
    BY DEF IInv, SharesKept
  <2>2. QED
    BY <2>1
<1>2. PICK x \in DOMAIN data : acc[c].threshold = data[x].deal.threshold
  BY DEF CanCombine, IInv, AccInv
<1>3. Cardinality(DOMAIN data) >= d.threshold
  BY <1>1, <1>2 DEF CanCombine
<1>4. \A e \in Dealings : (\A y \in DOMAIN data : data[y].deal = e) => e = d
  BY <1>1, <1>2
<1>5. (CHOOSE e \in Dealings : \A y \in DOMAIN data : data[y].deal = e) = d
  BY <1>1, <1>4
<1>6. \A y \in DOMAIN data : data[y].form = "scalar"
  BY DEF CanCombine
<1>7. QED
  BY <1>1, <1>3, <1>5, <1>6 DEF Interpolated

\* Interpolation gives some dealing's secret or garbage.
LEMMA InterpolatedTyped ==
  ASSUME NEW data PROVE Interpolated(data) \in Secrets
<1>1. CASE \E d \in Dealings : /\ \A x \in DOMAIN data : data[x].deal = d
                               /\ Cardinality(DOMAIN data) >= d.threshold
  <2>1. (CHOOSE d \in Dealings : \A x \in DOMAIN data : data[x].deal = d) \in Dealings
    BY <1>1
  <2>2. QED
    BY <1>1, <2>1 DEF Interpolated, Secrets
<1>2. CASE ~ \E d \in Dealings : /\ \A x \in DOMAIN data : data[x].deal = d
                                 /\ Cardinality(DOMAIN data) >= d.threshold
  BY <1>2 DEF Interpolated, Secrets
<1>3. QED
  BY <1>1, <1>2

\* combine keeps the invariant.
LEMMA CombineStep ==
  ASSUME IInv, NEW c \in Collectors, Combine(c)
  PROVE  IInv'
<1> DEFINE r == [curve |-> acc[c].curve, from |-> given[c], secret |-> Interpolated(acc[c].data)]
<1>1. recovered' = recovered \cup {r} /\ UNCHANGED <<held, acc, given, edits>> /\ CanCombine(acc[c])
  BY DEF Combine
<1>2. r \in [curve : {"G1", "G2"}, from : SUBSET Points, secret : Secrets]
  BY InterpolatedTyped DEF IInv, TypeOK, IsAccumulator
<1>3. \A d \in Dealings : (\A p \in r.from : p.deal = d) => r.secret = d.secret
  BY <1>1, InterpolatedSecret
<1> HIDE DEF r
<1>4. TypeOK'
  BY <1>1, <1>2 DEF IInv, TypeOK, IsAccumulator
<1>5. HeldInv'
  BY <1>1 DEF IInv, HeldInv
<1>6. AccInv'
  BY <1>1 DEF IInv, AccInv
<1>7. SharesKept'
  BY <1>1 DEF IInv, SharesKept
<1>8. CombinedIsSplitKey'
  BY <1>1, <1>3 DEF IInv, CombinedIsSplitKey
<1>9. QED
  BY <1>4, <1>5, <1>6, <1>7, <1>8 DEF IInv

\* Every step keeps the invariant.
LEMMA NextInv == IInv /\ [Next]_vars => IInv'
<1> SUFFICES ASSUME IInv, [Next]_vars PROVE IInv'
  OBVIOUS
<1>1. ASSUME NEW d \in Dealings, Split(d) PROVE IInv'
  BY <1>1, DealStep, PlainGood DEF Split
<1>2. ASSUME NEW d \in Dealings, NEW mode \in Modes, NEW k, SplitWithDisclosure(d, mode, k)
      PROVE  IInv'
  <2>1. GoodParams(d, Converted(Plain(d.threshold, d.limit), mode, k))
    BY <1>2, PlainGood, ConvertedGood DEF SplitWithDisclosure, CanConvert
  <2>2. QED
    BY <1>2, <2>1, DealStep DEF SplitWithDisclosure
<1>3. ASSUME NEW d \in Dealings, NEW x \in Ids, NEW mode \in Modes, NEW new, NEW current,
             ToDisclosure(d, x, mode, new, current)
      PROVE  IInv'
  <2>1. /\ held[d][x].deal = d /\ held[d][x].x = x /\ held[d][x].form \in Forms
        /\ GoodParams(d, held[d][x].params)
    BY <1>3 DEF ToDisclosure, IInv, HeldInv
  <2>2. GoodParams(d, Converted(held[d][x].params, mode, new))
    BY <1>3, <2>1, ConvertedGood DEF ToDisclosure, CanConvert
  <2>3. QED
    BY <1>3, <2>1, <2>2, EditStep DEF ToDisclosure, WithParams
<1>4. ASSUME NEW d \in Dealings, NEW x \in Ids, EncryptShare(d, x) \/ DecryptShare(d, x)
      PROVE  IInv'
  <2>1. /\ held[d][x].deal = d /\ held[d][x].x = x
        /\ GoodParams(d, held[d][x].params)
    BY <1>4 DEF EncryptShare, DecryptShare, IInv, HeldInv
  <2>2. CASE EncryptShare(d, x)
    BY <2>1, <2>2, EditStep DEF EncryptShare, WithForm, Forms
  <2>3. CASE DecryptShare(d, x)
    BY <2>1, <2>3, EditStep DEF DecryptShare, WithForm, Forms
  <2>4. QED
    BY <1>4, <2>2, <2>3
<1>5. ASSUME NEW c \in Collectors, NEW d \in Dealings, NEW x \in Ids, AddShare(c, d, x)
      PROVE  IInv'
  <2>1. GoodParams(d, held[d][x].params) /\ held[d][x].params.threshold # Absent
    BY <1>5 DEF AddShare, CanAdd, IInv, HeldInv
  <2>2. held[d][x].params.threshold = d.threshold /\ held[d][x].params.limit = d.limit
    BY <2>1 DEF GoodParams, ReadThreshold, ReadLimit
  <2>3. QED
    BY <1>5, <2>2, AddStep DEF AddShare, CanAdd
<1>6. ASSUME NEW c \in Collectors, NEW d \in Dealings, NEW x \in Ids, NEW k,
             AddShareWithMeta(c, d, x, k)
      PROVE  IInv'
  <2>1. GoodParams(d, held[d][x].params)
    BY <1>6 DEF AddShareWithMeta, IInv, HeldInv
  <2>2. /\ ReadThreshold(held[d][x].params) = d.threshold
        /\ ReadLimit(held[d][x].params) = d.limit
    BY <2>1 DEF GoodParams
  <2>3. QED
    BY <1>6, <2>2, AddStep DEF AddShareWithMeta, CanAddWithMeta
<1>7. CASE UNCHANGED vars
  <2>1. held' \in [Dealings -> [Ids -> Shares \cup {Absent}]] /\ edits' \in 0..MaxEdits
    BY <1>7 DEF vars, IInv, TypeOK
  <2>2. UNCHANGED <<held, acc, recovered, given>>
    BY <1>7 DEF vars
  <2>3. QED
    BY <2>1, <2>2, HeldStep
<1>8. QED
  BY <1>1, <1>2, <1>3, <1>4, <1>5, <1>6, <1>7, CombineStep DEF Next

(***************************************************************************)
(* Theorems.                                                               *)
(***************************************************************************)
\* The inductive invariant holds in every behaviour.
THEOREM Inductive == Spec => []IInv
BY InitInv, NextInv, PTL DEF Spec

\* Type correctness.
THEOREM TypeCorrect == Spec => []TypeOK
<1>1. IInv => TypeOK
  BY DEF IInv
<1>2. QED
  BY <1>1, Inductive, PTL

\* No share that an accumulator accepted is lost or overwritten.
THEOREM NoShareLost == Spec => []SharesKept
<1>1. IInv => SharesKept
  BY DEF IInv
<1>2. QED
  BY <1>1, Inductive, PTL

\* combine returns the split key or nothing, for shares of one split.
THEOREM CombineIsExact == Spec => []CombinedIsSplitKey
<1>1. IInv => CombinedIsSplitKey
  BY DEF IInv
<1>2. QED
  BY <1>1, Inductive, PTL

\* Every conversion keeps t and n readable and right.
THEOREM ConversionsKeepParams == Spec => []ParamsSurvive
<1>1. IInv => ParamsSurvive
  BY GoodReads DEF IInv, HeldInv, ParamsSurvive, GoodParams
<1>2. QED
  BY <1>1, Inductive, PTL

\* No conversion leaves in the open what the mode of the share hides.
THEOREM ModesHide == Spec => []ConfidentialHides
<1>1. IInv => ConfidentialHides
  <2> SUFFICES ASSUME IInv, NEW d \in Dealings, NEW x \in Ids, held[d][x] # Absent,
                      DisclosureMode(held[d][x].params) # "Full"
               PROVE  LET p == held[d][x].params
                      IN /\ p.threshold = Absent
                         /\ DisclosureMode(p) = "FullConfidential" => p.limit = Absent
                         /\ \A k \in MetaKeys \cup {Absent} : ReadWith(p, k) <=> k = p.enc.key
    BY DEF ConfidentialHides
  <2>1. GoodParams(d, held[d][x].params)
    BY DEF IInv, HeldInv
  <2>2. QED
    BY <2>1, GoodReads DEF GoodParams
<1>2. QED
  BY <1>1, Inductive, PTL

\* A collector that holds enough plain shares of one split can combine them:
\* its points are in one-to-one correspondence with the identifiers in its
\* threshold data, and it asks for that split's threshold.
LEMMA EnoughCombine ==
  ASSUME IInv, NEW c \in Collectors, NEW d \in Dealings, acc[c].kind = "Priv",
         \A p \in given[c] : p.deal = d /\ p.form = "scalar",
         Cardinality(given[c]) >= d.threshold
  PROVE  CanCombine(acc[c])
<1> DEFINE data == acc[c].data
           f == [x \in DOMAIN data |-> [deal |-> data[x].deal, x |-> x, form |-> data[x].form]]
<1>1. given[c] = {[deal |-> data[x].deal, x |-> x, form |-> data[x].form] : x \in DOMAIN data}
  BY DEF IInv, SharesKept
<1>2. \A x \in DOMAIN data : data[x].deal = d /\ data[x].form = "scalar"
  <2> SUFFICES ASSUME NEW x \in DOMAIN data PROVE data[x].deal = d /\ data[x].form = "scalar"
    OBVIOUS
  <2>1. [deal |-> data[x].deal, x |-> x, form |-> data[x].form] \in given[c]
    BY <1>1
  <2>2. QED
    BY <2>1
<1>3. IsFiniteSet(DOMAIN data)
  BY BlsConstants, FS_Subset DEF IInv, TypeOK, IsAccumulator
<1>4. f \in Surjection(DOMAIN data, given[c])
  BY <1>1 DEF Surjection
<1>5. Cardinality(given[c]) <= Cardinality(DOMAIN data) /\ IsFiniteSet(given[c])
  BY <1>3, <1>4, FS_Surjection
<1>6. /\ Cardinality(given[c]) \in Nat /\ Cardinality(DOMAIN data) \in Nat
      /\ d.threshold \in Nat /\ 2 <= d.threshold
  BY <1>3, <1>5, FS_CardinalityType, BlsConstants
<1>7. DOMAIN data # {}
  <2>1. Cardinality(DOMAIN data) # 0
    BY <1>5, <1>6
  <2>2. QED
    BY <2>1, FS_EmptySet
<1>8. PICK x \in DOMAIN data : acc[c].threshold = data[x].deal.threshold
  BY <1>7 DEF IInv, AccInv
<1>9. acc[c].threshold = d.threshold /\ d.threshold # Absent
  BY <1>2, <1>6, <1>8, DisclosureConstants
<1>10. Cardinality(DOMAIN data) >= acc[c].threshold
  BY <1>5, <1>6, <1>9
<1>11. QED
  BY <1>2, <1>9, <1>10 DEF CanCombine

\* Enough plain shares of one split always combine.
THEOREM QuorumSuffices == Spec => []EnoughSharesCombine
<1>1. IInv => EnoughSharesCombine
  BY EnoughCombine DEF EnoughSharesCombine
<1>2. QED
  BY <1>1, Inductive, PTL
=============================================================================
