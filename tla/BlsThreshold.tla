----------------------------- MODULE BlsThreshold -----------------------------
(***************************************************************************)
(* Splitting a BLS12-381 key into shares and collecting them again         *)
(* (src/src/views/bls12381.rs), with the disclosure modes of the shares    *)
(* (Disclosure) and the at-rest encryption that holders may put on them.   *)
(*                                                                         *)
(* Every holder keeps one share and may convert or encrypt it; collectors  *)
(* are accumulator Multikeys, which add_share rebuilds around its          *)
(* threshold data with every share.  Polynomials are external: the value   *)
(* of a share stands for the point x of the dealing it came from, and      *)
(* interpolation gives the dealing's secret exactly when all values are    *)
(* scalars of the dealing and there are at least t of them.                *)
(***************************************************************************)
EXTENDS Disclosure, FiniteSets

CONSTANTS
  Dealings,    \* calls of split: records [id, curve, secret, threshold, limit]
  Ids,         \* the share identifiers considered, a subset of 1..limit
  Collectors,  \* the accumulators
  Garbage,     \* a secret that no dealing has
  MaxEdits     \* bound: conversions and encryptions by holders in one behaviour

\* blsful's split takes 2 <= t <= n <= 255 (README.md, BLS12-381 Shamir Splitting).
ASSUME BlsConstants ==
  /\ \A d \in Dealings : /\ d.curve \in {"G1", "G2"}
                         /\ d.threshold \in Nat /\ d.limit \in Nat
                         /\ 2 <= d.threshold
                         /\ d.threshold < Width /\ d.limit < Width
                         /\ d.secret # Garbage
  /\ Ids \subseteq Nat /\ IsFiniteSet(Ids)
  /\ Absent \notin Dealings
  /\ MaxEdits \in Nat

VARIABLES
  held,       \* held[d][x]: the share of holder x of dealing d, Absent before the split
  acc,        \* acc[c]: the accumulator Multikey of collector c
  recovered,  \* the keys combine returned, each with what had been collected
  given,      \* history: given[c] the shares that collector c accepted
  edits       \* counts conversions and encryptions, for the bound only

vars == <<held, acc, recovered, given, edits>>

(***************************************************************************)
(* Data.                                                                   *)
(***************************************************************************)
\* What KeyData holds: the scalar, or bytes that do not parse as one (the
\* ciphertext of the at-rest encryption is 16 bytes longer).
Forms == {"scalar", "cipher"}

Shares == [deal : Dealings, x : Ids, form : Forms, params : Params]

\* One KeyShare of the accumulator's ThresholdData, without its identifier.
KeyShares == [deal : Dealings, threshold : Nat, limit : Nat, form : Forms]

\* An accumulator Multikey; `data` is the decoded ThresholdData, a map from the
\* identifiers it has to their shares.
IsAccumulator(a) ==
  /\ DOMAIN a = {"curve", "kind", "threshold", "limit", "data"}
  /\ a.curve \in {"G1", "G2"}
  /\ a.kind \in {"Priv", "PrivShare"}
  /\ a.threshold \in Nat \cup {Absent}
  /\ a.limit \in Nat \cup {Absent}
  /\ DOMAIN a.data \subseteq Ids
  /\ \A x \in DOMAIN a.data : a.data[x] \in KeyShares

Points == [deal : Dealings, x : Ids, form : Forms]

Secrets == {d.secret : d \in Dealings} \cup {Garbage}

Point(s) == [deal |-> s.deal, x |-> s.x, form |-> s.form]

(***************************************************************************)
(* Operators: one view method each.                                        *)
(***************************************************************************)
\* ThresholdView::split: the code compares t to n, blsful the rest.
CanDeal(d) == d.threshold <= d.limit

ShareAt(d, x, params) == [deal |-> d, x |-> x, form |-> "scalar", params |-> params]

WithParams(s, p) == [deal |-> s.deal, x |-> s.x, form |-> s.form, params |-> p]
WithForm(s, f)   == [deal |-> s.deal, x |-> s.x, form |-> f, params |-> s.params]

\* The accumulator a collector starts with, Builder::new(codec).
EmptyAccumulator(curve, kind) ==
  [curve |-> curve, kind |-> kind, threshold |-> Absent, limit |-> Absent,
   data |-> [x \in {} |-> Absent]]

\* BTreeMap::insert of the decoded threshold data.
Inserted(data, x, v) == [y \in DOMAIN data \cup {x} |-> IF y = x THEN v ELSE data[y]]

\* Mutant of IsNew: a second share for an identifier is let in.
AlwaysNew(a, s) == TRUE

\* add_share's duplicate check.
IsNew(a, s) == s.x \notin DOMAIN a.data

\* add_share succeeds: the accumulator has a private codec, and the share
\* states t and n in plain attributes.  Neither the share's codec nor its
\* encryption is looked at.
CanAdd(a, s) ==
  /\ a.kind = "Priv"
  /\ s.params.threshold # Absent
  /\ s.params.limit # Absent
  /\ IsNew(a, s)

\* add_share_with_meta succeeds; it leaves out the check of the codec.
CanAddWithMeta(a, s, k) == ReadWith(s.params, k) /\ IsNew(a, s)

\* Mutant of Added: the limit is written for the threshold.
AddedLimit(a, s, t, n) ==
  [curve |-> a.curve, kind |-> a.kind, threshold |-> n, limit |-> n,
   data |-> Inserted(a.data, s.x, [deal |-> s.deal, threshold |-> t, limit |-> n, form |-> s.form])]

\* The accumulator add_share and add_share_with_meta build: t and n are those
\* of the share that was added last.
Added(a, s, t, n) ==
  [curve |-> a.curve, kind |-> a.kind, threshold |-> t, limit |-> n,
   data |-> Inserted(a.data, s.x,
                     [deal |-> s.deal, threshold |-> t, limit |-> n, form |-> s.form])]

\* Mutant of CanCombine: one share less is enough.
CanCombineEarly(a) ==
  /\ a.kind = "Priv"
  /\ a.threshold # Absent
  /\ Cardinality(DOMAIN a.data) + 1 >= a.threshold
  /\ \A x \in DOMAIN a.data : a.data[x].form = "scalar"

\* combine, and combine_with_meta alike: the accumulator carries t in plain
\* attributes whatever the mode of its shares.
CanCombine(a) ==
  /\ a.kind = "Priv"
  /\ a.threshold # Absent
  /\ Cardinality(DOMAIN a.data) >= a.threshold
  /\ \A x \in DOMAIN a.data : a.data[x].form = "scalar"

\* Lagrange interpolation over all the shares there are; a ciphertext taken for
\* a scalar is a point of nothing.
Interpolated(data) ==
  IF /\ \A x \in DOMAIN data : data[x].form = "scalar"
     /\ \E d \in Dealings : /\ \A x \in DOMAIN data : data[x].deal = d
                            /\ Cardinality(DOMAIN data) >= d.threshold
  THEN (CHOOSE d \in Dealings : \A x \in DOMAIN data : data[x].deal = d).secret
  ELSE Garbage

(***************************************************************************)
(* The system.                                                             *)
(***************************************************************************)
Init ==
  /\ held = [d \in Dealings |-> [x \in Ids |-> Absent]]
  /\ acc \in [Collectors -> {EmptyAccumulator(c, k) : c \in {"G1"}, k \in {"Priv", "PrivShare"}}]
  /\ recovered = {}
  /\ given = [c \in Collectors |-> {}]
  /\ edits = 0

\* A key is split; its holders get their shares.
Split(d) ==
  /\ CanDeal(d)
  /\ \A x \in Ids : held[d][x] = Absent
  /\ held' = [held EXCEPT ![d] =
       [x \in Ids |-> IF x <= d.limit THEN ShareAt(d, x, Plain(d.threshold, d.limit)) ELSE Absent]]
  /\ UNCHANGED <<acc, recovered, given, edits>>

\* split_with_disclosure: split, and every share converted to one mode.
SplitWithDisclosure(d, mode, k) ==
  LET plain == Plain(d.threshold, d.limit)
  IN /\ CanDeal(d)
     /\ \A x \in Ids : held[d][x] = Absent
     /\ CanConvert(plain, mode, k, Absent)
     /\ held' = [held EXCEPT ![d] =
          [x \in Ids |-> IF x <= d.limit THEN ShareAt(d, x, Converted(plain, mode, k)) ELSE Absent]]
     /\ UNCHANGED <<acc, recovered, given, edits>>

\* A holder converts its share to a mode.
ToDisclosure(d, x, mode, new, current) ==
  /\ held[d][x] # Absent
  /\ edits < MaxEdits
  /\ CanConvert(held[d][x].params, mode, new, current)
  /\ held' = [held EXCEPT ![d][x] =
       WithParams(held[d][x], Converted(held[d][x].params, mode, new))]
  /\ edits' = edits + 1
  /\ UNCHANGED <<acc, recovered, given>>

\* A holder encrypts its share at rest: KeyData alone is replaced, the
\* threshold attributes stay.
EncryptShare(d, x) ==
  /\ held[d][x] # Absent
  /\ edits < MaxEdits
  /\ held[d][x].form = "scalar"
  /\ held' = [held EXCEPT ![d][x] = WithForm(held[d][x], "cipher")]
  /\ edits' = edits + 1
  /\ UNCHANGED <<acc, recovered, given>>

DecryptShare(d, x) ==
  /\ held[d][x] # Absent
  /\ edits < MaxEdits
  /\ held[d][x].form = "cipher"
  /\ held' = [held EXCEPT ![d][x] = WithForm(held[d][x], "scalar")]
  /\ edits' = edits + 1
  /\ UNCHANGED <<acc, recovered, given>>

\* A collector adds a share.
AddShare(c, d, x) ==
  LET s == held[d][x]
  IN /\ s # Absent
     /\ CanAdd(acc[c], s)
     /\ acc' = [acc EXCEPT ![c] = Added(acc[c], s, s.params.threshold, s.params.limit)]
     /\ given' = [given EXCEPT ![c] = @ \cup {Point(s)}]
     /\ UNCHANGED <<held, recovered, edits>>

\* A collector adds a share of any mode, with the meta key it has.
AddShareWithMeta(c, d, x, k) ==
  LET s == held[d][x]
  IN /\ s # Absent
     /\ CanAddWithMeta(acc[c], s, k)
     /\ acc' = [acc EXCEPT ![c] = Added(acc[c], s, ReadThreshold(s.params), ReadLimit(s.params))]
     /\ given' = [given EXCEPT ![c] = @ \cup {Point(s)}]
     /\ UNCHANGED <<held, recovered, edits>>

\* A collector combines what it has; the accumulator stays as it is.
Combine(c) ==
  /\ CanCombine(acc[c])
  /\ recovered' = recovered \cup
       {[curve |-> acc[c].curve, from |-> given[c], secret |-> Interpolated(acc[c].data)]}
  /\ UNCHANGED <<held, acc, given, edits>>

Next ==
  \/ \E d \in Dealings : Split(d)
  \/ \E d \in Dealings, mode \in Modes, k \in MetaKeys \cup {Absent} : SplitWithDisclosure(d, mode, k)
  \/ \E d \in Dealings, x \in Ids, mode \in Modes, new, current \in MetaKeys \cup {Absent} :
       ToDisclosure(d, x, mode, new, current)
  \/ \E d \in Dealings, x \in Ids : EncryptShare(d, x) \/ DecryptShare(d, x)
  \/ \E c \in Collectors, d \in Dealings, x \in Ids : AddShare(c, d, x)
  \/ \E c \in Collectors, d \in Dealings, x \in Ids, k \in MetaKeys \cup {Absent} :
       AddShareWithMeta(c, d, x, k)
  \/ \E c \in Collectors : Combine(c)

Spec == Init /\ [][Next]_vars
-----------------------------------------------------------------------------
(***************************************************************************)
(* Properties.                                                             *)
(***************************************************************************)
\* Type correctness of shares, accumulators and recovered keys.
TypeOK ==
  /\ held \in [Dealings -> [Ids -> Shares \cup {Absent}]]
  /\ DOMAIN acc = Collectors
  /\ \A c \in Collectors : IsAccumulator(acc[c])
  /\ recovered \subseteq [curve : {"G1", "G2"}, from : SUBSET Points, secret : Secrets]
  /\ given \in [Collectors -> SUBSET Points]
  /\ edits \in 0..MaxEdits

\* The accumulator holds exactly the shares that were accepted: each rebuild
\* of it carries all the earlier ones over and none is overwritten
\* (add_share's decode, duplicate check, insert and encode).
SharesKept ==
  \A c \in Collectors :
    given[c] = {[deal |-> acc[c].data[x].deal, x |-> x, form |-> acc[c].data[x].form]
                  : x \in DOMAIN acc[c].data}

\* combine never returns a wrong key for shares of one split: whatever modes
\* and conversions the shares went through, and with shares encrypted at rest
\* among them, it refuses or gives the split key.
CombinedIsSplitKey ==
  \A r \in recovered, d \in Dealings :
    (\A p \in r.from : p.deal = d) => r.secret = d.secret

\* A collector of a private codec that holds t plain shares of one split and
\* nothing else can combine, whichever way and in whichever mode they came.
EnoughSharesCombine ==
  \A c \in Collectors, d \in Dealings :
    (/\ acc[c].kind = "Priv"
     /\ \A p \in given[c] : p.deal = d /\ p.form = "scalar"
     /\ Cardinality(given[c]) >= d.threshold)
    => CanCombine(acc[c])

\* However a share was converted, whoever can read its t and n reads those of
\* its split, and some key (or none) reads them (to_disclosure's read, clear
\* and stamp).
ParamsSurvive ==
  \A d \in Dealings, x \in Ids :
    held[d][x] # Absent =>
      LET p == held[d][x].params
      IN /\ \E k \in MetaKeys \cup {Absent} : ReadWith(p, k)
         /\ ReadThreshold(p) = d.threshold
         /\ ReadLimit(p) = d.limit

\* After any chain of conversions a confidential share keeps no plain copy of
\* what its mode hides, and opens under no other key than the last one used.
ConfidentialHides ==
  \A d \in Dealings, x \in Ids :
    held[d][x] # Absent =>
      LET p == held[d][x].params
      IN DisclosureMode(p) # "Full" =>
           /\ p.threshold = Absent
           /\ DisclosureMode(p) = "FullConfidential" => p.limit = Absent
           /\ \A k \in MetaKeys \cup {Absent} : ReadWith(p, k) <=> k = p.enc.key

\* A share keeps its place, and its attributes are those of one mode.
GoodParams(d, p) ==
  /\ p \in Params
  /\ ReadThreshold(p) = d.threshold
  /\ ReadLimit(p) = d.limit
  /\ \/ DisclosureMode(p) = "Full"
     \/ /\ DisclosureMode(p) = "Partial"
        /\ p.threshold = Absent
        /\ p.enc \in Encryptions
     \/ /\ DisclosureMode(p) = "FullConfidential"
        /\ p.threshold = Absent
        /\ p.limit = Absent
        /\ p.enc \in Encryptions

HeldInv ==
  \A d \in Dealings, x \in Ids :
    held[d][x] # Absent =>
      /\ held[d][x].deal = d
      /\ held[d][x].x = x
      /\ held[d][x].form \in Forms
      /\ GoodParams(d, held[d][x].params)

\* The parameters of an accumulator are those of one of its shares.
AccInv ==
  \A c \in Collectors :
    \/ acc[c].threshold = Absent /\ DOMAIN acc[c].data = {}
    \/ \E x \in DOMAIN acc[c].data : acc[c].threshold = acc[c].data[x].deal.threshold

\* The inductive invariant: every share reads as its split made it, and an
\* accumulator holds what it was given and asks for the threshold of a share
\* that it holds.
IInv == TypeOK /\ HeldInv /\ AccInv /\ SharesKept /\ CombinedIsSplitKey
=============================================================================
