----------------------------- MODULE ShareGroup -----------------------------
(***************************************************************************)
(* A Merkle-Lamport key split among holders (ThresholdView::split and the  *)
(* PrivShare branch of SignView::sign_advance in lamport_merkle.rs): the   *)
(* holders sign to signature shares, which the multi-sig crate combines    *)
(* without ever rebuilding the key.  The owner of the key still has it.    *)
(*                                                                         *)
(* A step of the owner or of a holder is sign_advance together with the    *)
(* persisting of the key it returns; LeafKeystore looks inside that step.  *)
(***************************************************************************)
EXTENDS StatefulKeys

CONSTANTS
  Holders,     \* share holders; their number is the limit of the split
  Threshold,   \* threshold of the split
  OwnerKeys,   \* the keys the owner may start with
  NoShare,     \* a holder that was given no share yet
  ReadBack     \* depth attributes that storage may hand back on a share

ASSUME GroupConstants ==
  /\ IsFiniteSet(Holders)
  /\ Threshold \in 2..Cardinality(Holders)
  /\ OwnerKeys \subseteq {k \in Multikeys : k.kind = "Priv" /\ Accounted(k.data)}
  /\ NoShare \notin Multikeys
  /\ ReadBack \subseteq Nat \cup {Absent}

VARIABLES
  owner,      \* the owner's persisted Multikey
  share,      \* the Multikey each holder has persisted
  board,      \* signature shares the holders gave out
  complete,   \* complete Multisigs, the owner's and the combined ones
  ownerLater  \* the owner has signed after the split (history)

groupVars == <<owner, share, board, complete, ownerLater>>

SigShares == [holder : Holders, sig : Multisigs]

GroupTypeOK ==
  /\ owner \in Multikeys
  /\ share \in [Holders -> Multikeys \cup {NoShare}]
  /\ board \subseteq SigShares
  /\ complete \subseteq Multisigs
  /\ ownerLater \in BOOLEAN

GroupInit ==
  /\ owner \in OwnerKeys
  /\ share = [h \in Holders |-> NoShare]
  /\ board = {}
  /\ complete = {}
  /\ ownerLater = FALSE

IsSplit == \A h \in Holders : share[h] # NoShare

\* The owner signs and persists the advanced key.
OwnerSign(m) ==
  /\ CanSignAdvance(owner)
  /\ complete' = complete \cup {SignatureOf(owner, m, FALSE)}
  /\ owner' = Advanced(owner)
  /\ ownerLater' = IsSplit
  /\ UNCHANGED <<share, board>>

\* ThresholdView::split; the owner's key is neither consumed nor advanced.
Split ==
  /\ ~ IsSplit
  /\ CanSplit(owner)
  /\ share' = [h \in Holders |-> ShareOf(owner)]
  /\ UNCHANGED <<owner, board, complete, ownerLater>>

\* External: a holder reads its share back from storage.  Decoding a Multikey
\* accepts any depth attribute.
ReadShare(h, d) ==
  /\ share[h] # NoShare
  /\ share' = [share EXCEPT ![h].depthAttr = d]
  /\ UNCHANGED <<owner, board, complete, ownerLater>>

\* A holder signs m to a signature share and persists the key it got back.
HolderSign(h, m) ==
  /\ share[h] # NoShare
  /\ CanShareSign(share[h])
  /\ board' = board \cup {[holder |-> h, sig |-> SignatureOf(share[h], m, FALSE)]}
  /\ share' = [share EXCEPT ![h] = AdvancedShare(share[h])]
  /\ UNCHANGED <<owner, complete, ownerLater>>

\* The signature shares on m at one leaf.
SharesAt(m, i) == {b \in board : b.sig.signed = m /\ b.sig.index = i}
HoldersOf(bs) == {b.holder : b \in bs}

\* External: the multi-sig crate combines the signature shares of a threshold
\* of holders on one message at one leaf into a complete signature.
Combine(m, i) ==
  /\ Cardinality(HoldersOf(SharesAt(m, i))) >= Threshold
  /\ complete' = complete \cup {b.sig : b \in SharesAt(m, i)}
  /\ UNCHANGED <<owner, share, board, ownerLater>>

GroupNext ==
  \/ \E m \in Msgs : OwnerSign(m)
  \/ Split
  \/ \E h \in Holders, d \in ReadBack : ReadShare(h, d)
  \/ \E h \in Holders, m \in Msgs : HolderSign(h, m)
  \/ \E m \in Msgs, i \in {b.sig.index : b \in board} : Combine(m, i)

GroupSpec == GroupInit /\ [][GroupNext]_groupVars

-----------------------------------------------------------------------------
(***************************************************************************)
(* Properties                                                              *)
(***************************************************************************)

\* What the holders have to do themselves, since the crate does not do it:
\* each signs one message only, the owner retires the key once it is split,
\* and the threshold is a majority.
UsedOnce ==
  /\ ~ ownerLater
  /\ 2 * Threshold > Cardinality(Holders)
  /\ \A b, c \in board : b.holder = c.holder => b.sig.signed = c.sig.signed

\* Under that discipline no leaf signs two messages, neither two of the group
\* nor one of the group and an earlier one of the owner (the index that the
\* shares inherit from the split key is past the owner's signatures).
UsedOnceIsSafe ==
  UsedOnce => \A s, t \in complete : s.index = t.index => s.signed = t.signed

\* Holders that agree on a message can always combine: whatever they signed
\* before, and in whatever order, a threshold of signature shares on the
\* message is for one leaf.
QuorumCombines ==
  \A m \in Msgs :
    Cardinality({h \in Holders : \E b \in board : b.holder = h /\ b.sig.signed = m}) >= Threshold
      => \E i \in {b.sig.index : b \in board} :
           Cardinality(HoldersOf(SharesAt(m, i))) >= Threshold

\* A combined signature verifies under the public key of the split key, though
\* the owner may have advanced that key since.
CombinedVerifies ==
  \A s \in complete :
    /\ HasPublicKey(owner)
    /\ Verifies(ToPublicKey(owner), s, s.signed)
=============================================================================
