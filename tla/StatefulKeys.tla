---------------------------- MODULE StatefulKeys ----------------------------
(***************************************************************************)
(* The stateful one-time-leaf signing keys of the crate, as pure operators *)
(* over Multikey values: the XMSS view (src/src/views/xmss.rs) and the     *)
(* Merkle-Lamport view (src/src/views/lamport_merkle.rs).                  *)
(*                                                                         *)
(* A Multikey is a record; each operator is one view method, which takes a *)
(* key by reference and returns a new value (the crate never mutates a key *)
(* in place).  Secret material, hashes and digest variants are abstracted: *)
(* the eleven digests behave alike, and of the key bytes only what the     *)
(* methods read is kept - the depth, the index of the next leaf and the    *)
(* number of secret blocks that are left.                                  *)
(***************************************************************************)
EXTENDS Naturals, FiniteSets

CONSTANTS
  Msgs,          \* messages that are signed
  MerkleDepths,  \* depths of the Merkle trees considered
  XmssHeights,   \* heights of the XMSS trees considered (10, 16, 20 in the code)
  OtherAttrs,    \* attributes other than KeyData and Depth
  Absent         \* an attribute or an embedded message that is not there

ASSUME KeyConstants ==
  /\ Msgs # {}
  /\ MerkleDepths \subseteq 1..3
  /\ XmssHeights \subseteq Nat \ {0}
  /\ Absent \notin Nat
  /\ Absent \notin Msgs

Families == {"Merkle", "Xmss"}
Depths   == MerkleDepths \cup XmssHeights
Capacity(d) == 2^d

(***************************************************************************)
(* The bytes under KeyData.  "state" is what the two libraries serialise;  *)
(* "opaque" is a value that does not parse as one, such as the ciphertext  *)
(* of a state that the at-rest encryption leaves there.                    *)
(***************************************************************************)
KeyData == [form : {"state", "opaque"}, depth : Depths, next : Nat, blocks : Nat]

Multikeys == [family    : Families,
              kind      : {"Priv", "Pub", "PrivShare"},
              data      : KeyData,
              depthAttr : Nat \cup {Absent},
              other     : SUBSET OtherAttrs]

(***************************************************************************)
(* A Multisig: the wire signature (leaf index, tree depth, what it signs)  *)
(* and the attributes the views attach to it.                              *)
(***************************************************************************)
Multisigs == [index     : Nat,
              depth     : Depths,
              signed    : Msgs,
              message   : Msgs \cup {Absent},
              depthAttr : Nat \cup {Absent},
              sigIndex  : Nat \cup {Absent}]

FreshState(d) == [form |-> "state", depth |-> d, next |-> 0, blocks |-> Capacity(d)]

\* Builder::new_from_random_bytes_with_depth: a Merkle key of a depth in 1..3,
\* with the depth stamped as an attribute.  new_from_random_bytes makes the
\* depth-1 key, stamped alike.
NewWithDepth(d) ==
  [family |-> "Merkle", kind |-> "Priv", data |-> FreshState(d),
   depthAttr |-> d, other |-> {}]

\* Builder::new_from_random_bytes for an XMSS codec of height h.
NewXmss(h) ==
  [family |-> "Xmss", kind |-> "Priv", data |-> FreshState(h),
   depthAttr |-> Absent, other |-> {}]

\* check_depth_attribute: the attribute is there and equals the wire's byte.
DepthChecked(k) == k.depthAttr = k.data.depth

\* The state parses, and the view's precondition on the depth holds.  Merkle
\* keys cross-check the attribute; XMSS keys carry none.
Readable(k) ==
  /\ k.data.form = "state"
  /\ k.family = "Merkle" => DepthChecked(k)

\* ConvView::to_public_key succeeds.
HasPublicKey(k) == k.kind = "Priv" /\ Readable(k)

\* Mutant of ToPublicKey: the Depth attribute is not stamped.
ToPublicKeyUnstamped(k) ==
  [family |-> k.family, kind |-> "Pub",
   data |-> [form |-> "state", depth |-> k.data.depth, next |-> 0, blocks |-> 0],
   depthAttr |-> Absent, other |-> {}]

\* ConvView::to_public_key.  Only the comment is copied: other attributes are
\* not carried over to the public key.
ToPublicKey(k) ==
  [family |-> k.family, kind |-> "Pub",
   data |-> [form |-> "state", depth |-> k.data.depth, next |-> 0, blocks |-> 0],
   depthAttr |-> IF k.family = "Merkle" THEN k.data.depth ELSE Absent,
   other |-> {}]

\* The secret blocks that are there are those of the leaves not consumed.
\* The libraries write such states and parse no other.
Accounted(data) == data.next + data.blocks = Capacity(data.depth)

\* MerkleStateView::remaining_signatures: the blocks counted in the state, an
\* error when they do not account for the leaves that are left.
RemainingOk(k) ==
  /\ k.kind = "Priv"
  /\ k.data.form = "state"
  /\ Accounted(k.data)

\* Mutant of CanSignAdvance: the last leaf does not end the key.
CanSignPastEnd(k) ==
  /\ k.kind = "Priv"
  /\ Readable(k)
  /\ k.data.next <= Capacity(k.data.depth)

(***************************************************************************)
(* SignView::sign_advance of a private key: the guard, the signature and   *)
(* the advanced key.                                                       *)
(***************************************************************************)
CanSignAdvance(k) ==
  /\ k.kind = "Priv"
  /\ Readable(k)
  /\ k.data.next < Capacity(k.data.depth)

\* The Multisig made at the key's next leaf.  With `combined` the message
\* travels inside it.
SignatureOf(k, m, combined) ==
  [index     |-> k.data.next,
   depth     |-> k.data.depth,
   signed    |-> m,
   message   |-> IF combined THEN m ELSE Absent,
   depthAttr |-> IF k.family = "Merkle" THEN k.data.depth ELSE Absent,
   sigIndex  |-> IF k.family = "Xmss" THEN k.data.next ELSE Absent]

\* Mutant of Consumed: two secret blocks are dropped.
ConsumedTwice(data) ==
  [form |-> data.form, depth |-> data.depth, next |-> data.next + 1, blocks |-> data.blocks - 2]

\* Mutant of Consumed: the secret block of the leaf stays.
ConsumedKeepBlock(data) ==
  [form |-> data.form, depth |-> data.depth, next |-> data.next + 1, blocks |-> data.blocks]

\* The libraries' signing keys after one signature: the leaf's index is
\* passed and its secret block is gone.
Consumed(data) ==
  [form |-> data.form, depth |-> data.depth,
   next |-> data.next + 1, blocks |-> data.blocks - 1]

\* Mutant of Advanced: the state is rebuilt as it was.
NotAdvanced(k) ==
  [family |-> k.family, kind |-> k.kind, data |-> k.data,
   depthAttr |-> IF k.family = "Merkle" THEN k.data.depth ELSE Absent, other |-> {}]

\* Mutant of Advanced: the Depth attribute is not stamped again.
AdvancedUnstamped(k) ==
  [family |-> k.family, kind |-> k.kind, data |-> Consumed(k.data), depthAttr |-> Absent, other |-> {}]

\* Mutant of Advanced: the codec is not that of a private key.
AdvancedOddKind(k) ==
  [family |-> k.family, kind |-> "Advanced", data |-> Consumed(k.data),
   depthAttr |-> IF k.family = "Merkle" THEN k.data.depth ELSE Absent, other |-> {}]

\* The Multikey rebuilt around the consumed state (with_key_data for XMSS, the
\* Builder chain for Merkle): codec and comment are kept, the Depth attribute
\* is stamped again for Merkle, and every other attribute is dropped.
Advanced(k) ==
  [family |-> k.family, kind |-> k.kind, data |-> Consumed(k.data),
   depthAttr |-> IF k.family = "Merkle" THEN k.data.depth ELSE Absent,
   other |-> {}]

(***************************************************************************)
(* VerifyView::verify under the public form of a key.  `msg` is the        *)
(* message argument, Absent for None: then the embedded message is used.   *)
(***************************************************************************)
VerifiedMessage(sig, msg) == IF msg = Absent THEN sig.message ELSE msg

Verifies(pub, sig, msg) ==
  /\ VerifiedMessage(sig, msg) # Absent
  /\ pub.family = "Merkle" =>
       /\ DepthChecked(pub)
       /\ sig.depth = pub.data.depth
       /\ sig.depthAttr # Absent => sig.depthAttr = sig.depth
  /\ sig.depth = pub.data.depth
  /\ sig.index < Capacity(pub.data.depth)
  /\ sig.signed = VerifiedMessage(sig, msg)

(***************************************************************************)
(* Key shares, Merkle only.                                                *)
(***************************************************************************)
\* ThresholdView::split succeeds (the bounds on t and n are the library's).
CanSplit(k) ==
  /\ k.family = "Merkle"
  /\ HasPublicKey(k)

\* Mutant of ShareOf: the tree state is shared from its start.
ShareFromStart(k) ==
  [family |-> k.family, kind |-> "PrivShare", data |-> FreshState(k.data.depth),
   depthAttr |-> k.data.depth, other |-> {}]

\* One of the shares of ThresholdView::split: the whole tree state is shared,
\* the index of the next leaf with it.  The split key itself is not changed.
ShareOf(k) ==
  [family |-> k.family, kind |-> "PrivShare", data |-> k.data,
   depthAttr |-> k.data.depth, other |-> {}]

\* The share branch of sign_advance: it parses the state but does not compare
\* its depth to the attribute.
CanShareSign(s) ==
  /\ s.kind = "PrivShare"
  /\ s.data.form = "state"
  /\ s.data.next < Capacity(s.data.depth)

\* Mutant of AdvancedShare: each holder advances its own share.
AdvancedShareState(s) == [s EXCEPT !.data = Consumed(s.data)]

\* The key the share branch of sign_advance returns with the signature share:
\* a clone of the share itself.
AdvancedShare(s) == s
=============================================================================
