---------------------------- MODULE LeafKeystore ----------------------------
(***************************************************************************)
(* The life of one stateful signing key: signers that share a keystore     *)
(* call SignView::sign_advance on copies of the stored key, persist the    *)
(* advanced key and give the signature out; any of them can crash between  *)
(* two of these steps.                                                     *)
(*                                                                         *)
(* The crate computes on values and owns no storage.  Its documentation    *)
(* gives the rest of the protocol to the caller, which is what the         *)
(* external actions model: one signer at a time holds the stored key, the  *)
(* advanced key is persisted before the signature is given out.            *)
(***************************************************************************)
EXTENDS StatefulKeys

CONSTANTS
  Signers,     \* threads or processes that sign with the stored key
  Nobody,      \* holder of the lock when it is free
  NoSig,       \* a signer that has no signature
  NoKey,       \* a signer that has no key
  StartKeys,   \* the keys the keystore may start with
  MaxCrashes   \* bound on the crashes of one behaviour

ASSUME KeystoreConstants ==
  /\ Nobody \notin Signers
  /\ NoSig \notin Multisigs
  /\ NoKey \notin Multikeys
  /\ StartKeys \subseteq {k \in Multikeys : k.kind = "Priv" /\ Accounted(k.data)}
  /\ MaxCrashes \in Nat

VARIABLES
  store,     \* the persisted Multikey
  origin,    \* the Multikey the keystore was given at the start (history)
  holder,    \* the signer that holds the stored key
  pc,        \* what each signer has done
  request,   \* the message and the `combined` flag of its request
  loaded,    \* its copy of the key
  sig,       \* the Multisig sign_advance returned
  advanced,  \* the Multikey sign_advance returned
  released,  \* the Multisigs given out (history)
  crashes    \* number of crashes so far

vars == <<store, origin, holder, pc, request, loaded, sig, advanced, released, crashes>>

NoRequest == [msg |-> Absent, combined |-> FALSE]

TypeOK ==
  /\ store \in Multikeys
  /\ origin \in StartKeys
  /\ holder \in Signers \cup {Nobody}
  /\ pc \in [Signers -> {"idle", "loaded", "signed", "persisted", "refused"}]
  /\ request \in [Signers -> [msg : Msgs \cup {Absent}, combined : BOOLEAN]]
  /\ loaded \in [Signers -> Multikeys \cup {NoKey}]
  /\ sig \in [Signers -> Multisigs \cup {NoSig}]
  /\ advanced \in [Signers -> Multikeys \cup {NoKey}]
  /\ released \subseteq Multisigs
  /\ crashes \in Nat

Init ==
  /\ store \in StartKeys
  /\ origin = store
  /\ holder = Nobody
  /\ pc = [p \in Signers |-> "idle"]
  /\ request = [p \in Signers |-> NoRequest]
  /\ loaded = [p \in Signers |-> NoKey]
  /\ sig = [p \in Signers |-> NoSig]
  /\ advanced = [p \in Signers |-> NoKey]
  /\ released = {}
  /\ crashes = 0

\* External: a signer takes the stored key and decodes it to sign m.
Load(p, m, c) ==
  /\ pc[p] = "idle"
  /\ holder = Nobody
  /\ holder' = p
  /\ pc' = [pc EXCEPT ![p] = "loaded"]
  /\ request' = [request EXCEPT ![p] = [msg |-> m, combined |-> c]]
  /\ loaded' = [loaded EXCEPT ![p] = store]
  /\ UNCHANGED <<store, origin, sig, advanced, released, crashes>>

\* sign_advance returns the signature and the advanced key; nothing is stored.
SignAdvance(p) ==
  /\ pc[p] = "loaded"
  /\ CanSignAdvance(loaded[p])
  /\ sig' = [sig EXCEPT ![p] = SignatureOf(loaded[p], request[p].msg, request[p].combined)]
  /\ advanced' = [advanced EXCEPT ![p] = Advanced(loaded[p])]
  /\ pc' = [pc EXCEPT ![p] = "signed"]
  /\ UNCHANGED <<store, origin, holder, request, loaded, released, crashes>>

\* sign_advance returns an error; the caller gives the stored key back.
SignRefused(p) ==
  /\ pc[p] = "loaded"
  /\ ~ CanSignAdvance(loaded[p])
  /\ pc' = [pc EXCEPT ![p] = "refused"]
  /\ holder' = Nobody
  /\ loaded' = [loaded EXCEPT ![p] = NoKey]
  /\ UNCHANGED <<store, origin, request, sig, advanced, released, crashes>>

\* External: the advanced key replaces the stored one.
Persist(p) ==
  /\ pc[p] = "signed"
  /\ store' = advanced[p]
  /\ holder' = Nobody
  /\ pc' = [pc EXCEPT ![p] = "persisted"]
  /\ loaded' = [loaded EXCEPT ![p] = NoKey]
  /\ advanced' = [advanced EXCEPT ![p] = NoKey]
  /\ UNCHANGED <<origin, request, sig, released, crashes>>

\* External: the signature leaves the signer.
Release(p) ==
  /\ pc[p] = "persisted"
  /\ released' = released \cup {sig[p]}
  /\ pc' = [pc EXCEPT ![p] = "idle"]
  /\ request' = [request EXCEPT ![p] = NoRequest]
  /\ sig' = [sig EXCEPT ![p] = NoSig]
  /\ UNCHANGED <<store, origin, holder, loaded, advanced, crashes>>

\* The caller of a refused request is told so.
Report(p) ==
  /\ pc[p] = "refused"
  /\ pc' = [pc EXCEPT ![p] = "idle"]
  /\ request' = [request EXCEPT ![p] = NoRequest]
  /\ UNCHANGED <<store, origin, holder, loaded, sig, advanced, released, crashes>>

\* A signer dies: what it had in memory is gone and its hold on the key ends.
Crash(p) ==
  /\ pc[p] # "idle"
  /\ crashes < MaxCrashes
  /\ crashes' = crashes + 1
  /\ holder' = IF holder = p THEN Nobody ELSE holder
  /\ pc' = [pc EXCEPT ![p] = "idle"]
  /\ request' = [request EXCEPT ![p] = NoRequest]
  /\ loaded' = [loaded EXCEPT ![p] = NoKey]
  /\ sig' = [sig EXCEPT ![p] = NoSig]
  /\ advanced' = [advanced EXCEPT ![p] = NoKey]
  /\ UNCHANGED <<store, origin, released>>

Proceed(p) == SignAdvance(p) \/ SignRefused(p) \/ Persist(p) \/ Release(p) \/ Report(p)

Next ==
  \E p \in Signers :
    \/ \E m \in Msgs, c \in BOOLEAN : Load(p, m, c)
    \/ SignAdvance(p)
    \/ SignRefused(p)
    \/ Persist(p)
    \/ Release(p)
    \/ Report(p)
    \/ Crash(p)

Spec == Init /\ [][Next]_vars

(***************************************************************************)
(* A signer that has begun goes on: nothing in the crate waits, locks or   *)
(* retries, so each call returns.  BusySpec also assumes, of the callers,  *)
(* that somebody keeps asking for signatures.                              *)
(***************************************************************************)
BusySpec ==
  /\ Spec
  /\ \A p \in Signers : WF_vars(Proceed(p))
  /\ WF_vars(\E p \in Signers, m \in Msgs, c \in BOOLEAN : Load(p, m, c))

-----------------------------------------------------------------------------
(***************************************************************************)
(* The inductive invariant: where the leaf of each signature is, relative  *)
(* to the stored index, at each step of the protocol.                      *)
(***************************************************************************)

\* The holder is the one signer between loading the key and persisting it.
HolderInv ==
  \A p \in Signers : pc[p] \in {"loaded", "signed"} <=> holder = p

\* Nobody else replaces the stored key meanwhile, so the copy is current.
CopyInv ==
  \A p \in Signers :
    /\ pc[p] \in {"loaded", "signed"} => loaded[p] = store /\ request[p].msg \in Msgs
    /\ pc[p] = "signed" =>
         /\ CanSignAdvance(store)
         /\ sig[p] = SignatureOf(store, request[p].msg, request[p].combined)
         /\ advanced[p] = Advanced(store)

\* The leaves of signatures that are persisted or released are consumed.
ConsumedInv ==
  /\ \A p \in Signers : pc[p] = "persisted" => sig[p] \in Multisigs /\ sig[p].index < store.data.next
  /\ \A s \in released : s.index < store.data.next

\* ... and differ from each other.
DistinctInv ==
  /\ \A p, q \in Signers :
       pc[p] = "persisted" /\ pc[q] = "persisted" /\ p # q => sig[p].index # sig[q].index
  /\ \A p \in Signers, s \in released : pc[p] = "persisted" => sig[p].index # s.index
  /\ \A s, t \in released : s.index = t.index => s = t

\* The stored key accounts for its leaves and keeps what the start key had:
\* its family, its depth, the depth attribute that makes it readable.
KeyInv ==
  /\ Accounted(store.data)
  /\ store.kind = "Priv"
  /\ store.family = origin.family
  /\ store.data.depth = origin.data.depth
  /\ store.data.form = origin.data.form
  /\ Readable(origin) <=> Readable(store)
  /\ \A p \in Signers :
       pc[p] = "refused" => ~ Readable(store) \/ store.data.next >= Capacity(store.data.depth)

\* A signature made with the stored key fits the key the keystore began with.
Fits(s) ==
  /\ HasPublicKey(origin)
  /\ s.depth = origin.data.depth
  /\ s.index < Capacity(s.depth)
  /\ s.message \in {Absent, s.signed}
  /\ s.depthAttr \in {Absent, s.depth}

FitInv ==
  /\ \A p \in Signers : pc[p] \in {"signed", "persisted"} => Fits(sig[p])
  /\ \A s \in released : Fits(s)

IInv ==
  TypeOK /\ HolderInv /\ CopyInv /\ ConsumedInv /\ DistinctInv /\ KeyInv /\ FitInv

-----------------------------------------------------------------------------
(***************************************************************************)
(* Properties                                                              *)
(***************************************************************************)

\* No leaf signs two different things that are given out, whatever the
\* interleaving of the signers and wherever they crash (xmss.rs 4-5,
\* lamport_merkle.rs 4-8).
NoLeafReuse ==
  \A s, t \in released : s.index = t.index => s = t

\* A key whose public key could be published is refused only once every leaf
\* is consumed: no chain of sign_advance, storage and crashes makes the stored
\* key unusable earlier (the depth attribute must survive each advance).
RefusedOnlyWhenSpent ==
  \A p \in Signers :
    pc[p] = "refused" /\ HasPublicKey(origin)
      => store.data.next = Capacity(store.data.depth)

\* Each signature given out verifies under the public key of the key the
\* keystore started with, by its own embedded message or by the message
\* passed, and under no other message, however far the stored key has been
\* advanced since.
ReleasedVerifies ==
  \A s \in released :
    /\ HasPublicKey(origin)
    /\ \A m \in Msgs : Verifies(ToPublicKey(origin), s, m) <=> (m = s.signed)
    /\ Verifies(ToPublicKey(origin), s, Absent) <=> (s.message # Absent)

\* The stored key accounts for its leaves (remaining_signatures succeeds), and
\* the leaves that were consumed but appear in no signature are at most one
\* for each crash and one for each signer about to give its signature out.
LeavesAccounted ==
  /\ HasPublicKey(store) => RemainingOk(store)
  /\ store.data.next - origin.data.next <=
       Cardinality(released) + crashes
         + Cardinality({p \in Signers : pc[p] = "persisted"})

\* The stored index never goes back and skips no leaf.
IndexStepsByOne ==
  [][store'.data.next = store.data.next + 1]_store

\* A key whose public key could be published gets to use up every leaf it had,
\* through all crashes: sign_advance never leaves a key behind that can go no
\* further.
KeyIsUsedUp ==
  HasPublicKey(origin) ~> (store.data.next = Capacity(store.data.depth))

\* "Codec, comment, and all other attributes are copied unchanged" from the
\* stored key to the advanced key that replaces it (xmss.rs 231-232).
OtherAttributesKept ==
  [][store'.other = store.other]_store

\* The promise of LeafDispenser, for the tree behind the stored key.
Dispenser ==
  INSTANCE LeafDispenser
    WITH Messages <- Msgs,
         capacity <- Capacity(store.data.depth),
         reserved <- store.data.next,
         issued <- {[leaf |-> s.index, msg |-> s.signed] : s \in released}

DispensesLeaves == Dispenser!Spec
=============================================================================
