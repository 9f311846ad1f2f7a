-------------------------------- MODULE Sealing --------------------------------
(***************************************************************************)
(* Sealed messages between a sender and the holders of keys of one family: *)
(* SealView::seal with a public key, OpenView::open with a private one     *)
(* (src/src/views.rs, and the views that SealViews and SealForms model).   *)
(* For the ECDH families the ephemeral public key that seal returns goes   *)
(* its own way.  On the way frames and ephemeral keys are lost, repeated,  *)
(* delivered in another order, and put together from parts of several.     *)
(***************************************************************************)
EXTENDS DispatchedViews, FiniteSets

CONSTANTS
  Holders,     \* origins of the holders' keys
  InFamilies,  \* the families under check
  Texts,
  Aads,        \* associated data
  Aeads,       \* the AEADs asked for
  MaxSeals     \* bound: calls of seal

\* A call's ephemeral key, which its number stands for, is nobody's key.
ASSUME SealConstants ==
  /\ Holders \subseteq Origins
  /\ InFamilies \subseteq SealingFamilies
  /\ Aeads \subseteq AeadCodecs
  /\ Origins \cap Nat = {}
  /\ MaxSeals \in Nat
  /\ None \notin Texts \cup Aads \cup Nat \cup AeadCodecs

VARIABLES
  family,  \* the family of this behaviour
  sealed,  \* every call of seal: to whom, what, and what it returned
  frame,   \* the sealed message that an opener has, or None
  eph,     \* the ephemeral public key that it has, or None
  opened   \* what open returned last: by whom, of what, with what, or None

vars == <<family, sealed, frame, eph, opened>>

PublicKeyOfHolder(h)  == Multikey(family, "Pub", h, FALSE)
PrivateKeyOfHolder(h) == Multikey(family, "Priv", h, FALSE)

\* The forms of a holder's key that open may be called on.
FormsOf(h) ==
  {PublicKeyOfHolder(h), PrivateKeyOfHolder(h),
   [PrivateKeyOfHolder(h) EXCEPT !.locked = TRUE]}

Init ==
  /\ family \in InFamilies
  /\ sealed = {} /\ frame = None /\ eph = None /\ opened = None

\* SealView::seal.
Seal(h, text, aead, aad) ==
  LET call == Cardinality(sealed) + 1
      r    == SealWith(PublicKeyOfHolder(h), text, aead, aad, call)
  IN /\ Cardinality(sealed) < MaxSeals
     /\ r # None
     /\ sealed' = sealed \cup {[to |-> h, text |-> text, aad |-> aad, call |-> call,
                                frame |-> r.frame, eph |-> r.eph]}
     /\ UNCHANGED <<family, frame, eph, opened>>

\* Messages and ephemeral keys arrive, in any order and any number of times.
ReceiveFrame == (\E d \in sealed : frame' = d.frame) /\ UNCHANGED <<family, sealed, eph, opened>>
ReceiveEph   == (\E d \in sealed : eph' = d.eph) /\ UNCHANGED <<family, sealed, frame, opened>>

\* Parts of one message with those of another.
Mix(d) ==
  \/ frame' = [frame EXCEPT !.eph = d.frame.eph]
  \/ frame' = [frame EXCEPT !.kem = d.frame.kem]
  \/ frame' = [frame EXCEPT !.codec = d.frame.codec]

MixFrames ==
  frame # None /\ (\E d \in sealed : Mix(d)) /\ UNCHANGED <<family, sealed, eph, opened>>

\* OpenView::open; an error leaves nothing.
Open(k, aad) ==
  LET text == OpenWith(k, frame, eph, aad)
  IN /\ frame # None
     /\ opened' = IF text = None THEN None
                  ELSE [key |-> k, text |-> text, aad |-> aad, frame |-> frame, eph |-> eph]
     /\ UNCHANGED <<family, sealed, frame, eph>>

Next ==
  \/ \E h \in Holders, text \in Texts, aead \in Aeads, aad \in Aads : Seal(h, text, aead, aad)
  \/ ReceiveFrame \/ ReceiveEph \/ MixFrames
  \/ \E h \in Holders, aad \in Aads : \E k \in FormsOf(h) : Open(k, aad)

Spec == Init /\ [][Next]_vars
-----------------------------------------------------------------------------
\* Messages and results are of the holders and of the texts.
TypeOK ==
  /\ family \in InFamilies
  /\ \A d \in sealed : /\ d.to \in Holders /\ d.text \in Texts /\ d.aad \in Aads
                       /\ d.frame.body.text \in Texts
  /\ frame # None => frame.body.text \in Texts
  /\ eph \in Nat \cup {None}
  /\ opened # None => opened.key.origin \in Holders /\ opened.text \in Texts

\* The families whose ephemeral key goes beside the message.
EcdhFamilies == {"X25519", "Secp256k1", "NistP"}

\* The associated data that a family authenticates: BLS TimeCrypt does not.
Label(aad) == IF family = "Bls" THEN None ELSE aad

\* Every holder of a message, of its own ephemeral key and of the associated
\* data opens it, however many other messages were sealed meanwhile
\* (SealView::seal and OpenView::open of every family agree on keys and frames).
OwnerOpens ==
  \A d \in sealed : OpenWith(PrivateKeyOfHolder(d.to), d.frame, d.eph, d.aad) = d.text

\* What open returns is a message as one call of seal sealed it, to that key
\* and under that associated data, whole, with the ephemeral key of that call:
\* no message put together from several opens, with no key.
OpenedAsSealed ==
  opened # None =>
    \E d \in sealed :
      /\ opened.key = PrivateKeyOfHolder(d.to)
      /\ opened.text = d.text /\ Label(opened.aad) = Label(d.aad)
      /\ opened.frame = d.frame
      /\ family \in EcdhFamilies => opened.eph = d.eph

\* The messages are sealed boxes: what is opened was put into a box addressed
\* to the opener.
BoxOf(to, text, aad) == [to |-> to, text |-> text, label |-> Label(aad)]

Box == INSTANCE SealedBox WITH
  Addressees <- Holders, Texts <- Texts, Labels <- Aads \cup {None}, Nothing <- None,
  boxes <- {BoxOf(d.to, d.text, d.aad) : d \in sealed},
  taken <- IF opened = None THEN None ELSE BoxOf(opened.key.origin, opened.text, opened.aad)

SealsBoxes == Box!Spec
=============================================================================
