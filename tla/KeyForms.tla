------------------------------- MODULE KeyForms -------------------------------
(***************************************************************************)
(* Multikeys as the views see them, and what all the signing views have in *)
(* common (src/src/views.rs, src/src/views/dispatch.rs).                   *)
(*                                                                         *)
(* Key bytes stand for the generation call they come from, their origin: a *)
(* secret and its public key have the same origin.  The signature schemes  *)
(* are perfect.                                                            *)
(***************************************************************************)
EXTENDS Codecs, Naturals, Sequences

CONSTANTS
  Origins,     \* calls of key generation
  Messages,    \* messages that callers sign
  Challenges,  \* the messages among them that have 32 bytes
  Empty,       \* the message without a byte
  Schemes      \* the BLS signature schemes

ASSUME FormConstants ==
  /\ Challenges \subseteq Messages
  /\ Empty \in Messages \ Challenges
  /\ None \notin Messages \cup Origins \cup Schemes

(***************************************************************************)
(* Multikeys.  `locked` is the at-rest encryption: KeyData is a ciphertext *)
(* 16 bytes longer than the secret and KeyIsEncrypted is set.  `share` is  *)
(* whether a BLS share states its threshold and limit in the open; its     *)
(* identifier it states in every disclosure mode.                          *)
(***************************************************************************)
Multikeys == [family : Families, role : Roles, origin : Origins,
              locked : BOOLEAN, share : BOOLEAN]

Multikey(f, r, o, share) ==
  [family |-> f, role |-> r, origin |-> o, locked |-> FALSE, share |-> share]

SecretRoles == {"Priv", "PrivShare"}

\* The bytes of KeyData.
KeyBytes(k) == [origin |-> k.origin, secret |-> k.role \in SecretRoles, longer |-> k.locked]

\* What a family's AttrView answers: `aware` families read KeyIsEncrypted, the
\* others answer false for every key.
Attr(k, aware, secret, public) ==
  [encrypted |-> aware /\ k.locked,
   secret    |-> k.role \in secret,
   public    |-> k.role \in public,
   part      |-> k.role = "PrivShare"]

Aware(k)   == Attr(k, TRUE, {"Priv"}, {"Pub"})
Unaware(k) == Attr(k, FALSE, {"Priv"}, {"Pub"})

\* DataView::secret_bytes succeeds.
HasSecret(a) == a.secret /\ ~ a.encrypted

\* The secret parses as one: the families that do not read KeyIsEncrypted check
\* its length or decode it, and a ciphertext is longer.
Parses(k) == ~ k.locked

\* Mutant of Usable: the bytes are taken without a look at their length.
UsableAnyLength(a, k) == HasSecret(a)

Usable(a, k) == HasSecret(a) /\ Parses(k)

PublicOf(k) == Multikey(k.family, "Pub", k.origin, FALSE)

CodecOf(k) == Codec(k.family, k.role)

\* ConvView::to_public_key: only codec, comment and bytes of the result are set.
Derived(a, k) == IF Usable(a, k) THEN PublicOf(k) ELSE None

\* Mutant of Fingerprint: a secret key is hashed as it is.
FingerprintAsIs(a, p, k) == KeyBytes(k)

\* FingerprintView::fingerprint, where p is to_public_key of k: the hash is
\* injective and stands for what is hashed.
Fingerprint(a, p, k) ==
  IF ~ a.secret THEN KeyBytes(k) ELSE IF p # None THEN KeyBytes(p) ELSE None

(***************************************************************************)
(* OpenSSH keys: the algorithm's name stands for a family and, for BLS,    *)
(* whether it is a share, whose parameters and identifier are in the blob. *)
(***************************************************************************)
SshFile(k) == [ssh |-> k.family, secret |-> k.role \in SecretRoles, origin |-> k.origin,
               part |-> k.role \in {"PrivShare", "PubShare"}]

\* to_ssh_public_key, p being the public form; to_ssh_private_key.
SshPublic(p)     == IF p = None THEN None ELSE SshFile(p)
SshPrivate(a, k) == IF Usable(a, k) THEN SshFile(k) ELSE None

\* dispatch::public_form, p being to_public_key of k.
PublicForm(a, p, k) == IF a.secret THEN p ELSE k

(***************************************************************************)
(* Signatures.  One half for a plain scheme; two for a hybrid, the second  *)
(* over the message and the first half.  A scheme may be randomised, so a  *)
(* half is that of one call of sign.                                       *)
(***************************************************************************)
Half(o, m, call, first, scheme) ==
  [by |-> o, msg |-> m, call |-> call, first |-> first, scheme |-> scheme]

Plain(o, m, call) == <<Half(o, m, call, None, None)>>

\* Mutant of Nested: the second half does not cover the first.
NestedNot(o, m, call) == <<Half(o, m, call, None, None), Half(o, m, call, None, None)>>

Nested(o, m, call) ==
  LET s1 == Half(o, m, call, None, None) IN <<s1, Half(o, m, call, s1, None)>>

\* Mutant of Signature: a signature without its message has no message field.
SignatureNoField(halves, m, combined, scheme, share) ==
  [halves |-> halves, embedded |-> IF combined THEN m ELSE None,
   scheme |-> scheme, share |-> share]

\* A Multisig; the embedded message is empty when there is none.
Signature(halves, m, combined, scheme, share) ==
  [halves |-> halves, embedded |-> IF combined THEN m ELSE Empty,
   scheme |-> scheme, share |-> share]

\* SignView::sign of a scheme that makes the halves h.
SignedWith(a, k, h, m, combined) ==
  IF Usable(a, k) THEN Signature(h, m, combined, None, FALSE) ELSE None

\* The message that verify takes: the argument, or else what is embedded.
Effective(s, arg) ==
  IF arg # None THEN arg ELSE IF s.embedded # Empty THEN s.embedded ELSE None

\* What a scheme checks of a half: the key, the message and what else is signed.
Checks(h, o, m, first, scheme) ==
  h.by = o /\ h.msg = m /\ h.first = first /\ h.scheme = scheme

\* VerifyView::verify, p being the public form of the key.
VerifiesPlain(p, s, arg) ==
  /\ p # None /\ p.role = "Pub"
  /\ Effective(s, arg) # None
  /\ Len(s.halves) = 1
  /\ Checks(s.halves[1], p.origin, Effective(s, arg), None, None)

\* Mutant of VerifiesNested: the second half is checked for the message alone.
VerifiesLoose(p, s, arg) ==
  /\ p # None /\ p.role = "Pub"
  /\ Effective(s, arg) # None
  /\ Len(s.halves) = 2
  /\ \A i \in 1..2 : s.halves[i].by = p.origin /\ s.halves[i].msg = Effective(s, arg)

VerifiesNested(p, s, arg) ==
  /\ p # None /\ p.role = "Pub"
  /\ Effective(s, arg) # None
  /\ Len(s.halves) = 2
  /\ Checks(s.halves[1], p.origin, Effective(s, arg), None, None)
  /\ Checks(s.halves[2], p.origin, Effective(s, arg), s.halves[1], None)
=============================================================================
