------------------------------- MODULE KeyViews -------------------------------
(***************************************************************************)
(* A Multikey on its way through the views: it is turned into its public   *)
(* key, sent through OpenSSH files, encrypted and decrypted, split, its    *)
(* share parameters hidden and shown, and in whatever form it is it signs  *)
(* and verifies.  Signatures travel too, and are taken apart, put together *)
(* with others, and given other attributes on the way.                     *)
(*                                                                         *)
(* Every behaviour is about the keys of one family.  No view changes its   *)
(* key, so the key at hand stands for all the forms kept of it.            *)
(***************************************************************************)
EXTENDS DispatchedViews, SshKeys, FiniteSets

CONSTANTS
  Generated,  \* the origins that key generation makes a key of
  Shares,     \* the origins of key shares
  InFamilies, \* the families under check
  MaxCalls    \* bound: calls of sign

ASSUME ViewConstants ==
  /\ Generated \cup Shares \subseteq Origins /\ Generated \cap Shares = {}
  /\ InFamilies \subseteq Families
  /\ MaxCalls \in Nat
  \* No view, key or key bytes is None.
  /\ None \notin Views \cup Multikeys
                  \cup [origin : Origins, secret : BOOLEAN, longer : BOOLEAN]

VARIABLES
  key,   \* the Multikey at hand
  made,  \* the signatures that sign returned: of whom, and what was signed
  sent   \* a signature on its way to a verifier, or None

vars == <<key, made, sent>>

\* Builder::new_from_random_bytes makes the private keys of all families.
GeneratedKey(f, o) == Multikey(f, "Priv", o, FALSE)

Init ==
  /\ \E f \in InFamilies, o \in Generated : key = GeneratedKey(f, o)
  /\ made = {} /\ sent = None

\* The caller takes up a private key it has, from generation or from a seed.
TakeUp(o) == key' = GeneratedKey(key.family, o) /\ UNCHANGED <<made, sent>>

FromSeed(o) ==
  /\ SeedKey(key.family, o) # None
  /\ key' = SeedKey(key.family, o)
  /\ UNCHANGED <<made, sent>>

\* A call that returns a key, or fails.
Becomes(k) == k # None /\ key' = k /\ UNCHANGED <<made, sent>>

ToPublic == Becomes(PublicKeyOf(key))

\* Out to an OpenSSH file and in again.
ThroughSshPublic ==
  SshPublicOf(key) # None /\ Becomes(PublicImport(SshPublicOf(key)))

ThroughSshPrivate ==
  SshPrivateOf(key) # None /\ Becomes(PrivateImport(SshPrivateOf(key)))

\* CipherView::encrypt and decrypt, whose parameters are followed in KeyVault:
\* only the families that read KeyIsEncrypted find a key to decrypt.
Lock   == HasSecret(AttrOf(key)) /\ ~ key.locked /\ Becomes([key EXCEPT !.locked = TRUE])
Unlock == AttrOf(key).encrypted /\ Becomes([key EXCEPT !.locked = FALSE])

\* ThresholdView::split, one of the shares.
Split(o) == Becomes(ShareWith(key, o))

\* ThresholdDisclosureView::to_disclosure of a BLS share, to a mode that hides
\* the threshold and back.
ToDisclosure ==
  /\ key.family = "Bls" /\ key.role \in {"PrivShare", "PubShare"}
  /\ Becomes([key EXCEPT !.share = ~ key.share])

\* SignView::sign; the caller asks for a scheme where the family has some.
Sign(m, combined, scheme) ==
  LET s == SignWith(key, m, combined, Cardinality(made) + 1, scheme)
  IN /\ Cardinality(made) < MaxCalls
     /\ s # None
     /\ made' = made \cup {[by |-> key.origin, msg |-> m, sig |-> s]}
     /\ sent' = s
     /\ UNCHANGED key

\* What can become of signatures under way: another of them is sent, two are
\* put together, one loses its second half, and the attributes are others'.
Resend ==
  /\ sent # None
  /\ \E d \in made : sent' = d.sig
  /\ UNCHANGED <<key, made>>

Splice ==
  /\ sent # None /\ Len(sent.halves) = 2
  /\ \E d \in made : sent' = [sent EXCEPT !.halves[2] = d.sig.halves[2]]
  /\ UNCHANGED <<key, made>>

Truncate ==
  /\ sent # None /\ Len(sent.halves) = 2
  /\ sent' = [sent EXCEPT !.halves = <<sent.halves[1]>>]
  /\ UNCHANGED <<key, made>>

Reembed(m) ==
  /\ sent # None
  /\ sent' = [sent EXCEPT !.embedded = m]
  /\ UNCHANGED <<key, made>>

Rescheme(scheme) ==
  /\ sent # None /\ sent.scheme # None
  /\ sent' = [sent EXCEPT !.scheme = scheme]
  /\ UNCHANGED <<key, made>>

Travel == Resend \/ Splice \/ Truncate
            \/ (\E m \in Messages : Reembed(m)) \/ (\E c \in Schemes : Rescheme(c))

\* A scheme is asked for exactly where the family has schemes.
Asks == IF key.family = "Bls" THEN Schemes ELSE {None}

Next ==
  \/ \E o \in Generated : TakeUp(o) \/ FromSeed(o)
  \/ ToPublic \/ ThroughSshPublic \/ ThroughSshPrivate
  \/ Lock \/ Unlock
  \/ \E o \in Shares : Split(o)
  \/ ToDisclosure
  \/ \E m \in Messages, combined \in BOOLEAN, scheme \in Asks : Sign(m, combined, scheme)
  \/ Travel

Spec == Init /\ [][Next]_vars
-----------------------------------------------------------------------------
IsHalf(h) ==
  /\ DOMAIN h = {"by", "msg", "call", "first", "scheme"}
  /\ h.by \in Origins /\ h.msg \in Messages /\ h.scheme \in Schemes \cup {None}
  /\ h.call \in 1..MaxCalls

IsSignature(s) ==
  /\ Len(s.halves) \in {1, 2} /\ \A i \in DOMAIN s.halves : IsHalf(s.halves[i])
  /\ s.embedded \in Messages
  /\ s.scheme \in Schemes \cup {None} /\ s.share \in BOOLEAN

\* Every form of a key and every signature is of its type: whatever chain of
\* calls led to it, a key has a codec that the crate knows.
TypeOK ==
  /\ key \in Multikeys /\ CodecOf(key) \in AllCodecs
  /\ \A d \in made : d.by \in Origins /\ d.msg \in Messages /\ IsSignature(d.sig)
  /\ sent # None => IsSignature(sent)

\* A form of a key that can check signatures: a pair's half in the open, a BLS
\* public share in any disclosure mode, or a BLS share that states its threshold
\* and limit.
CanVerify(k) ==
  /\ ~ k.locked
  /\ \/ k.role \in {"Priv", "Pub"}
     \/ k.family = "Bls" /\ (k.share \/ k.role = "PubShare")

\* What a key signed verifies with every form of that key, private, public,
\* through SSH files, decrypted, a share's public share even while it hides the
\* threshold: sign and verify agree on the bytes signed, the order of the halves
\* and the key they are for (VerifyView::verify of every family); and an embedded
\* message that is not empty need not be given again.
GenuineVerifies ==
  CanVerify(key) =>
    \A d \in made : d.by = key.origin =>
      /\ VerifiesWith(key, d.sig, d.msg)
      /\ d.sig.embedded # Empty => VerifiesWith(key, d.sig, None)

\* And nothing else verifies: whatever becomes of signatures under way, one that
\* some form of a key accepts is, in all its halves, what one call of sign by
\* that key returned for the message that the verifier gave or, if it gave
\* none, found embedded.  Halves of two calls, for one message even, do not make
\* a signature, nor does an embedded message go before the one given.
VerifiedIsGenuine ==
  sent # None =>
    \A arg \in Messages \cup {None} :
      VerifiesWith(key, sent, arg) =>
        \E d \in made : /\ d.by = key.origin
                        /\ d.msg = (IF arg # None THEN arg ELSE sent.embedded)
                        /\ d.sig.halves = sent.halves

\* All forms of a key, but for locked ones, have one fingerprint and no two
\* keys have the same: a share's public share has the share's, a key that went
\* through SSH the one it had (FingerprintView of every family).
OneIdentity ==
  LET whole == key.role \in {"Priv", "Pub"}
      mine  == FingerprintOf(key)
      share == Multikey(key.family, "PrivShare", key.origin, TRUE)
  IN ~ key.locked =>
       /\ whole => mine = FingerprintOf(GeneratedKey(key.family, key.origin)) /\ mine # None
       /\ ~ whole /\ CanVerify(key) => mine = FingerprintOf(share) /\ mine # None
       /\ \A o \in Generated \ {key.origin} : mine # FingerprintOf(GeneratedKey(key.family, o))

\* A locked key does nothing but wait: no view signs with its ciphertext,
\* derives a public key or a fingerprint from it, or writes it to a file, those
\* included that never look at KeyIsEncrypted and take it for a secret.
LockedIsInert ==
  key.locked =>
    /\ PublicKeyOf(key) = None /\ FingerprintOf(key) = None
    /\ SshPublicOf(key) = None /\ SshPrivateOf(key) = None
    /\ \A m \in Messages, scheme \in Asks : SignWith(key, m, TRUE, 1, scheme) = None
    /\ \A d \in made : ~ VerifiesWith(key, d.sig, d.msg)
=============================================================================
