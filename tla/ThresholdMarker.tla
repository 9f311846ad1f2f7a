---------------------------- MODULE ThresholdMarker ----------------------------
(***************************************************************************)
(* A controller's Multikey with the marker of a threshold key on it        *)
(* (src/src/views/threshold_marker.rs, and the Builder methods of          *)
(* src/src/mk.rs that state t and n).  The marker is four attributes, the  *)
(* group key, the participants, t and n, signed by the controller in a     *)
(* fifth.  Setters, conversions of the disclosure mode and signing come in *)
(* any order, and the signature of another key's marker may be put in.     *)
(***************************************************************************)
EXTENDS DispatchedViews, FiniteSets

CONSTANTS
  Controllers,         \* origins of the keys that sign markers
  ControllerFamilies,
  Groups,              \* group public keys
  Registries,          \* participant maps
  Oversized,           \* those of them with more than 1024 participants
  Values,              \* what callers state as t and n
  Width,               \* 2^16
  MetaKeys,
  MaxSigns             \* bound: calls of sign_marker

D == INSTANCE Disclosure WITH Absent <- None

\* The marker's tuple, as canonical_marker_bytes encodes it.
Bundles == [group : Groups, participants : Registries,
            threshold : 0..Width - 1, limit : 0..Width - 1]

ASSUME MarkerConstants ==
  /\ Controllers \subseteq Origins
  /\ ControllerFamilies \subseteq SigningFamilies
  /\ Oversized \subseteq Registries
  /\ Values \subseteq Nat /\ Width \in Nat \ {0}
  /\ Bundles \subseteq Messages \ (Challenges \cup {Empty})
  /\ MaxSigns \in Nat
  /\ None \notin Groups \cup Registries \cup Nat \cup MetaKeys
                  \cup [threshold : Nat, limit : Nat] \cup D!Modes \cup D!Encryptions
                  \cup [by : Controllers, bundle : Bundles] \cup Multikeys

VARIABLES
  family,  \* the family of the controllers' keys
  built,   \* try_build was called
  marker,  \* the key's attributes: the disclosure's, the marker's, its signature
  signed,  \* what sign_marker signed, with its results
  asked,   \* the t and n last asked of the Builder; None once it holds two of one
  since    \* who signed what, if only the disclosure mode was changed since, or None

vars == <<family, built, marker, signed, asked, since>>

ControllerKey(c) == Multikey(family, "Priv", c, FALSE)

\* The forms of a controller's key: private, encrypted, public.
FormsOf(c) == {ControllerKey(c), [ControllerKey(c) EXCEPT !.locked = TRUE],
               PublicKeyOf(ControllerKey(c))}

NoParams == [threshold |-> None, limit |-> None, mode |-> None, enc |-> None]

Unmarked == [params |-> NoParams, group |-> None, participants |-> None, sig |-> None]

Init ==
  /\ family \in ControllerFamilies
  /\ built = FALSE /\ marker = Unmarked /\ signed = {}
  /\ asked = [threshold |-> None, limit |-> None] /\ since = None
-----------------------------------------------------------------------------
\* No attribute states what an encryption states too.
Coherent(p) ==
  /\ D!DisclosureMode(p) # "Full" => p.threshold = None
  /\ D!DisclosureMode(p) = "FullConfidential" => p.limit = None

\* A Builder method leaves the parameters p.
Asks(p, a) ==
  /\ ~ built
  /\ marker' = [marker EXCEPT !.params = p]
  /\ asked' = IF Coherent(p) THEN a ELSE None
  /\ UNCHANGED <<family, built, signed, since>>

\* Builder::with_threshold and with_limit, whatever the mode.
WithThreshold(t) ==
  Asks([marker.params EXCEPT !.threshold = t],
       IF asked = None THEN None ELSE [asked EXCEPT !.threshold = t])

WithLimit(n) ==
  Asks([marker.params EXCEPT !.limit = n],
       IF asked = None THEN None ELSE [asked EXCEPT !.limit = n])

\* Builder::with_disclosure: an error of the stamping is dropped, and what it
\* had removed by then stays removed.
WithDisclosure(mode, k, t, n) ==
  Asks(IF D!CanStamp(mode, k) THEN D!Stamped(marker.params, mode, t, n, k)
       ELSE D!Cleared(marker.params),
       [threshold |-> t, limit |-> n])

\* Builder::with_encrypted_threshold_meta: all of it is the caller's word.
WithEncryptedMeta(mode, e, limit) ==
  Asks([threshold |-> None, limit |-> limit, mode |-> mode, enc |-> e],
       [threshold |-> e.threshold,
        limit |-> IF mode = "FullConfidential" THEN e.limit ELSE limit])

TryBuild == ~ built /\ built' = TRUE /\ UNCHANGED <<family, marker, signed, asked, since>>
-----------------------------------------------------------------------------
\* set_group_public_key and set_participants overwrite; any map is written.
SetGroupPublicKey(g) ==
  /\ built
  /\ marker' = [marker EXCEPT !.group = g] /\ since' = None
  /\ UNCHANGED <<family, built, signed, asked>>

SetParticipants(r) ==
  /\ built
  /\ marker' = [marker EXCEPT !.participants = r] /\ since' = None
  /\ UNCHANGED <<family, built, signed, asked>>

\* MarkerView: a map too large is read as an error.
MarkerParticipants(mk) == IF mk.participants \in Oversized THEN None ELSE mk.participants

\* Mutant of MarkerNumber: what does not fit u16 is cast.
MarkerNumberCast(v) == IF v = None THEN None ELSE D!AsU16(v)

\* u16::try_from of an attribute.
MarkerNumber(v) == IF v # None /\ v < Width THEN v ELSE None

\* canonical_marker_bytes, None for an error.
CanonicalMarkerBytes(mk) ==
  LET b == [group |-> mk.group, participants |-> MarkerParticipants(mk),
            threshold |-> MarkerNumber(mk.params.threshold), limit |-> MarkerNumber(mk.params.limit)]
  IN IF None \in {b.group, b.participants, b.threshold, b.limit} THEN None ELSE b

\* What the marker says, as a reader of the attributes takes it.
Attested(mk) == [group |-> mk.group, participants |-> mk.participants,
                threshold |-> mk.params.threshold, limit |-> mk.params.limit]

\* sign_marker with a form of a controller's key; where it fails nothing changes.
SignMarker(k, scheme) ==
  LET b == CanonicalMarkerBytes(marker)
      s == SignWith(k, b, FALSE, Cardinality(signed) + 1, scheme)
  IN /\ built /\ Cardinality(signed) < MaxSigns
     /\ b # None /\ s # None
     /\ marker' = [marker EXCEPT !.sig = s]
     /\ signed' = signed \cup {[by |-> k.origin, says |-> Attested(marker), sig |-> s]}
     /\ since' = IF Coherent(marker.params) THEN [by |-> k.origin, bundle |-> b] ELSE None
     /\ UNCHANGED <<family, built, asked>>

\* verify_marker returns Ok.
VerifyMarker(mk, k) ==
  /\ mk.sig # None
  /\ CanonicalMarkerBytes(mk) # None
  /\ VerifiesWith(k, mk.sig, CanonicalMarkerBytes(mk))

\* The attribute of another marked key is put in.
TakeSignature(d) ==
  /\ built
  /\ marker' = [marker EXCEPT !.sig = d.sig] /\ since' = None
  /\ UNCHANGED <<family, built, signed, asked>>

\* ThresholdDisclosureView::to_disclosure; the copy takes the key's place.
ToDisclosure(mode, new, current) ==
  /\ built
  /\ D!CanConvert(marker.params, mode, new, current)
  /\ marker' = [marker EXCEPT !.params = D!Converted(marker.params, mode, new)]
  /\ UNCHANGED <<family, built, signed, asked, since>>

Keys == MetaKeys \cup {None}

SchemesAsked == IF family = "Bls" THEN Schemes ELSE {None}

Building ==
  \/ \E v \in Values : WithThreshold(v) \/ WithLimit(v)
  \/ \E mode \in D!Modes, k \in Keys, t, n \in Values : WithDisclosure(mode, k, t, n)
  \/ \E mode \in D!Modes, k \in MetaKeys, t, n \in Values, limit \in Values \cup {None} :
       t < Width /\ n < Width
         /\ WithEncryptedMeta(mode, [key |-> k, threshold |-> t, limit |-> n], limit)
  \/ TryBuild

Marking ==
  \/ \E g \in Groups : SetGroupPublicKey(g)
  \/ \E r \in Registries : SetParticipants(r)
  \/ \E c \in Controllers, scheme \in SchemesAsked : \E k \in FormsOf(c) : SignMarker(k, scheme)
  \/ \E d \in signed : TakeSignature(d)
  \/ \E mode \in D!Modes, new, current \in Keys : ToDisclosure(mode, new, current)

Next == Building \/ Marking

Spec == Init /\ [][Next]_vars
-----------------------------------------------------------------------------
\* threshold_kind.  Nothing else here looks at the marked key's codec.
ThresholdKind(codec) ==
  IF codec \in {Codec("Bls", "PrivShare"), Codec("Bls", "PubShare")} THEN "ShamirSplit"
  ELSE IF codec = DkgShare THEN "Dkg"
  ELSE None

\* threshold_params of a marked key with that codec: both numbers in the open,
\* or None.  The numbers of a DKG share are attributes of their own, which none
\* of these calls writes.
ThresholdParams(codec, mk) ==
  LET t == MarkerNumber(mk.params.threshold)
      n == MarkerNumber(mk.params.limit)
  IN IF ThresholdKind(codec) = "ShamirSplit" /\ t # None /\ n # None
     THEN [threshold |-> t, limit |-> n]
     ELSE None

\* The attributes are of their types.
TypeOK ==
  /\ family \in ControllerFamilies /\ built \in BOOLEAN
  /\ marker.params \in D!Params
  /\ marker.group \in Groups \cup {None}
  /\ marker.participants \in Registries \cup {None}
  /\ asked # None => /\ asked.threshold \in Nat \cup {None}
                     /\ asked.limit \in Nat \cup {None}

\* A marker that verify_marker accepts with a controller's key says in all four
\* attributes what that controller signed: a registry, group key, t or n set
\* since, or the signature of another marker, is found out.
MarkerAuthentic ==
  \A c \in Controllers : \A k \in FormsOf(c) :
    VerifyMarker(marker, k) =>
      \E d \in signed : d.by = c /\ d.says = Attested(marker)

\* Only conversions of the disclosure mode since sign_marker: the marker
\* verifies with the private and the public key while the mode is Full, fails
\* while t or n is hidden, and verifies again once they are shown, since
\* neither the u16 of an encryption nor a read with a meta key changes what was
\* signed (sign_marker, stamp_disclosure_attrs, read_threshold_params).
ConvertedMarkerHolds ==
  since # None =>
    \A k \in {ControllerKey(since.by), PublicKeyOf(ControllerKey(since.by))} :
      VerifyMarker(marker, k) <=> D!DisclosureMode(marker.params) = "Full"

Says(v, a) == v = a \/ (a # None /\ v = D!AsU16(a))

\* Whoever reads t and n, in the open (threshold_params) or with a meta key, in
\* whatever modes the key has been, reads what was last asked of the Builder,
\* or its low 16 bits where it was encrypted.  A with_disclosure whose error
\* was dropped leaves nothing to read and never the numbers of a call before.
ReadersReadLastAsked ==
  asked # None =>
    /\ \A k \in Keys : D!ReadWith(marker.params, k) =>
         Says(D!ReadThreshold(marker.params), asked.threshold)
           /\ Says(D!ReadLimit(marker.params), asked.limit)
    /\ \A codec \in AllCodecs :
         LET read == ThresholdParams(codec, marker)
         IN read # None => Says(read.threshold, asked.threshold) /\ Says(read.limit, asked.limit)
=============================================================================
