---------------------------- MODULE MultikeyWire ----------------------------
(***************************************************************************)
(* The forms in which a Multikey and a Nonce are stored and sent: the      *)
(* binary form (src/src/mk.rs, src/src/nonce.rs), which serde uses too     *)
(* where the format is not for people, and the document of named fields    *)
(* that it uses where it is (src/src/serde).                               *)
(*                                                                         *)
(* A unit of the binary form is a varint or a byte of a payload.  Both are *)
(* numbers, as on the wire, where nothing but its place tells them apart.  *)
(***************************************************************************)
EXTENDS Integers, FiniteSets, Sequences, SequencesExt

CONSTANTS
  Sigil, NonceSigil,   \* the codes that begin a Multikey and a Nonce
  KnownCodecs,         \* the codes that are a codec
  NotText,             \* a byte that is in no UTF-8 text
  MaxAttributes, MaxDecodedSize, \* limits of the Multikey decoder
  MaxVarbytes          \* limit of the Varbytes decoder

(***************************************************************************)
(* AttrId: the code of an attribute is its place in the enum.              *)
(***************************************************************************)
AttrNames == <<
  "key-is-encrypted", "key-data", "cipher-codec", "cipher-key-len",
  "cipher-nonce", "kdf-codec", "kdf-salt", "kdf-rounds", "threshold", "limit",
  "share-identifier", "threshold-data", "dkg-owner-id", "dkg-participants",
  "dkg-threshold", "dkg-limit", "dkg-group-public-key", "dkg-identifier",
  "dkg-session-id", "share-verifiers", "share-dual",
  "threshold-group-public-key", "threshold-participants",
  "threshold-marker-sig", "threshold-disclosure", "encrypted-threshold-meta",
  "threshold-meta-cipher", "algorithm-name", "key-type", "depth" >>

AttrIds == 0 .. Len(AttrNames) - 1

AsStr(id) == AttrNames[id + 1]

FromStr(name) == CHOOSE id \in AttrIds : AsStr(id) = name

ASSUME WireConstants ==
  /\ {Sigil, NonceSigil} \subseteq KnownCodecs /\ KnownCodecs \subseteq Nat
  /\ Sigil # NonceSigil
  /\ MaxAttributes \in Nat /\ MaxAttributes >= Cardinality(AttrIds)
  /\ MaxDecodedSize \in Nat /\ MaxVarbytes \in Nat /\ MaxVarbytes >= MaxDecodedSize
  /\ NotText \in Nat

IsText(bytes) == NotText \notin ToSet(bytes)

\* A Multikey: its attributes are a function from some of the AttrIds.
IsMultikey(k) ==
  /\ k.codec \in KnownCodecs
  /\ IsText(k.comment)
  /\ DOMAIN k.attributes \subseteq AttrIds

-----------------------------------------------------------------------------
(* Writing. *)

Varbytes(bytes) == <<Len(bytes)>> \o bytes

PairUnits(pairs) ==
  FlattenSeq([i \in 1 .. Len(pairs) |-> <<pairs[i][1]>> \o Varbytes(pairs[i][2])])

InOrder(ids) ==
  CHOOSE s \in [1 .. Cardinality(ids) -> ids] :
    \A i, j \in DOMAIN s : i < j => s[i] < s[j]

\* Mutant of Pairs: attributes without content are not written.
PairsNonEmpty(k) ==
  LET ids == InOrder({id \in DOMAIN k.attributes : k.attributes[id] # << >>})
  IN  [i \in DOMAIN ids |-> <<ids[i], k.attributes[ids[i]]>>]

\* The attributes in the order of their codes, as a BTreeMap has them.
Pairs(k) ==
  LET ids == InOrder(DOMAIN k.attributes)
  IN  [i \in DOMAIN ids |-> <<ids[i], k.attributes[ids[i]]>>]

KeyUnits(codec, comment, pairs) ==
  <<Sigil, codec>> \o Varbytes(comment) \o <<Len(pairs)>> \o PairUnits(pairs)

EncodedKey(k) == KeyUnits(k.codec, k.comment, Pairs(k))

EncodedNonce(nonce) == <<NonceSigil>> \o Varbytes(nonce)

-----------------------------------------------------------------------------
(***************************************************************************)
(* Reading.  A result has the value and the units after it.                *)
(***************************************************************************)
Refused == [ok |-> FALSE, rest |-> << >>]

Accepted(value, rest) == [ok |-> TRUE, value |-> value, rest |-> rest]

HasVarbytes(s, at) ==
  /\ at <= Len(s)
  /\ s[at] <= MaxVarbytes
  /\ at + s[at] <= Len(s)

VarbytesAt(s, at) == SubSeq(s, at + 1, at + s[at])

After(s, at) == at + s[at] + 1

\* Mutant of IsNewAttribute: a second value for an attribute is accepted.
AnyAttribute(id, attributes) == id \in AttrIds

\* Mutant of IsNewAttribute: attributes must be in the order of their codes.
AscendingAttribute(id, attributes) ==
  id \in AttrIds /\ \A other \in DOMAIN attributes : other < id

IsNewAttribute(id, attributes) == id \in AttrIds /\ id \notin DOMAIN attributes

\* insert of a BTreeMap.
With(attributes, id, value) ==
  [other \in DOMAIN attributes \cup {id} |->
    IF other = id THEN value ELSE attributes[other]]

\* The decoder's loop over one attribute; r is its state.
AttributeRead(s, r) ==
  IF /\ r.ok
     /\ r.at <= Len(s)
     /\ IsNewAttribute(s[r.at], r.attributes)
     /\ HasVarbytes(s, r.at + 1)
     /\ After(s, r.at + 1) - 1 <= MaxDecodedSize
  THEN [r EXCEPT !.at = After(s, r.at + 1),
                 !.attributes = With(@, s[r.at], VarbytesAt(s, r.at + 1))]
  ELSE [r EXCEPT !.ok = FALSE]

AttributesRead(s, start, count) ==
  LET read[i \in 0 .. count] ==
        IF i = 0 THEN [ok |-> TRUE, at |-> start, attributes |-> << >>]
                 ELSE AttributeRead(s, read[i - 1])
  IN  read[count]

\* Mutant of HasHeader: the comment is not checked to be text.
HasHeaderAnyText(s) ==
  /\ Len(s) >= 2 /\ s[1] = Sigil /\ s[2] \in KnownCodecs
  /\ HasVarbytes(s, 3)
  /\ After(s, 3) <= Len(s)
  /\ s[After(s, 3)] <= MaxAttributes

\* Sigil, codec, comment and the number of attributes.
HasHeader(s) ==
  /\ Len(s) >= 2 /\ s[1] = Sigil /\ s[2] \in KnownCodecs
  /\ HasVarbytes(s, 3) /\ IsText(VarbytesAt(s, 3))
  /\ After(s, 3) <= Len(s)
  /\ s[After(s, 3)] <= MaxAttributes

DecodedKey(s) ==
  IF HasHeader(s)
  THEN LET count == After(s, 3)
           r     == AttributesRead(s, count + 1, s[count])
       IN  IF r.ok
           THEN Accepted([codec |-> s[2], comment |-> VarbytesAt(s, 3),
                          attributes |-> r.attributes],
                         SubSeq(s, r.at, Len(s)))
           ELSE Refused
  ELSE Refused

DecodedNonce(s) ==
  IF Len(s) >= 1 /\ s[1] = NonceSigil /\ HasVarbytes(s, 2)
  THEN Accepted(VarbytesAt(s, 2), SubSeq(s, After(s, 2), Len(s)))
  ELSE Refused

-----------------------------------------------------------------------------
(* The document of named fields. *)

FieldNames == {"codec", "comment", "attributes"}

Document(k) ==
  << [name |-> "codec", value |-> k.codec],
     [name |-> "comment", value |-> k.comment],
     [name |-> "attributes",
      value |-> [i \in DOMAIN Pairs(k) |->
                  <<AsStr(Pairs(k)[i][1]), Pairs(k)[i][2]>>]] >>

\* Mutant of HasFieldsOnce: the last of several fields of a name counts.
HasFields(doc) == FieldNames = {doc[i].name : i \in DOMAIN doc}

HasFieldsOnce(doc) ==
  /\ FieldNames = {doc[i].name : i \in DOMAIN doc}
  /\ Len(doc) = Cardinality(FieldNames)

Field(doc, name) == (CHOOSE i \in DOMAIN doc : doc[i].name = name)

NamesOnce(pairs) ==
  /\ \A i \in DOMAIN pairs : pairs[i][1] \in ToSet(AttrNames)
  /\ \A i, j \in DOMAIN pairs : pairs[i][1] = pairs[j][1] => i = j

KeyOfDocument(doc) ==
  IF HasFieldsOnce(doc) /\ NamesOnce(doc[Field(doc, "attributes")].value)
  THEN LET pairs == doc[Field(doc, "attributes")].value
           ids   == {FromStr(pairs[i][1]) : i \in DOMAIN pairs}
       IN  Accepted([codec      |-> doc[Field(doc, "codec")].value,
                     comment    |-> doc[Field(doc, "comment")].value,
                     attributes |-> [id \in ids |->
                       pairs[CHOOSE i \in DOMAIN pairs : FromStr(pairs[i][1]) = id][2]]],
                    << >>)
  ELSE Refused
=============================================================================
