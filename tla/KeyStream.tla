------------------------------ MODULE KeyStream ------------------------------
(***************************************************************************)
(* Multikeys and Nonces written one after the other to one stream, a key   *)
(* store or a connection, and read back from its head.  Other programs     *)
(* write to it as well, which order attributes as they like, know other    *)
(* attributes and codecs, or repeat an attribute.  The last write may be   *)
(* cut short.                                                              *)
(***************************************************************************)
EXTENDS MultikeyWire

CONSTANTS
  KeyCodecs, Comments, Ids, Payloads,    \* what this crate's keys are made of
  OtherCodecs, OtherComments, OtherIds, OtherPayloads, \* ... other programs'
  MaxPairs,      \* bound: attributes in another program's key
  MaxItems       \* bound: items written

ASSUME StreamConstants ==
  /\ KeyCodecs \subseteq KnownCodecs /\ Ids \subseteq AttrIds
  /\ Comments \cup Payloads \cup OtherComments \cup OtherPayloads \subseteq Seq(Nat)
  /\ \A comment \in Comments : IsText(comment)
  /\ OtherCodecs \cup OtherIds \subseteq Nat
  /\ MaxPairs \in Nat

VARIABLES
  stream,        \* the units that are not read yet
  written,       \* history: the items written, and whether they are whole
  read           \* the items read

streamVars == <<stream, written, read>>

Items ==
  [kind : {"nonce"}, value : Payloads] \cup
  [kind : {"key"}, value : [codec : KeyCodecs, comment : Comments,
                attributes : UNION {[ids -> Payloads] : ids \in SUBSET Ids}]]

Encoded(item) == IF item.kind = "key" THEN EncodedKey(item.value)
                                      ELSE EncodedNonce(item.value)

StreamInit == stream = << >> /\ written = << >> /\ read = << >>

Torn == written # << >> /\ Last(written).torn

Append1(item, whole, torn, units) ==
  /\ Len(written) < MaxItems /\ ~Torn
  /\ written' = Append(written, [item |-> item, whole |-> whole, torn |-> torn])
  /\ stream' = stream \o units
  /\ UNCHANGED read

Write(item) == Append1(item, TRUE, FALSE, Encoded(item))

\* The writer dies after n units.
WriteTorn(item, n) ==
  /\ n < Len(Encoded(item))
  /\ Append1(item, FALSE, TRUE, SubSeq(Encoded(item), 1, n))

\* The key that the units stand for, if no attribute is there twice.
KeyOf(codec, comment, pairs) ==
  [codec      |-> codec,
   comment    |-> comment,
   attributes |-> [id \in {pairs[i][1] : i \in DOMAIN pairs} |->
                    pairs[CHOOSE i \in DOMAIN pairs : pairs[i][1] = id][2]]]

NoneTwice(pairs) ==
  \A i, j \in DOMAIN pairs : pairs[i][1] = pairs[j][1] => i = j

\* Another program's key.  It is a Multikey if this crate knows its codec and
\* attributes, its comment is text, and no attribute is there twice.
WriteOther(codec, comment, pairs) ==
  LET key == KeyOf(codec, comment, pairs)
  IN  Append1([kind |-> "key", value |-> key],
              IsMultikey(key) /\ NoneTwice(pairs),
              FALSE,
              KeyUnits(codec, comment, pairs))

ReadKey ==
  LET r == DecodedKey(stream) IN
  /\ r.ok
  /\ read' = Append(read, [kind |-> "key", value |-> r.value])
  /\ stream' = r.rest
  /\ UNCHANGED written

ReadNonce ==
  LET r == DecodedNonce(stream) IN
  /\ r.ok
  /\ read' = Append(read, [kind |-> "nonce", value |-> r.value])
  /\ stream' = r.rest
  /\ UNCHANGED written

StreamNext ==
  \/ \E item \in Items : Write(item)
  \/ \E item \in Items : \E n \in 1 .. Len(Encoded(item)) : WriteTorn(item, n)
  \/ \E codec \in OtherCodecs, comment \in OtherComments,
        pairs \in BoundedSeq(OtherIds \X OtherPayloads, MaxPairs) :
       WriteOther(codec, comment, pairs)
  \/ ReadKey
  \/ ReadNonce

StreamSpec == StreamInit /\ [][StreamNext]_streamVars

-----------------------------------------------------------------------------
(* The stream is made of units; what was read are Multikeys and Nonces. *)
StreamTypeOK ==
  /\ stream \in Seq(Nat)
  /\ \A i \in DOMAIN read : read[i].kind = "key" => IsMultikey(read[i].value)
  /\ Len(read) <= Len(written)

(***************************************************************************)
(* Reading gives the items that were written, in their order, each with    *)
(* all that was in it and nothing of its neighbours: a torn or malformed   *)
(* item is never taken for one, and the reader never loses its place       *)
(* (try_decode_from returns the units after the item).                     *)
(***************************************************************************)
ReadIsWritten ==
  \A i \in DOMAIN read : written[i].whole /\ read[i] = written[i].item

(***************************************************************************)
(* Whatever was before it, a well-formed item within the size limit is     *)
(* read, whoever wrote it and in whatever order its attributes are.        *)
(***************************************************************************)
WholeItemsAreRead ==
  LET i == Len(read) + 1 IN
  (/\ i <= Len(written)
   /\ written[i].whole
   /\ Len(Encoded(written[i].item)) <= MaxDecodedSize)
    => DecodedKey(stream).ok \/ DecodedNonce(stream).ok

(***************************************************************************)
(* What was read can be sent on: its own encoding, followed by anything,   *)
(* decodes to the same item, wherever it was read from.                    *)
(***************************************************************************)
ReadItemsTravel ==
  read # << >> /\ Last(read).kind = "key" =>
    LET k == Last(read).value IN
    DecodedKey(EncodedKey(k) \o stream) = Accepted(k, stream)

(***************************************************************************)
(* The document form says the same as the binary form: a document with the *)
(* three fields in any order gives the key, and one with a field too few   *)
(* or too many gives nothing.                                              *)
(***************************************************************************)
DocumentsAgree ==
  read # << >> /\ Last(read).kind = "key" =>
    LET k   == Last(read).value
        doc == Document(k) IN
    \A fields \in BoundedSeq(1 .. 3, 4) :
      LET r == KeyOfDocument([i \in DOMAIN fields |-> doc[fields[i]]])
      IN  IF ToSet(fields) = 1 .. 3 /\ Len(fields) = 3
          THEN r.ok /\ r.value = k
          ELSE ~r.ok
=============================================================================
