------------------------------ MODULE Disclosure ------------------------------
(***************************************************************************)
(* How a key share states its threshold t and its limit n                  *)
(* (src/src/views/threshold_meta.rs): in plain attributes, or encrypted    *)
(* under a meta key.                                                       *)
(*                                                                         *)
(* Only the five attributes that the disclosure modes govern are kept:     *)
(* Threshold, Limit, ThresholdDisclosure, and the pair                     *)
(* EncryptedThresholdMeta / ThresholdMetaCipher, which are written and     *)
(* removed together and appear here as `enc`.  An encryption is a record   *)
(* that only the meta key in it opens.                                     *)
(***************************************************************************)
EXTENDS Naturals

CONSTANTS
  MetaKeys,   \* the 32-byte symmetric keys a caller may hold
  Width,      \* 2^16: the values of the u16 that an encrypted t or n is cast to
  Absent      \* an attribute that is not there, or None for a meta key

ASSUME DisclosureConstants ==
  /\ Absent \notin MetaKeys
  /\ Absent \notin Nat
  /\ Absent \notin {"Full", "Partial", "FullConfidential"}
  /\ Absent \notin [key : MetaKeys, threshold : Nat, limit : Nat \cup {Absent}]
  /\ Width \in Nat \ {0}

Modes == {"Full", "Partial", "FullConfidential"}

Encryptions == [key       : MetaKeys,
                threshold : Nat,
                limit     : Nat \cup {Absent}]

Params == [threshold : Nat \cup {Absent},
           limit     : Nat \cup {Absent},
           mode      : Modes \cup {Absent},
           enc       : Encryptions \cup {Absent}]

\* The attributes Builder::with_threshold and with_limit write: no mode.
Plain(t, n) == [threshold |-> t, limit |-> n, mode |-> Absent, enc |-> Absent]

\* disclosure_mode: a share without the attribute is in Full mode.
DisclosureMode(p) == IF p.mode = Absent THEN "Full" ELSE p.mode

(***************************************************************************)
(* read_threshold_params under the meta key k (Absent for None): whether   *)
(* it succeeds, and then the t and the n it returns.                       *)
(***************************************************************************)
ReadWith(p, k) ==
  \/ /\ DisclosureMode(p) = "Full"
     /\ p.threshold # Absent
     /\ p.limit # Absent
  \/ /\ DisclosureMode(p) = "Partial"
     /\ p.limit # Absent
     /\ p.enc # Absent
     /\ k = p.enc.key
  \/ /\ DisclosureMode(p) = "FullConfidential"
     /\ p.enc # Absent
     /\ k = p.enc.key
     /\ p.enc.limit # Absent

ReadThreshold(p) ==
  IF DisclosureMode(p) = "Full" THEN p.threshold ELSE p.enc.threshold

ReadLimit(p) ==
  IF DisclosureMode(p) = "FullConfidential" THEN p.enc.limit ELSE p.limit

\* `threshold as u16`: the cast keeps the low bits and reports nothing.
AsU16(v) == v % Width

\* The confidential modes need a meta key; Full ignores it.
CanStamp(mode, k) == mode # "Full" => k \in MetaKeys

\* Mutant of Cleared: the attributes of the mode before stay.
NotCleared(p) == p

\* The five removals stamp_disclosure_attrs begins with, before it can fail.
Cleared(p) ==
  [threshold |-> Absent, limit |-> Absent, mode |-> Absent, enc |-> Absent]

\* Mutant of Stamped: the confidential modes encrypt the limit alone.
StampedSwapped(p, mode, t, n, k) ==
  [threshold |-> IF mode = "Full" THEN t ELSE Absent,
   limit     |-> IF mode = "FullConfidential" THEN Absent ELSE n,
   mode      |-> mode,
   enc       |-> IF mode = "Full" THEN Absent
                 ELSE [key |-> k, threshold |-> AsU16(n), limit |-> AsU16(t)]]

\* stamp_disclosure_attrs where it succeeds.
Stamped(p, mode, t, n, k) ==
  LET c == Cleared(p)
  IN [threshold |-> IF mode = "Full" THEN t ELSE c.threshold,
      limit     |-> IF mode = "FullConfidential" THEN c.limit ELSE n,
      mode      |-> mode,
      enc       |-> IF mode = "Full" THEN c.enc
                    ELSE [key       |-> k,
                          threshold |-> AsU16(t),
                          limit     |-> IF mode = "Partial" THEN Absent ELSE AsU16(n)]]

(***************************************************************************)
(* DisclosureView::to_disclosure: read with the current meta key, then     *)
(* stamp a copy in the target mode.                                        *)
(***************************************************************************)
CanConvert(p, mode, new, current) == ReadWith(p, current) /\ CanStamp(mode, new)

Converted(p, mode, new) == Stamped(p, mode, ReadThreshold(p), ReadLimit(p), new)
=============================================================================
