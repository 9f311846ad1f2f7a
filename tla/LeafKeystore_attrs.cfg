\* Keys that carry further attributes.
SPECIFICATION Spec
CONSTANTS
  Msgs = {m1, m2}
  MerkleDepths = {1, 2}
  XmssHeights = {1}
  OtherAttrs = {marker}
  Absent = Absent
  Signers = {s1, s2}
  Nobody = Nobody
  NoSig = NoSig
  NoKey = NoKey
  StartKeys <- AnnotatedKeys
  MaxCrashes = 2
PROPERTY OtherAttributesKept
