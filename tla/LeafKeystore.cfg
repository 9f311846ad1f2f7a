\* Two signers, two messages, trees of two and four leaves, up to two crashes;
\* fair signers and callers that keep asking.
SPECIFICATION BusySpec
CONSTANTS
  Msgs = {m1, m2}
  MerkleDepths = {1, 2}
  XmssHeights = {1}
  OtherAttrs = {marker}
  Absent = Absent
  Signers = {s1, s2}
  Nobody = Nobody
  NoSig = NoSig
  NoKey = NoKey
  StartKeys <- SomeKeys
  MaxCrashes = 2
INVARIANTS
  TypeOK
  NoLeafReuse
  RefusedOnlyWhenSpent
  ReleasedVerifies
  LeavesAccounted
PROPERTIES
  DispensesLeaves
  KeyIsUsedUp
