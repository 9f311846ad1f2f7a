\* 2-of-3 shares of keys with two leaves, two messages.
SPECIFICATION GroupSpec
CONSTANTS
  Msgs = {m1, m2}
  MerkleDepths = {1}
  XmssHeights = {1}
  OtherAttrs = {}
  Absent = Absent
  Holders = {h1, h2, h3}
  Threshold = 2
  OwnerKeys <- FreshAndUsed
  NoShare = NoShare
  ReadBack = {3}
SYMMETRY Interchangeable
INVARIANTS
  GroupTypeOK
  UsedOnceIsSafe
  QuorumCombines
  CombinedVerifies
