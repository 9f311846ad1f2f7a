SPECIFICATION Spec
CONSTANTS
  Names = {"a", "b"}
  StartKeys <- MCStartKeys
  Passphrases = {"p1", "p2"}
  Salts = {"s1", "s2"}
  Nonces = {"n1", "n2"}
  Absent = Absent
  MaxLayers = 2
INVARIANTS OpensItself OpenIsOriginal OneLayer
PROPERTIES LocksAndOpens
CHECK_DEADLOCK FALSE
