SPECIFICATION Spec
CONSTANTS
  k1 = k1
  k2 = k2
  s1 = s1
  s2 = s2
  MetaKeys <- MCMetaKeys
  Dealings <- MCDealings
  Width = 65536
  Absent = Absent
  Ids = {1, 2, 3}
  Collectors = {"c"}
  Garbage = Garbage
  MaxEdits = 2
SYMMETRY MCSymmetry
INVARIANTS SharesKept CombinedIsSplitKey EnoughSharesCombine ParamsSurvive ConfidentialHides
CHECK_DEADLOCK FALSE
