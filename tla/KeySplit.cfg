SPECIFICATION Spec
CONSTANTS
  Keys <- MCKeys
  Secrets = {"k1", "k2", "k3", "k4"}
  Thresholds = {1, 2, 3, 4}
  Limits = {3}
  MaxSplits = 2
  MaxDamaged = 1
  Garbage = "garbage"
  Nothing = Nothing
CHECK_DEADLOCK FALSE
INVARIANTS RecoversKey WrongKeyHasCause
