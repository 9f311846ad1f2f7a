SPECIFICATION Spec
CONSTANTS
  None = None
  Keys <- MCKeys
  LocalCodecs <- MCLocalCodecs
  Factories = {f1, f2}
  MaxRegistrations = 3
INVARIANTS
  LastFactoryServes
  BuiltInWins
