SPECIFICATION Spec
CONSTANTS
  None = None
  Empty = empty
  Messages <- MCMessages
  Challenges = {}
  Schemes = {basic}
  Origins = {c1, c2}
  Controllers = {c1, c2}
  ControllerFamilies <- MCFamilies
  Groups = {g1, g2}
  Registries = {r1, r2, big}
  Oversized = {big}
  Values = {1, 2, 5}
  Width = 4
  MetaKeys = {m1, m2}
  MaxSigns = 2
INVARIANTS
  MarkerAuthentic
  ConvertedMarkerHolds
  ReadersReadLastAsked
