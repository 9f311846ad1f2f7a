SPECIFICATION Spec
CONSTANTS
  None = None
  Empty = empty
  Messages = {empty}
  Challenges = {}
  Schemes = {}
  Origins = {h1, h2}
  Holders = {h1, h2}
  InFamilies <- MCFamilies
  Texts = {t1, t2}
  Aads = {a1, a2}
  Aeads <- MCAeads
  MaxSeals = 2
INVARIANTS
  OwnerOpens
  OpenedAsSealed
PROPERTY
  SealsBoxes
