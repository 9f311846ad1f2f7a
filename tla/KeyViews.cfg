SPECIFICATION Spec
CONSTANTS
  None = None
  Empty = empty
  Messages = {challenge, text, empty}
  Challenges = {challenge}
  Schemes = {basic, pop}
  Generated = {g1, g2}
  Shares = {s1}
  Origins <- MCOrigins
  InFamilies <- MCFamilies
  MaxCalls = 2
INVARIANTS
  TypeOK
  GenuineVerifies
  VerifiedIsGenuine
  OneIdentity
  LockedIsInert
