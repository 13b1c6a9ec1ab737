SPECIFICATION FairSpec
CONSTANTS
  p1 = p1
  p2 = p2
  Nobody = Nobody
  Reflectors = {1}
  Pods = {p1, p2}
  MaxCA = 2
  Rotation = TRUE
  Takeovers = 1
INVARIANTS
  ForeignNeverMounted
PROPERTIES
  GateFollowsTrust
