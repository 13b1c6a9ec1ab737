SPECIFICATION Spec
CONSTANTS
  p1 = p1
  p2 = p2
  Nobody = Nobody
  Reflectors = {1, 2}
  Pods = {p1}
  MaxCA = 2
  Rotation = FALSE
  Takeovers = 0
INVARIANTS
  AnnotationHonest
