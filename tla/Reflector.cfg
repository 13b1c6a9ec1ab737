SPECIFICATION LiveSpec
CONSTANTS
  h1 = h1
  Nobody = Nobody
  Reflectors = {1, 2}
  Hosts = {h1}
  DNSDisabled = {}
  NodeTrustDisabled = {1}
  IgnoreUntrusted = {2}
  MaxTime = 2
  Changes = 5
INVARIANTS
  ClaimsDisjoint
  ClaimsComplete
  NoOrphanedOverride
PROPERTIES
  ZonesConverge
  ReflectorGoes
CHECK_DEADLOCK FALSE
