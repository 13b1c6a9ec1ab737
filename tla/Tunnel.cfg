SPECIFICATION LiveSpec
CONSTANTS
  t1 = t1
  s1 = s1
  s2 = s2
  n1 = n1
  n2 = n2
  app = app
  c1 = c1
  c2 = c2
  NoOne = NoOne
  System = System
  Tunnels = {t1}
  Servers = {s1, s2}
  Conns = {c1, c2}
  Names = {n1, n2}
  Namespaces = {app, System}
  TunnelNs <- InApp
  ServerNs <- OneSystem
  ServerName <- OwnName
  StatusFaults = FALSE
  Changes = 4
INVARIANTS
  DeploymentsConverged
  AvailableHonest
PROPERTIES
  ComesToRest
CHECK_DEADLOCK FALSE
