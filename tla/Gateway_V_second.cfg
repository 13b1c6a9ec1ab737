SPECIFICATION LiveSpec
CONSTANTS
  g1 = g1
  l1 = l1
  l2 = l2
  r1 = r1
  r2 = r2
  ns1 = ns1
  a1 = a1
  a2 = a2
  p1 = p1
  p2 = p2
  v1 = v1
  v2 = v2
  NoOne = NoOne
  Gateways = {g1}
  Listeners = {l1, l2}
  Routes = {r1, r2}
  Paths = {p1, p2}
  Backends = {v1, v2}
  RuleSets <- OneOrTwoBackends
  TaaSes = {a1, a2}
  GatewayNs <- OneNs
  GatewayName <- OwnName
  Host <- OneListenerHost
  Protocol <- TwoProtocols
  RouteKind <- TwoKinds
  RouteNs <- SameNs
  RouteName <- RouteNames
  RouteHosts <- OneHost
  ParentRefs <- Refs
  Forgotten = {"class"}
  Changes = 3
INVARIANTS
  NoOrphanedRecord
CHECK_DEADLOCK FALSE
