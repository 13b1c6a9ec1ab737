SPECIFICATION SharedSpec
CONSTANTS
  t1 = t1
  t2 = t2
  s1 = s1
  r1 = r1
  b1 = b1
  d1 = d1
  NoOne = NoOne
  Foreign = Foreign
  TaaSes = {t1, t2}
  Records = {}
  Secrets = {s1}
  Bastions = {}
  Domains = {}
  SecretRef <- SharedSecret
  TaaSRef <- FirstTaaS
  DomainName <- SharedName
  Targets <- AllBastions
  BastionsOf <- OwnBastions
  Refusals = FALSE
  LateRecords = FALSE
  Callers = {"taas", "dnsrecord"}
  Rotations = 1
  ClientFailures = 1
  Hostnames = {"h1", "h2"}
  AgentEvents = 3
  Nodes = {"n1"}
  FleetEvents = 2
  DefaultEvents = 4
  Replicas = {"a", "b"}
  Nobody = "nobody"
  LeafValidity = 3
  LeafRenewBefore = 1
  MaxDay = 5
  WebhookEvents = 2
INVARIANTS
  TokenHeldWhileLive
  BlockEditCorrect
  HostLinesKept
  LeavesNothing
  CAFirst
  WebhookTrusted
PROPERTIES
  RotationHidden
  PresentNodesSpared
  HandMadeKept
  SharedJWTHeals
  SharedNodeFollowsProxy
  SharedServersSettle
  SharedServersFollowNodes
  SharedDefaultFollowsConfig
  SharedWebhookHeals
CHECK_DEADLOCK FALSE
