SPECIFICATION Spec
CONSTANTS
  t1 = t1
  t2 = t2
  s1 = s1
  r1 = r1
  b1 = b1
  d1 = d1
  NoOne = NoOne
  Foreign = Foreign
  TaaSes = {t1}
  Records = {r1}
  Secrets = {s1}
  Bastions = {b1}
  Domains = {d1}
  SecretRef <- SharedSecret
  TaaSRef <- FirstTaaS
  DomainName <- SharedName
  Targets <- AllBastions
  BastionsOf <- OwnBastions
  Refusals = TRUE
  LateRecords = FALSE
INVARIANTS
  NoLeakedDomain
