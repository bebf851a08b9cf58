\* One operator deploys a hybrid site twice.
CONSTANTS
  c1 = c1
  c2 = c2
  Commands = {c1}
  Kinds <- HybridOnly
  Bundles <- MCBundles
  Headers <- MCHeaders
  Domains <- TwoDomains
  Publications <- LiveOnly
  CachePolicies = {"auto"}
  VerifyModes = {"wait"}
  MaxDeployments = 2
  MaxWrites = 2
  MaxCommands <- TwoDeploys
  MaxFaults = 0
SPECIFICATION Spec
INVARIANTS
  SuccessMeansAgreement
CHECK_DEADLOCK FALSE
