\* Two operators on one site, whose commands may overlap; one fault.
CONSTANTS
  c1 = c1
  c2 = c2
  Commands = {c1, c2}
  Kinds <- MCKinds
  Bundles <- MCBundles
  Headers <- MCHeaders
  Domains <- OneDomain
  Publications <- LiveOrNot
  CachePolicies = {"auto"}
  VerifyModes = {"wait"}
  MaxDeployments = 3
  MaxWrites = 2
  MaxCommands <- MCMaxCommands
  MaxFaults = 1
SPECIFICATION Spec
INVARIANTS
  TypeOK
  EvidenceIsOfAWrite
  AgreementKept
  ActiveManifestWasActive
  RollbackRestores
CHECK_DEADLOCK FALSE
