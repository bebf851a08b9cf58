\* Two deployments, one job loop, one fault.
CONSTANTS
  r1 = r1
  r2 = r2
  Workers = {w1}
  Requests = {r1, r2}
  Kinds <- PublishAndDelete
  Forms <- MCForms
  Records <- MCRecords
  Files <- OneFile
  MaxDeployments = 2
  MaxRequests <- MCMaxRequests
  MaxFaults = 1
SPECIFICATION Spec
INVARIANTS
  ActiveDeploymentServable
