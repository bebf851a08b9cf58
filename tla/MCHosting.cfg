SPECIFICATION Spec
SYMMETRY Symmetry
CONSTANTS
  lib = lib  store = store  b1 = b1  b2 = b2  s1 = s1  s2 = s2  h1 = h1  h2 = h2
  n1 = n1  n2 = n2  r1 = r1  r2 = r2  v1 = v1  v2 = v2
  Libraries = {lib}  Stores = {store}
  Bindings <- MCBindings  Constraints <- MCConstraints  Policy <- MCPolicy
  NoLimit = NoLimit  Checkable = {b1}  Cargo <- MCCargo
  MaxTransfers = 2  Uploads = {r1, r2}  Checks = {r1, r2}
  MaxDay = 1  MaxRestarts = 1
  SiteIDs = {s1, s2}  Hosts = {h1, h2}  NoSite = NoSite
  DefaultHost <- MCDefaultHost  Slots = {r1, r2}
  Deployments = {v1, v2}  NoDeployment = NoDeployment
  Names <- MCNames  Contents = {v1, v2}  Scripts = {v1, v2}
  Policies = {v1, v2}  RecordIDs = {r1, r2}  Bucket = bucket  Syncs = {r1, r2}
INVARIANTS
  TypeOK DailyUsage HealthCounted AppendsAccumulate DeletedSiteIsGone
  SyncsKeepTheirWord
CHECK_DEADLOCK FALSE
