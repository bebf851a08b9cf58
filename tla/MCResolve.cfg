\* Uploads, repairs and switches without faults, for what must end.
CONSTANTS
  r1 = r1
  r2 = r2
  b1 = b1
  Workers = {w1}
  Requests = {r1, r2}
  Kinds <- Maintained
  Primary = p
  Backups <- OneBackup
  Policies = {"primary_only", "best_effort_backups", "require_backups"}
  Contents = {c1}
  NoContent = NoContent
  MaxAttempts = 3
  MaxJobs = 8
  MaxRequests <- OneEach
  MaxFaults = 0
SPECIFICATION FairSpec
PROPERTIES
  PendingResolves
