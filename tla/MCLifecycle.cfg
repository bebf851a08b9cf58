\* One content uploaded, refreshed, repaired, switched and deleted.
CONSTANTS
  r1 = r1
  r2 = r2
  b1 = b1
  Workers = {w1}
  Requests = {r1, r2}
  Kinds <- Lifecycle
  Primary = p
  Backups <- OneBackup
  Policies = {"primary_only", "best_effort_backups", "require_backups"}
  Contents = {c1}
  NoContent = NoContent
  MaxAttempts = 2
  MaxJobs = 8
  MaxRequests <- TwoAndOne
  MaxFaults = 1
SPECIFICATION Spec
INVARIANTS
  TypeOK
  NoOrphans
