\* Overwrites of one path and repairs, one job loop, one backup, one fault.
CONSTANTS
  r1 = r1
  r2 = r2
  b1 = b1
  Workers = {w1}
  Requests = {r1, r2}
  Kinds <- OverwriteAndRepair
  Primary = p
  Backups <- OneBackup
  Policies = {"best_effort_backups"}
  Contents = {c1, c2}
  NoContent = NoContent
  MaxAttempts = 2
  MaxJobs = 8
  MaxRequests <- TwoAndOne
  MaxFaults = 1
SPECIFICATION Spec
SYMMETRY AlikeContents
INVARIANTS
  ReadyIsBacked
  SettledReplicasCurrent
  PendingHasJob
