\* Two uploads to one path, one after the other, two job loops, no fault.
CONSTANTS
  r1 = r1
  r2 = r2
  b1 = b1
  Workers = {w1, w2}
  Requests = {r1, r2}
  Kinds <- OnlyUploads
  Primary = p
  Backups <- OneBackup
  Policies = {"best_effort_backups"}
  Contents = {c1, c2}
  NoContent = NoContent
  MaxAttempts = 2
  MaxJobs = 8
  MaxRequests <- TwoAndOne
  MaxFaults = 0
SPECIFICATION Spec
SYMMETRY AlikeContents
INVARIANTS
  SettledReplicasCurrent
